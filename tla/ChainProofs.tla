---------------------------- MODULE ChainProofs ----------------------------
(***************************************************************************)
(* The engine's parties stay in lockstep, and the block they end with      *)
(* holds the leaves that the reference derives from the seed: whatever the *)
(* circuit, the block, the seed and its sharing, the randomness and the    *)
(* order in which the parties run.                                         *)
(***************************************************************************)
EXTENDS ChainInv, CircuitProofs, SequenceTheorems

-----------------------------------------------------------------------------
(* The hash circuit and its schedule; the entries of values on its wires.  *)

HashWires == Wires(HashCircuit)
GateCount == Len(HashCircuit.gates)
Avail == Available(HashCircuit)
ValueBits == ByteBits * MsgBytes

(* The circuit has gates on its wires, and a schedule with rounds.         *)
LEMMA CircuitFacts ==
    /\ GateCount \in Nat \ {0} /\ DOMAIN HashCircuit.gates = 1..GateCount
    /\ \A i \in 1..GateCount : IsGate(HashCircuit, HashCircuit.gates[i])
    /\ Formed(HashCircuit) /\ IsAvailable(HashCircuit, Avail)
    /\ IsSchedule(Sched, HashCircuit, Avail, GateCount)
    /\ Sched.depth \in Nat \ {0}
<1>1. Formed(HashCircuit) /\ \E i \in DOMAIN HashCircuit.gates : HashCircuit.gates[i].op = "and"
  BY HashCircuitFormed
<1>2. PICK n \in Nat : /\ DOMAIN HashCircuit.gates = 1..n
                       /\ \A i \in 1..n : IsGate(HashCircuit, HashCircuit.gates[i])
  BY <1>1, GatesAre
<1>3. n = GateCount /\ n # 0
  <2>1. HashCircuit.gates \in Seq(Gates(HashCircuit))
    BY <1>1 DEF Formed
  <2>2. DOMAIN HashCircuit.gates = 1..GateCount /\ GateCount \in Nat
    BY <2>1 DEF GateCount
  <2>3. GateCount # 0
    BY <1>1, <2>2
  <2> QED BY <1>2, <2>2, <2>3
<1>4. IsAvailable(HashCircuit, Avail)
  BY <1>1, AvailableIs DEF Avail
<1>5. /\ IsSchedule(Schedule(HashCircuit), HashCircuit, Available(HashCircuit), n)
      /\ Schedule(HashCircuit).depth # 0
  BY <1>1, <1>2, <1>3, ScheduleIs
<1>6. IsSchedule(Sched, HashCircuit, Avail, n) /\ Sched.depth # 0
  BY <1>5 DEF Sched, Avail
<1>7. Sched.depth \in Nat
  BY <1>6 DEF IsSchedule
<1> QED BY <1>1, <1>2, <1>3, <1>4, <1>6, <1>7

(* The gates of the schedule are the circuit's.                            *)
LEMMA ScheduledGates ==
    ASSUME NEW r \in 0..Sched.depth, NEW L \in {Sched.locals[r], Sched.ands[r]}
    PROVE  /\ Len(L) \in Nat /\ DOMAIN L = 1..Len(L)
           /\ \A i \in 1..Len(L) : IsGate(HashCircuit, L[i])
<1> DEFINE G == {HashCircuit.gates[i] : i \in 1..GateCount}
<1>1. /\ InOrder(Sched.locals[r], HashCircuit, Avail, r, FALSE, GateCount)
      /\ InOrder(Sched.ands[r], HashCircuit, Avail, r, TRUE, GateCount)
  BY CircuitFacts DEF IsSchedule
<1>2. L \in Seq(G)
  BY <1>1 DEF InOrder
<1>3. \A g \in G : IsGate(HashCircuit, g)
  BY CircuitFacts
<1> HIDE DEF G
<1>4. Len(L) \in Nat /\ DOMAIN L = 1..Len(L) /\ \A i \in 1..Len(L) : L[i] \in G
  BY <1>2
<1> QED BY <1>3, <1>4

(* A sum of no number, of one, and of two.                                 *)
LEMMA SmallTotals ==
    /\ Total(<< >>) = 0
    /\ \A a \in Nat : Total(<<a>>) = a
    /\ \A a, b \in Nat : Total(<<a, b>>) = a + b
<1>1. Total(<< >>) = 0
  <2>1. DOMAIN << >> = 1..0
    OBVIOUS
  <2>2. PICK h : Runs(h, "total", [seq |-> << >>], 0, 0) /\ Total(<< >>) = h[0]
    BY <2>1, TotalRuns
  <2> QED BY <2>2 DEF Runs
<1>2. ASSUME NEW a \in Nat PROVE Total(<<a>>) = a
  <2>1. DOMAIN <<a>> = 1..1 /\ <<a>>[1] = a
    OBVIOUS
  <2> DEFINE s == <<a>>
             A == [seq |-> s]
  <2>2. PICK h : Runs(h, "total", A, 0, 1) /\ Total(s) = h[1]
    BY <2>1, TotalRuns
  <2>3. h[0] = 0 /\ h[0 + 1] = FoldStep("total", A, h[0], 0 + 1)
    <3> HIDE DEF A
    <3> QED BY <2>2 DEF Runs
  <2>4. FoldStep("total", A, 0, 1) = 0 + s[1]
    BY DEF FoldStep
  <2> QED BY <2>1, <2>2, <2>3, <2>4
<1>3. ASSUME NEW a \in Nat, NEW b \in Nat PROVE Total(<<a, b>>) = a + b
  <2>1. DOMAIN <<a, b>> = 1..2 /\ <<a, b>>[1] = a /\ <<a, b>>[2] = b
    OBVIOUS
  <2> DEFINE s == <<a, b>>
             A == [seq |-> s]
  <2>2. PICK h : Runs(h, "total", A, 0, 2) /\ Total(s) = h[2]
    BY <2>1, TotalRuns
  <2>3. /\ h[0] = 0 /\ h[0 + 1] = FoldStep("total", A, h[0], 0 + 1)
        /\ h[1 + 1] = FoldStep("total", A, h[1], 1 + 1)
    <3> HIDE DEF A
    <3> QED BY <2>2 DEF Runs
  <2>4. \A u, i : FoldStep("total", A, u, i) = u + s[i]
    BY DEF FoldStep
  <2> HIDE DEF A
  <2> QED BY <2>1, <2>2, <2>3, <2>4
<1> QED BY <1>1, <1>2, <1>3

(* Where the circuit's inputs and outputs are.                             *)
LEMMA HashOffsets ==
    /\ ValueBits \in Nat \ {0} /\ Entries = 0..(ValueBits - 1) /\ ByteBits * BlockBytes = 2 * ValueBits
    /\ HashCircuit.wires \in Nat /\ 3 * ValueBits <= HashCircuit.wires
    /\ InputOffset(HashCircuit, 1) = 2 * ValueBits /\ Total(HashCircuit.inputs) = 3 * ValueBits
    /\ OutputOffset(HashCircuit, 0) = HashCircuit.wires - ValueBits
    /\ Total(HashCircuit.outputs) = ValueBits
<1>1. ByteBits \in Nat \ {0} /\ MsgBytes \in Nat \ {0, 1}
  BY ValuesFormed
<1>2. ValueBits \in Nat \ {0}
  BY <1>1, Z3 DEF ValueBits
<1>3. ByteBits * BlockBytes = 2 * ValueBits
  BY <1>1, Z3 DEF ValueBits, BlockBytes
<1>4. 2 * ByteBits * MsgBytes = 2 * ValueBits /\ 3 * ByteBits * MsgBytes = 3 * ValueBits
  BY <1>1, Z3 DEF ValueBits
<1>5. /\ HashCircuit.inputs = <<2 * ValueBits, ValueBits>>
      /\ HashCircuit.outputs = <<ValueBits>>
      /\ HashCircuit.wires \in Nat /\ 3 * ValueBits <= HashCircuit.wires
  <2>1. HashCircuit.wires \in Nat
    BY HashCircuitFormed DEF Formed
  <2> QED BY <1>4, <2>1, ChainSizes, HashCircuitFormed DEF ValueBits
<1>6. Entries = 0..(ValueBits - 1)
  BY DEF Entries, ValueBits
<1> HIDE DEF ValueBits
<1>7. ASSUME NEW a, NEW b PROVE SubSeq(<<a, b>>, 1, 1) = <<a>> /\ SubSeq(<<a>>, 1, 0) = << >>
  <2>1. SubSeq(<<a>>, 1, 0) = << >>
    BY SubSeqEmpty
  <2>2. SubSeq(<<a, b>>, 1, 1) = <<a>>
    <3> DEFINE s == SubSeq(<<a, b>>, 1, 1)
    <3>1. s \in Seq({a, b}) /\ Len(s) = 1 /\ s[1] = a
      <4>1. <<a, b>> \in Seq({a, b}) /\ Len(<<a, b>>) = 2 /\ <<a, b>>[1] = a
        OBVIOUS
      <4>2. 1 \in 1..(Len(<<a, b>>) + 1) /\ 1 \in 0..Len(<<a, b>>)
        BY <4>1
      <4> QED BY <4>1, <4>2, SubSeqProperties
    <3> DEFINE u == <<a>>
    <3>2. u \in Seq({a, b}) /\ Len(u) = 1 /\ u[1] = a
      OBVIOUS
    <3> HIDE DEF s, u
    <3>3. s = u
      BY <3>1, <3>2, SeqEqual
    <3> QED BY <3>3 DEF s, u
  <2> QED BY <2>1, <2>2
<1>8. ASSUME NEW a \in Nat, NEW b \in Nat
      PROVE  Total(<<a, b>>) = a + b /\ Total(<<a>>) = a /\ Total(<< >>) = 0
  BY SmallTotals
<1> DEFINE N == 2 * ValueBits
<1>11. N \in Nat
  BY <1>2
<1>9. /\ InputOffset(HashCircuit, 1) = N /\ Total(HashCircuit.inputs) = N + ValueBits
  <2>1. SubSeq(HashCircuit.inputs, 1, 1) = <<N>> /\ HashCircuit.inputs = <<N, ValueBits>>
    BY <1>5, <1>7
  <2> HIDE DEF N
  <2>2. Total(<<N>>) = N /\ Total(<<N, ValueBits>>) = N + ValueBits
    BY <1>2, <1>8, <1>11
  <2> QED BY <2>1, <2>2 DEF InputOffset
<1>10. /\ OutputOffset(HashCircuit, 0) = HashCircuit.wires - ValueBits
       /\ Total(HashCircuit.outputs) = ValueBits
  <2>1. SubSeq(HashCircuit.outputs, 1, 0) = << >> /\ HashCircuit.outputs = <<ValueBits>>
    BY <1>5, <1>7
  <2>2. Total(<< >>) = 0 /\ Total(<<ValueBits>>) = ValueBits
    BY <1>2, <1>8
  <2>3. OutputOffset(HashCircuit, 0) = HashCircuit.wires - ValueBits + 0
    BY <2>1, <2>2 DEF OutputOffset
  <2>4. HashCircuit.wires - ValueBits + 0 = HashCircuit.wires - ValueBits
    BY <1>2, <1>5
  <2> QED BY <2>1, <2>2, <2>3, <2>4
<1> QED BY <1>2, <1>3, <1>5, <1>6, <1>9, <1>10

(* Wires and entries of a value of so many bytes correspond to each other. *)
LEMMA EntryWire ==
    ASSUME NEW n \in Nat, NEW w \in 0..(ByteBits * n - 1)
    PROVE  EntryOn(w, n) \in 0..(ByteBits * n - 1) /\ EntryOn(EntryOn(w, n), n) = w
<1> DEFINE b == ByteBits
           q == w \div b
           s == w % b
           e == b * (n - 1 - q) + s
<1>1. b \in Nat \ {0} /\ w \in Nat
  BY ValuesFormed
<1>2. q \in Nat /\ s \in 0..(b - 1) /\ w = b * q + s
  BY <1>1, Z3
<1>3. w < b * n
  <2>1. b * n \in Int
    BY <1>1
  <2> QED BY <2>1
<1> HIDE DEF b, q, s
<1>4. q < n
  <2>1. q >= n => b * q >= b * n
    BY <1>1, <1>2, Z3
  <2>2. b * q \in Int /\ b * n \in Int
    BY <1>1, <1>2
  <2> QED BY <1>2, <1>3, <2>1, <2>2
<1>5. e \in Nat /\ e <= b * (n - 1) + s
  BY <1>1, <1>2, <1>4, Z3
<1>6. e < b * n
  <2>1. b * (n - 1) + b = b * n
    BY <1>1, Z3
  <2>2. b * (n - 1) \in Int /\ b * n \in Int
    BY <1>1
  <2> QED BY <1>1, <1>2, <1>5, <2>1, <2>2
<1>7. e \div b = n - 1 - q /\ e % b = s
  <2>1. n - 1 - q \in Nat
    BY <1>2, <1>4
  <2> DEFINE d == n - 1 - q
  <2> HIDE DEF d
  <2>2. d \in Nat
    BY <2>1 DEF d
  <2>3. (b * d + s) \div b = d /\ (b * d + s) % b = s
    BY <1>1, <1>2, <2>2, Z3
  <2> QED BY <2>3 DEF d
<1>8. b * (n - 1 - (n - 1 - q)) + s = w
  BY <1>1, <1>2
<1>9. EntryOn(w, n) = e /\ EntryOn(e, n) = w
  BY <1>7, <1>8 DEF EntryOn, b, q, s
<1>10. e \in 0..(b * n - 1)
  BY <1>1, <1>5, <1>6
<1> QED BY <1>9, <1>10 DEF b

(* The digest is on the circuit's last wires.                              *)
LEMMA DigestWires ==
    \A m \in Entries : OutputOffset(HashCircuit, 0) + WireOf(m, MsgBytes) \in HashWires
<1> SUFFICES ASSUME NEW m \in Entries
             PROVE  OutputOffset(HashCircuit, 0) + WireOf(m, MsgBytes) \in HashWires
  OBVIOUS
<1>1. WireOf(m, MsgBytes) \in 0..(ValueBits - 1)
  <2>1. MsgBytes \in Nat /\ m \in 0..(ByteBits * MsgBytes - 1)
    BY ValuesFormed, HashOffsets DEF ValueBits
  <2> QED BY <2>1, EntryWire DEF WireOf, ValueBits
<1> QED BY <1>1, HashOffsets DEF HashWires, Wires

-----------------------------------------------------------------------------
(* The bits of a value: what BigEndian adds up, ClearBits takes apart.     *)

TopBit == 2 * ValueBits

(* Powers of two: positive, each the double of the one before.             *)
LEMMA Doubles ==
    /\ TopBit \in Nat \ {0} /\ 2^0 = 1
    /\ \A n \in 0..TopBit : 2^n \in Nat \ {0} /\ 2^(n + 1) = 2 * 2^n
<1>1. TopBit \in Nat \ {0}
  BY HashOffsets DEF TopBit
<1>2. 2^0 = 1 /\ \A n \in 0..TopBit : 2^(n + 1) = 2 * 2^n
  BY PowersOfTwo, HashOffsets DEF TopBit
<1> DEFINE S == {n \in 0..TopBit : 2^n \in Nat \ {0}}
<1>3. 0 \in S /\ \A n \in 0..(TopBit - 1) : n \in S => n + 1 \in S
  <2>1. 0 \in S
    BY <1>1, <1>2
  <2>2. ASSUME NEW n \in 0..(TopBit - 1), n \in S PROVE n + 1 \in S
    <3>1. n + 1 \in 0..TopBit /\ n \in 0..TopBit
      BY <1>1
    <3>2. 2^(n + 1) = 2 * 2^n /\ 2^n \in Nat \ {0}
      BY <1>2, <2>2, <3>1
    <3>3. 2^(n + 1) \in Nat \ {0}
      BY <3>2
    <3> QED BY <3>1, <3>3
  <2> QED BY <2>1, <2>2
<1>4. \A n \in 0..TopBit : n \in S
  <2> HIDE DEF S
  <2> QED BY <1>1, <1>3, UpTo
<1> QED BY <1>1, <1>2, <1>4

(* A higher power is a larger number.                                      *)
LEMMA DoublesGrow ==
    ASSUME NEW i \in 0..TopBit, NEW j \in 0..TopBit, i < j
    PROVE  2^i < 2^j
<1> DEFINE S == {n \in 0..TopBit : i < n => 2^i < 2^n}
<1>0. TopBit \in Nat /\ \A n \in 0..TopBit : 2^n \in Nat \ {0}
  BY Doubles
<1>1. 0 \in S /\ \A n \in 0..(TopBit - 1) : n \in S => n + 1 \in S
  <2>1. 0 \in S
    BY <1>0
  <2>2. ASSUME NEW n \in 0..(TopBit - 1), n \in S PROVE n + 1 \in S
    <3>1. n \in 0..TopBit /\ n + 1 \in 0..TopBit
      BY <1>0
    <3>2. 2^(n + 1) = 2 * 2^n /\ 2^n \in Nat \ {0} /\ 2^i \in Nat
      BY <3>1, Doubles
    <3>3. CASE i < n
      <4>1. 2^i < 2^n
        BY <2>2, <3>3
      <4> QED BY <3>1, <3>2, <4>1
    <3>4. CASE i = n
      <4>1. 2^i = 2^n
        BY <3>4
      <4> QED BY <3>1, <3>2, <4>1
    <3>5. CASE ~(i < n) /\ i # n
      BY <3>1, <3>5
    <3> QED BY <3>3, <3>4, <3>5
  <2> QED BY <2>1, <2>2
<1>2. \A n \in 0..TopBit : n \in S
  <2> HIDE DEF S
  <2> QED BY <1>0, <1>1, UpTo
<1> QED BY <1>2

(* Exponents add up.                                                       *)
LEMMA PowersAdd ==
    ASSUME NEW i \in Nat, NEW j \in Nat, i + j <= TopBit
    PROVE  2^(i + j) = 2^i * 2^j
<1> DEFINE S == {n \in Nat : i + n <= TopBit => 2^(i + n) = 2^i * 2^n}
<1>0. TopBit \in Nat /\ i \in 0..TopBit /\ 2^i \in Nat
  <2>1. TopBit \in Nat /\ i \in 0..TopBit
    BY Doubles
  <2> QED BY <2>1, Doubles
<1>1. 0 \in S
  <2>1. 2^0 = 1 /\ i + 0 = i /\ 2^i * 1 = 2^i
    BY <1>0, Doubles
  <2> QED BY <2>1
<1>2. ASSUME NEW n \in 0..(j - 1), n \in S PROVE n + 1 \in S
  <2>0. n + 1 \in Nat
    OBVIOUS
  <2>1. ASSUME i + (n + 1) <= TopBit PROVE 2^(i + (n + 1)) = 2^i * 2^(n + 1)
    <3>1. n \in 0..TopBit /\ i + n \in 0..TopBit /\ i + (n + 1) = (i + n) + 1
      BY <1>0, <2>1
    <3>2. /\ 2^((i + n) + 1) = 2 * 2^(i + n) /\ 2^(i + n) = 2^i * 2^n
          /\ 2^(n + 1) = 2 * 2^n /\ 2^n \in Nat
      BY <1>2, <3>1, Doubles
    <3> DEFINE a == 2^i
               b == 2^n
               c == 2^(n + 1)
               d == 2^(i + n)
               e == 2^((i + n) + 1)
    <3>3. e = 2 * d /\ d = a * b /\ c = 2 * b /\ a \in Nat /\ b \in Nat
      BY <1>0, <3>2
    <3> HIDE DEF a, b, c, d, e
    <3>4. e = a * c
      BY <3>3, Z3
    <3> QED BY <3>1, <3>4 DEF a, c, e
  <2> QED BY <2>0, <2>1
<1>3. \A n \in 0..j : n \in S
  <2> HIDE DEF S
  <2> QED BY <1>1, <1>2, UpTo
<1> QED BY <1>3

(* The number whose bits below bit k are those in S.                       *)
Binary(S, k) == SumSet({2^e : e \in {s \in S : s < k}})

(* It grows bit by bit.                                                    *)
LEMMA BinaryNext ==
    ASSUME NEW S \in SUBSET Nat
    PROVE  /\ Binary(S, 0) = 0
           /\ \A k \in 0..TopBit :
                /\ Binary(S, k) \in Nat
                /\ Binary(S, k + 1) = Binary(S, k) + (IF k \in S THEN 2^k ELSE 0)
<1> DEFINE P(k) == {2^e : e \in {s \in S : s < k}}
<1>0. TopBit \in Nat /\ \A n \in 0..TopBit : 2^n \in Nat
  BY Doubles
<1>1. Binary(S, 0) = 0
  <2>0. \A s \in S : ~(s < 0)
    <3>1. \A s \in S : s \in Nat
      OBVIOUS
    <3>2. \A s \in Nat : ~(s < 0)
      OBVIOUS
    <3> QED BY <3>1, <3>2
  <2>1. {s \in S : s < 0} = {}
    BY <2>0, Zenon
  <2>2. P(0) = {}
    BY <2>1
  <2> QED BY <2>2, SumNone DEF Binary
<1>2. ASSUME NEW k \in 0..TopBit
      PROVE  /\ Binary(S, k) \in Nat
             /\ Binary(S, k + 1) = Binary(S, k) + (IF k \in S THEN 2^k ELSE 0)
  <2>1. 2^k \in Nat /\ \A e \in {s \in S : s < k} : 2^e \in Nat /\ 2^e < 2^k
    <3>1. \A e \in {s \in S : s < k} : e \in 0..TopBit /\ e < k
      BY <1>0
    <3> QED BY <1>0, <3>1, DoublesGrow
  <2>2. P(k) \in SUBSET Nat /\ (\A a \in P(k) : a <= 2^k) /\ 2^k \notin P(k)
    BY <2>1
  <2>3. P(k + 1) = IF k \in S THEN P(k) \cup {2^k} ELSE P(k)
    <3>1. \A s \in S : s < k + 1 <=> s < k \/ s = k
      BY <1>0
    <3>2. {s \in S : s < k + 1} = IF k \in S THEN {s \in S : s < k} \cup {k} ELSE {s \in S : s < k}
      BY <3>1
    <3> QED BY <3>2
  <2>4. Binary(S, k) = SumSet(P(k)) /\ Binary(S, k + 1) = SumSet(P(k + 1))
    BY DEF Binary
  <2> HIDE DEF P
  <2>5. IsFiniteSet(P(k))
    BY <2>1, <2>2, FS_BoundedSetOfNaturals
  <2>6. SumSet(P(k) \cup {2^k}) = SumSet(P(k)) + 2^k /\ SumSet(P(k)) \in Nat
    BY <2>1, <2>2, <2>5, SumAdds
  <2> QED BY <2>3, <2>4, <2>6
<1> QED BY <1>1, <1>2

(* It is less than the next power.                                         *)
LEMMA BinaryBound ==
    ASSUME NEW S \in SUBSET Nat
    PROVE  \A k \in 0..TopBit : Binary(S, k) < 2^k
<1> DEFINE G == {k \in 0..TopBit : Binary(S, k) < 2^k}
<1>0. TopBit \in Nat
  BY Doubles
<1>1. 0 \in G
  BY <1>0, BinaryNext, Doubles
<1>2. ASSUME NEW k \in 0..(TopBit - 1), k \in G PROVE k + 1 \in G
  <2>1. k \in 0..TopBit /\ k + 1 \in 0..TopBit
    BY <1>0
  <2>2. /\ Binary(S, k) \in Nat /\ Binary(S, k) < 2^k
        /\ Binary(S, k + 1) = Binary(S, k) + (IF k \in S THEN 2^k ELSE 0)
    BY <1>2, <2>1, BinaryNext
  <2>3. 2^k \in Nat /\ 2^(k + 1) = 2 * 2^k
    BY <2>1, Doubles
  <2>4. Binary(S, k + 1) < 2^(k + 1)
    BY <2>2, <2>3
  <2> QED BY <2>1, <2>4
<1> HIDE DEF G
<1>3. \A k \in 0..TopBit : k \in G
  BY <1>0, <1>1, <1>2, UpTo
<1> QED BY <1>3 DEF G

(* The bits above bit w make up a multiple of the next power.              *)
LEMMA BinaryHigh ==
    ASSUME NEW S \in SUBSET Nat, NEW w \in 0..(TopBit - 1)
    PROVE  \A k \in (w + 1)..TopBit : \E c \in Nat : Binary(S, k) = Binary(S, w + 1) + c * 2^(w + 1)
<1> DEFINE N == TopBit - (w + 1)
           Fine(k) == \E c \in Nat : Binary(S, k) = Binary(S, w + 1) + c * 2^(w + 1)
           G == {n \in 0..N : Fine(w + 1 + n)}
<1>0. TopBit \in Nat /\ N \in Nat /\ 2^(w + 1) \in Nat
  <2>1. TopBit \in Nat /\ N \in Nat /\ w + 1 \in 0..TopBit
    BY Doubles
  <2> QED BY <2>1, Doubles
<1>1. 0 \in G
  <2>1. Fine(w + 1)
    <3>1. Binary(S, w + 1) = Binary(S, w + 1) + 0 * 2^(w + 1)
      <4>1. Binary(S, w + 1) \in Nat
        <5>1. w + 1 \in 0..TopBit
          BY <1>0
        <5> QED BY <5>1, BinaryNext
      <4> QED BY <1>0, <4>1
    <3> QED BY <3>1
  <2>3. w + 1 + 0 = w + 1 /\ 0 \in 0..N
    BY <1>0
  <2> HIDE DEF Fine, N
  <2> QED BY <2>1, <2>3
<1>2. ASSUME NEW n \in 0..(N - 1), n \in G PROVE n + 1 \in G
  <2> DEFINE k == w + 1 + n
             b == 2^(w + 1)
  <2>1. k \in 0..TopBit /\ k + 1 \in 0..TopBit /\ k + 1 = w + 1 + (n + 1) /\ n + 1 \in 0..N
    BY <1>0
  <2> HIDE DEF k, N
  <2>2. Fine(k)
    BY <1>2 DEF k
  <2>3. PICK c \in Nat : Binary(S, k) = Binary(S, w + 1) + c * b
    BY <2>2
  <2>4. PICK d \in Nat : 2^k = d * b
    <3>1. n \in Nat /\ w + 1 \in Nat /\ n + (w + 1) = k /\ n + (w + 1) <= TopBit /\ n \in 0..TopBit
      BY <1>0, <2>1 DEF k
    <3>2. 2^(n + (w + 1)) = 2^n * 2^(w + 1)
      BY <3>1, PowersAdd
    <3>3. 2^n \in Nat
      BY <3>1, Doubles
    <3> QED BY <3>1, <3>2, <3>3
  <2>5. Binary(S, k + 1) = Binary(S, k) + (IF k \in S THEN 2^k ELSE 0)
    BY <2>1, BinaryNext
  <2>6. Binary(S, w + 1) \in Nat /\ b \in Nat
    <3>1. w + 1 \in 0..TopBit
      BY <1>0
    <3> QED BY <1>0, <3>1, BinaryNext
  <2> HIDE DEF b
  <2>8. Fine(k + 1)
    <3>1. CASE k \in S
      <4>1. Binary(S, k + 1) = Binary(S, w + 1) + (c + d) * b
        <5>1. (c + d) * b = c * b + d * b /\ c * b \in Nat /\ d * b \in Nat
          BY <2>6, Z3
        <5> QED BY <2>3, <2>4, <2>5, <2>6, <3>1, <5>1
      <4> QED BY <4>1 DEF b
    <3>2. CASE k \notin S
      <4>1. Binary(S, k + 1) = Binary(S, w + 1) + c * b
        <5>1. c * b \in Nat
          BY <2>6
        <5> QED BY <2>3, <2>5, <2>6, <3>2, <5>1
      <4> QED BY <4>1 DEF b
    <3> QED BY <3>1, <3>2
  <2> HIDE DEF Fine
  <2> QED BY <2>1, <2>8
<1>3. \A n \in 0..N : n \in G
  <2> HIDE DEF G
  <2> QED BY <1>0, <1>1, <1>2, UpTo
<1>4. ASSUME NEW k \in (w + 1)..TopBit PROVE Fine(k)
  <2>1. k - (w + 1) \in 0..N /\ w + 1 + (k - (w + 1)) = k
    BY <1>0
  <2> HIDE DEF Fine, N
  <2>2. Fine(w + 1 + (k - (w + 1)))
    BY <1>3, <2>1
  <2> QED BY <2>1, <2>2
<1> QED BY <1>4

(* So each bit can be read off the number.                                 *)
LEMMA BinaryBit ==
    ASSUME NEW N \in 1..TopBit, NEW S \in SUBSET (0..(N - 1)), NEW w \in 0..(N - 1)
    PROVE  (SumSet({2^e : e \in S}) \div 2^w) % 2 = 1 <=> w \in S
<1>0. TopBit \in Nat /\ w \in 0..(TopBit - 1) /\ w \in 0..TopBit /\ w + 1 \in 0..TopBit
      /\ N \in (w + 1)..TopBit /\ S \in SUBSET Nat
  BY Doubles
<1>1. SumSet({2^e : e \in S}) = Binary(S, N)
  <2>0. \A s \in S : s < N
    <3>1. \A s \in S : s \in 0..(N - 1)
      OBVIOUS
    <3>2. \A s \in 0..(N - 1) : s < N
      BY <1>0
    <3> QED BY <3>1, <3>2
  <2>1. {s \in S : s < N} = S
    BY <2>0
  <2> QED BY <2>1 DEF Binary
<1>2. PICK c \in Nat : Binary(S, N) = Binary(S, w + 1) + c * 2^(w + 1)
  BY <1>0, BinaryHigh
<1> DEFINE b == 2^w
           a == Binary(S, w)
           d == IF w \in S THEN 1 ELSE 0
<1>3. b \in Nat \ {0} /\ 2^(w + 1) = 2 * b /\ a \in Nat /\ a < b
      /\ Binary(S, w + 1) = a + (IF w \in S THEN b ELSE 0)
  BY <1>0, Doubles, BinaryNext, BinaryBound
<1>4. Binary(S, N) = a + (d + 2 * c) * b
  <2> HIDE DEF a, b
  <2>1. (d + 2 * c) * b = d * b + c * (2 * b) /\ d * b = (IF w \in S THEN b ELSE 0)
    BY <1>3, Z3
  <2> QED BY <1>2, <1>3, <2>1
<1> DEFINE e == d + 2 * c
<1>5. e \in Nat /\ e % 2 = d
  OBVIOUS
<1> HIDE DEF a, b, e, d
<1>6. (a + e * b) \div b = e
  BY <1>3, <1>5, Z3
<1>7. (SumSet({2^s : s \in S}) \div b) % 2 = d
  BY <1>1, <1>4, <1>5, <1>6 DEF e
<1> QED BY <1>7 DEF b, d

(* A value's bits on the wires of an input.                                *)
LEMMA ClearBitsAre ==
    ASSUME NEW n \in {MsgBytes, BlockBytes}, NEW v \in SUBSET (0..(ByteBits * n - 1))
    PROVE  /\ ClearBits(v, n) \in Seq({{}, {0}}) /\ Len(ClearBits(v, n)) = ByteBits * n
           /\ \A w \in 0..(ByteBits * n - 1) :
                ClearBits(v, n)[w + 1] = IF EntryOn(w, n) \in v THEN {0} ELSE {}
<1> DEFINE N == ByteBits * n
           S == {EntryOn(m, n) : m \in v}
<1>0. n \in Nat /\ N \in 1..TopBit
  BY ValuesFormed, HashOffsets DEF TopBit, ValueBits, BlockBytes
<1>1. \A w \in 0..(N - 1) : EntryOn(w, n) \in 0..(N - 1) /\ EntryOn(EntryOn(w, n), n) = w
  BY <1>0, EntryWire
<1> HIDE DEF N
<1>2. S \in SUBSET (0..(N - 1)) /\ \A w \in 0..(N - 1) : w \in S <=> EntryOn(w, n) \in v
  <2>1. v \in SUBSET (0..(N - 1))
    BY DEF N
  <2> QED BY <1>1, <2>1
<1>3. BigEndian(v, n) = SumSet({2^e : e \in S})
  <2>1. {2^((ByteBits * (n - 1 - (m \div ByteBits))) + (m % ByteBits)) : m \in v} = {2^e : e \in S}
    BY DEF EntryOn
  <2> QED BY <2>1 DEF BigEndian
<1> HIDE DEF S
<1>4. ASSUME NEW w \in 0..(N - 1)
      PROVE  (BigEndian(v, n) \div 2^w) % 2 = 1 <=> EntryOn(w, n) \in v
  BY <1>0, <1>2, <1>3, BinaryBit
<1>5. ClearBits(v, n) = [j \in 1..N |-> IF (BigEndian(v, n) \div 2^(j - 1)) % 2 = 1 THEN {0} ELSE {}]
  BY DEF ClearBits, N
<1>6. ClearBits(v, n) \in Seq({{}, {0}}) /\ Len(ClearBits(v, n)) = N
  <2>1. ClearBits(v, n) \in [1..N -> {{}, {0}}]
    BY <1>5
  <2> QED BY <1>0, <2>1
<1>7. ASSUME NEW w \in 0..(N - 1)
      PROVE  ClearBits(v, n)[w + 1] = IF EntryOn(w, n) \in v THEN {0} ELSE {}
  <2>1. w + 1 \in 1..N /\ (w + 1) - 1 = w
    BY <1>0
  <2>2. ClearBits(v, n)[w + 1] = IF (BigEndian(v, n) \div 2^((w + 1) - 1)) % 2 = 1 THEN {0} ELSE {}
    BY <1>5, <2>1
  <2> QED BY <1>4, <2>1, <2>2
<1> QED BY <1>6, <1>7 DEF N

-----------------------------------------------------------------------------
(* The hash in the clear. *)

(* Two sequences put together.                                             *)
LEMMA FlattenTwo ==
    ASSUME NEW a, NEW b
    PROVE  FlattenSeq(<<a, b>>) = a \o b
<1> DEFINE seqs == <<a, b>>
           F == CHOOSE f : f = [i \in 1..Len(seqs) |-> IF i = 1 THEN seqs[i] ELSE f[i - 1] \o seqs[i]]
           g == [i \in 1..2 |-> IF i = 1 THEN a ELSE a \o b]
<1>1. Len(seqs) = 2 /\ seqs[1] = a /\ seqs[2] = b
  OBVIOUS
<1>2. FlattenSeq(seqs) = IF Len(seqs) = 0 THEN seqs ELSE F[Len(seqs)]
  BY DEF FlattenSeq
<1> HIDE DEF seqs
<1>3. g = [i \in 1..2 |-> IF i = 1 THEN seqs[i] ELSE g[i - 1] \o seqs[i]]
  <2>1. ASSUME NEW i \in 1..2 PROVE g[i] = IF i = 1 THEN seqs[i] ELSE g[i - 1] \o seqs[i]
    <3>1. CASE i = 1
      BY <1>1, <3>1
    <3>2. CASE i # 1
      <4>1. i = 2 /\ i - 1 = 1 /\ 1 \in 1..2
        BY <3>2
      <4> QED BY <1>1, <4>1
    <3> QED BY <3>1, <3>2
  <2>2. g = [i \in 1..2 |-> g[i]]
    OBVIOUS
  <2> HIDE DEF g
  <2> QED BY <2>1, <2>2, Zenon
<1>4. F = [i \in 1..Len(seqs) |-> IF i = 1 THEN seqs[i] ELSE F[i - 1] \o seqs[i]]
  <2>1. g = [i \in 1..Len(seqs) |-> IF i = 1 THEN seqs[i] ELSE g[i - 1] \o seqs[i]]
    <3> HIDE DEF g
    <3> QED BY <1>1, <1>3
  <2> HIDE DEF g
  <2> QED BY <2>1, Zenon
<1> HIDE DEF F
<1>5. F[1] = a /\ F[2] = F[1] \o b
  <2>1. 1 \in 1..Len(seqs) /\ 2 \in 1..Len(seqs) /\ 2 # 1 /\ 2 - 1 = 1
    BY <1>1
  <2>2. F[1] = seqs[1] /\ F[2] = F[1] \o seqs[2]
    BY <1>4, <2>1
  <2> QED BY <1>1, <2>2
<1>6. FlattenSeq(seqs) = a \o b
  BY <1>1, <1>2, <1>5
<1> QED BY <1>6 DEF seqs

(* Padding goes past the message, on the block's first wires.              *)
LEMMA PaddingPlace == Padding \in SUBSET (0..(ByteBits * BlockBytes - 1)) /\ Padding \cap Entries = {}
<1>1. ByteBits \in Nat \ {0} /\ MsgBytes \in Nat /\ MsgBytes >= 2
  BY ValuesFormed
<1> DEFINE b == ByteBits
           V == ValueBits
<1>2. V \in Nat /\ 2 * b <= V /\ ByteBits * (BlockBytes - 2) = 2 * V - 2 * b
  <2>1. b * MsgBytes >= b * 2
    BY <1>1, Z3
  <2>2. b * (2 * MsgBytes - 2) = 2 * (b * MsgBytes) - 2 * b
    BY <1>1, Z3
  <2>3. b * MsgBytes \in Nat
    BY <1>1
  <2> QED BY <1>1, <2>1, <2>2, <2>3 DEF ValueBits, BlockBytes
<1>3. Padding = {V + b - 1, 2 * V - 2 * b}
  BY <1>2 DEF Padding, ValueBits
<1>4. ByteBits * BlockBytes = 2 * V /\ Entries = 0..(V - 1)
  BY HashOffsets
<1> HIDE DEF V
<1> QED BY <1>1, <1>2, <1>3, <1>4

(* The wires of a hash of v in the clear.                                  *)
HashTable(v) ==
    ClearTable(HashCircuit, <<ClearBits(v \cup Padding, BlockBytes), ClearBits(IV, MsgBytes)>>, {0})

(* What a hash starts from, on the wires that no gate writes.              *)
LEMMA HashTableIs ==
    ASSUME NEW v \in SUBSET Entries
    PROVE  /\ IsTable(HashTable(v), HashCircuit) /\ HashTable(v) \in [HashWires -> {{}, {0}}]
           /\ \A w \in HashWires :
                (\A i \in DOMAIN HashCircuit.gates : HashCircuit.gates[i].out # w) =>
                    HashTable(v)[w] = IF w < 2 * ValueBits
                                        THEN IF EntryOn(w, BlockBytes) \in v \cup Padding THEN {0} ELSE {}
                                        ELSE IF w < 3 * ValueBits /\ EntryOn(w - 2 * ValueBits, MsgBytes) \in IV
                                               THEN {0} ELSE {}
<1> DEFINE V == ValueBits
           a == ClearBits(v \cup Padding, BlockBytes)
           b == ClearBits(IV, MsgBytes)
           T == {{}, {0}}
           in == <<a, b>>
           s == a \o b
<1>1. V \in Nat \ {0} /\ ByteBits * BlockBytes = 2 * V /\ ByteBits * MsgBytes = V
      /\ Entries = 0..(V - 1)
  BY HashOffsets DEF ValueBits
<1>2. /\ a \in Seq(T) /\ Len(a) = 2 * V
      /\ \A w \in 0..(2 * V - 1) : a[w + 1] = IF EntryOn(w, BlockBytes) \in v \cup Padding THEN {0} ELSE {}
  <2>1. v \cup Padding \in SUBSET (0..(ByteBits * BlockBytes - 1))
    <3>1. Entries \in SUBSET (0..(ByteBits * BlockBytes - 1))
      BY <1>1
    <3> QED BY <3>1, PaddingPlace
  <2> QED BY <1>1, <2>1, ClearBitsAre
<1>3. /\ b \in Seq(T) /\ Len(b) = V
      /\ \A w \in 0..(V - 1) : b[w + 1] = IF EntryOn(w, MsgBytes) \in IV THEN {0} ELSE {}
  <2>1. IV \in SUBSET (0..(ByteBits * MsgBytes - 1))
    BY <1>1, ValuesFormed
  <2> QED BY <1>1, <2>1, ClearBitsAre
<1> HIDE DEF a, b, T, V
<1>4. s \in Seq(T) /\ Len(s) = 3 * V /\ \A i \in 1..(3 * V) : s[i] = IF i <= 2 * V THEN a[i] ELSE b[i - 2 * V]
  <2>1. /\ s \in Seq(T) /\ Len(s) = Len(a) + Len(b)
        /\ \A i \in 1..(Len(a) + Len(b)) : s[i] = IF i <= Len(a) THEN a[i] ELSE b[i - Len(a)]
    BY <1>2, <1>3, ConcatProperties, Zenon
  <2>2. Len(a) = 2 * V /\ Len(b) = V /\ 2 * V + V = 3 * V
    BY <1>1, <1>2, <1>3
  <2> HIDE DEF s
  <2> QED BY <2>1, <2>2
<1>5. FlattenSeq(in) = s
  BY FlattenTwo
<1> HIDE DEF in, s
<1>6. /\ IsTable(ClearTable(HashCircuit, in, {0}), HashCircuit)
      /\ ClearTable(HashCircuit, in, {0}) \in [HashWires -> T]
      /\ \A w \in HashWires : (\A i \in 1..GateCount : HashCircuit.gates[i].out # w) =>
            ClearTable(HashCircuit, in, {0})[w] = IF w < Len(s) THEN s[w + 1] ELSE {}
  <2>1. FlattenSeq(in) \in Seq({{}, {0}})
    BY <1>4, <1>5 DEF T
  <2> QED BY <1>5, <2>1, CircuitFacts, ClearTableIs DEF T, HashWires
<1>7. HashTable(v) = ClearTable(HashCircuit, in, {0})
  BY DEF HashTable, in, a, b
<1>8. ASSUME NEW w \in HashWires
      PROVE  (IF w < Len(s) THEN s[w + 1] ELSE {}) =
                IF w < 2 * V THEN IF EntryOn(w, BlockBytes) \in v \cup Padding THEN {0} ELSE {}
                ELSE IF w < 3 * V /\ EntryOn(w - 2 * V, MsgBytes) \in IV THEN {0} ELSE {}
  <2>1. w \in Nat
    BY HashOffsets DEF HashWires, Wires
  <2>2. CASE w < 2 * V
    <3>1. w \in 0..(2 * V - 1) /\ w < Len(s) /\ w + 1 \in 1..(3 * V) /\ w + 1 <= 2 * V
      BY <1>1, <1>4, <2>1, <2>2
    <3>2. s[w + 1] = a[w + 1]
      BY <1>4, <3>1
    <3> QED BY <1>2, <2>2, <3>1, <3>2
  <2>3. CASE ~(w < 2 * V) /\ w < 3 * V
    <3>1. /\ w - 2 * V \in 0..(V - 1) /\ w < Len(s) /\ w + 1 \in 1..(3 * V) /\ ~(w + 1 <= 2 * V)
          /\ (w + 1) - 2 * V = (w - 2 * V) + 1
      BY <1>1, <1>4, <2>1, <2>3
    <3>2. s[w + 1] = b[(w - 2 * V) + 1]
      BY <1>4, <3>1
    <3>3. b[(w - 2 * V) + 1] = IF EntryOn(w - 2 * V, MsgBytes) \in IV THEN {0} ELSE {}
      BY <1>3, <3>1
    <3> QED BY <2>3, <3>1, <3>2, <3>3
  <2>4. CASE ~(w < 2 * V) /\ ~(w < 3 * V)
    BY <1>4, <2>4
  <2> QED BY <2>2, <2>3, <2>4
<1>9. DOMAIN HashCircuit.gates = 1..GateCount
  BY CircuitFacts
<1> QED BY <1>6, <1>7, <1>8, <1>9 DEF T, V

(* The hash is what the table has on the circuit's last wires.             *)
LEMMA ClearHashIs ==
    ASSUME NEW v \in SUBSET Entries
    PROVE  /\ ClearHash(v) \in SUBSET Entries
           /\ \A m \in Entries : m \in ClearHash(v) <=>
                    0 \in HashTable(v)[OutputOffset(HashCircuit, 0) + WireOf(m, MsgBytes)]
<1> DEFINE V == ValueBits
           O == OutputOffset(HashCircuit, 0)
           end == HashTable(v)
           digest == EvalClear(HashCircuit,
                            <<ClearBits(v \cup Padding, BlockBytes), ClearBits(IV, MsgBytes)>>, {0})
           r == {m \in Entries : 0 \in end[O + WireOf(m, MsgBytes)]}
<1>1. V \in Nat \ {0} /\ Entries = 0..(V - 1) /\ V = ByteBits * MsgBytes /\ MsgBytes \in Nat
      /\ Total(HashCircuit.outputs) = V /\ O \in Nat
      /\ \A w \in 0..(V - 1) : O + w \in HashWires
  <2>1. V \in Nat \ {0} /\ Entries = 0..(V - 1) /\ V = ByteBits * MsgBytes /\ MsgBytes \in Nat
        /\ Total(HashCircuit.outputs) = V
    BY HashOffsets, ValuesFormed DEF ValueBits
  <2>2. /\ HashCircuit.wires \in Nat /\ 3 * V <= HashCircuit.wires /\ O = HashCircuit.wires - V
    BY HashOffsets
  <2> HIDE DEF V, O
  <2> DEFINE n == HashCircuit.wires
  <2>4. n \in Nat /\ 3 * V <= n /\ O = n - V /\ V \in Nat
    BY <2>1, <2>2
  <2> HIDE DEF n
  <2>5. O \in Nat
    BY <2>4
  <2>6. \A w \in 0..(V - 1) : O + w \in 0..(n - 1)
    BY <2>4, <2>5
  <2>3. O \in Nat /\ \A w \in 0..(V - 1) : O + w \in 0..(HashCircuit.wires - 1)
    BY <2>5, <2>6 DEF n
  <2> QED BY <2>1, <2>3 DEF HashWires, Wires
<1>2. digest = [i \in 1..V |-> end[O + i - 1]]
  BY <1>1 DEF EvalClear, HashTable
<1>3. end \in [HashWires -> {{}, {0}}]
  BY HashTableIs
<1> HIDE DEF end, digest, V, O
<1>4. \A m \in Entries : /\ WireOf(m, MsgBytes) \in Entries /\ EntryOn(m, MsgBytes) = WireOf(m, MsgBytes)
                         /\ WireOf(WireOf(m, MsgBytes), MsgBytes) = m
  BY <1>1, EntryWire DEF WireOf
<1>5. ASSUME NEW u \in SUBSET Entries
      PROVE  /\ ClearBits(u, MsgBytes) \in Seq({{}, {0}}) /\ Len(ClearBits(u, MsgBytes)) = V
             /\ \A w \in Entries :
                    ClearBits(u, MsgBytes)[w + 1] = IF WireOf(w, MsgBytes) \in u THEN {0} ELSE {}
  <2>1. u \in SUBSET (0..(ByteBits * MsgBytes - 1))
    BY <1>1
  <2> QED BY <1>1, <2>1, ClearBitsAre DEF WireOf
<1>6. \A w \in Entries : digest[w + 1] = end[O + w] /\ end[O + w] \in {{}, {0}}
  <2> SUFFICES ASSUME NEW w \in Entries PROVE digest[w + 1] = end[O + w] /\ end[O + w] \in {{}, {0}}
    OBVIOUS
  <2>1. w + 1 \in 1..V /\ O + (w + 1) - 1 = O + w
    BY <1>1
  <2> QED BY <1>1, <1>2, <1>3, <2>1
<1>7. digest \in Seq({{}, {0}}) /\ Len(digest) = V
  <2>1. \A i \in 1..V : i - 1 \in Entries /\ (i - 1) + 1 = i
    BY <1>1
  <2>2. \A i \in 1..V : digest[i] \in {{}, {0}}
    BY <1>6, <2>1
  <2>3. digest \in [1..V -> {{}, {0}}]
    BY <1>2, <2>2
  <2> QED BY <1>1, <2>3
<1>8. r \in SUBSET Entries /\ ClearBits(r, MsgBytes) = digest
  <2> DEFINE c == ClearBits(r, MsgBytes)
  <2>1. ASSUME NEW i \in 1..V PROVE c[i] = digest[i]
    <3> DEFINE w == i - 1
    <3>1. w \in Entries /\ w + 1 = i
      BY <1>1
    <3> HIDE DEF w
    <3>2. c[w + 1] = IF WireOf(w, MsgBytes) \in r THEN {0} ELSE {}
      BY <1>5, <3>1
    <3>3. WireOf(w, MsgBytes) \in r <=> 0 \in end[O + w]
      BY <1>4, <3>1
    <3>4. digest[w + 1] = end[O + w] /\ end[O + w] \in {{}, {0}}
      BY <1>6, <3>1
    <3> QED BY <3>1, <3>2, <3>3, <3>4
  <2>2. r \in SUBSET Entries
    OBVIOUS
  <2>3. c \in Seq({{}, {0}}) /\ Len(c) = V
    BY <1>5, <2>2
  <2> HIDE DEF c
  <2>4. c = digest
    BY <1>7, <2>1, <2>3, SeqEqual
  <2> QED BY <2>4 DEF c
<1>9. ClearHash(v) = CHOOSE w \in SUBSET Entries : ClearBits(w, MsgBytes) = digest
  BY DEF ClearHash, digest
<1> DEFINE h == ClearHash(v)
<1>10. h \in SUBSET Entries /\ ClearBits(h, MsgBytes) = digest
  <2> HIDE DEF r
  <2> QED BY <1>8, <1>9
<1> HIDE DEF h, r
<1>11. ASSUME NEW m \in Entries PROVE m \in h <=> 0 \in end[O + WireOf(m, MsgBytes)]
  <2> DEFINE w == WireOf(m, MsgBytes)
  <2>1. w \in Entries /\ WireOf(w, MsgBytes) = m
    BY <1>4
  <2> HIDE DEF w
  <2>2. ClearBits(h, MsgBytes)[w + 1] = IF m \in h THEN {0} ELSE {}
    BY <1>5, <1>10, <2>1
  <2>3. digest[w + 1] = end[O + w]
    BY <1>6, <2>1
  <2> QED BY <1>10, <2>2, <2>3 DEF w
<1> QED BY <1>10, <1>11 DEF h, end, O

-----------------------------------------------------------------------------
(* Rounds: their numbers tell the hash and the phase, and go up by one.    *)

(* A hash has rounds, and the block takes one hash per bit of an index.    *)
LEMMA SizeFacts ==
    /\ Depth \in Nat \ {0} /\ Hashes \in Nat \ {0} /\ Width \in Nat /\ H \in Nat
    /\ Hashes = Width
<1>1. Width \in Nat /\ H \in 1..Width
  BY ChainSizes
<1>2. Depth \in Nat \ {0}
  BY CircuitFacts DEF Depth
<1> QED BY <1>1, <1>2 DEF Hashes, Edges

(* A round's number tells the hash and the phase.                          *)
LEMMA RoundParts ==
    ASSUME NEW h \in Nat \ {0}, NEW f \in 0..(Depth - 1)
    PROVE  Round(h, f) \in Nat /\ HashIn(Round(h, f)) = h /\ PhaseIn(Round(h, f)) = f
<1> DEFINE k == h - 1
           n == k * Depth + f
<1>1. k \in Nat /\ Depth \in Nat \ {0} /\ f \in Nat /\ f < Depth
  BY SizeFacts
<1> HIDE DEF k
<1>2. n \in Nat
  BY <1>1
<1>3. n \div Depth = k /\ n % Depth = f
  BY <1>1, Z3
<1> QED BY <1>2, <1>3 DEF Round, HashIn, PhaseIn, k

(* Rounds follow each other within a hash and from hash to hash.           *)
LEMMA RoundNext ==
    ASSUME NEW h \in Nat \ {0}, NEW f \in 0..(Depth - 1)
    PROVE  /\ f + 1 < Depth => Round(h, f + 1) = Round(h, f) + 1
           /\ f + 1 = Depth => Round(h + 1, 0) = Round(h, f) + 1
<1>1. h \in Int /\ Depth \in Int /\ f \in Int
  BY SizeFacts
<1>2. (h - 1) * Depth \in Int
  BY <1>1
<1>3. ((h + 1) - 1) * Depth = (h - 1) * Depth + Depth
  BY <1>1, Z3
<1> QED BY <1>1, <1>2, <1>3 DEF Round

-----------------------------------------------------------------------------
(* The undisturbed course exists, for every number of rounds.              *)

(* The undisturbed course exists: it is extended round by round.           *)
LEMMA CourseExists ==
    ASSUME NEW N \in Nat
    PROVE  \E c : Course(c, N)
<1> DEFINE Good(n) == \E c : Course(c, n)
           Bad == {n \in Nat : ~Good(n)}
<1>1. Good(0)
  <2> DEFINE c == [n \in {0} |-> Start]
  <2>1. c[0] = Start
    OBVIOUS
  <2>2. 0..(0 - 1) = {}
    OBVIOUS
  <2> HIDE DEF c
  <2> QED BY <2>1, <2>2 DEF Course
<1>2. ASSUME NEW n \in Nat, Good(n) PROVE Good(n + 1)
  <2>1. PICK c : Course(c, n)
    BY <1>2
  <2> DEFINE d == [k \in 0..(n + 1) |->
                     IF k = n + 1 THEN Together(c[n], HashIn(n), PhaseIn(n)) ELSE c[k]]
  <2>2. \A k \in 0..n : d[k] = c[k]
    OBVIOUS
  <2>3. d[n + 1] = Together(c[n], HashIn(n), PhaseIn(n))
    OBVIOUS
  <2> HIDE DEF d
  <2>4. ASSUME NEW k \in 0..((n + 1) - 1) PROVE d[k + 1] = Together(d[k], HashIn(k), PhaseIn(k))
    <3>1. CASE k = n
      BY <2>2, <2>3, <3>1
    <3>2. CASE k # n
      <4>1. k \in 0..(n - 1) /\ k \in 0..n /\ k + 1 \in 0..n
        BY <3>2
      <4>2. c[k + 1] = Together(c[k], HashIn(k), PhaseIn(k))
        BY <2>1, <4>1 DEF Course
      <4> QED BY <2>2, <4>1, <4>2
    <3> QED BY <3>1, <3>2
  <2>5. d[0] = Start
    BY <2>1, <2>2 DEF Course
  <2> QED BY <2>4, <2>5 DEF Course
<1>3. Bad = {}
  <2> SUFFICES ASSUME Bad # {} PROVE FALSE
    OBVIOUS
  <2>1. PICK k \in Bad : \A j \in Bad : k <= j
    <3>1. Bad \in SUBSET Nat
      OBVIOUS
    <3> HIDE DEF Bad
    <3> QED BY <3>1, LeastNumber
  <2> HIDE DEF Good
  <2>2. k \in Nat /\ ~Good(k) /\ k # 0
    BY <1>1, <2>1
  <2>3. k - 1 \in Nat /\ k - 1 \notin Bad /\ (k - 1) + 1 = k
    BY <2>1, <2>2
  <2>4. Good(k - 1)
    BY <2>3
  <2> QED BY <1>2, <2>2, <2>3, <2>4
<1> QED BY <1>3

-----------------------------------------------------------------------------
(* On the course the two copies of every component are the same.           *)

Fits(g) ==
    \A p \in Parties :
        /\ Tape(g.tape[p], HashWires) /\ Fitting(g.tape[p], g.tape[NextOf(p)], HashWires)
        /\ Tape(g.x[p], Entries) /\ Fitting(g.x[p], g.x[NextOf(p)], Entries)

(* Neighbours on the ring.                                                 *)
LEMMA RingFacts ==
    \A p \in Parties : /\ NextOf(p) \in Parties /\ PrevOf(p) \in Parties
                       /\ NextOf(PrevOf(p)) = p /\ PrevOf(NextOf(p)) = p
                       /\ NextOf(p) # p /\ PrevOf(p) # p /\ NextOf(p) # PrevOf(p)
BY DEF Parties, NextOf, PrevOf

(* The two holders of a component of a public value put in the same.       *)
LEMMA PublicFits ==
    ASSUME NEW p \in Parties, NEW v
    PROVE  /\ PublicPair(p, v)[2] = PublicPair(NextOf(p), v)[1]
           /\ PublicPair(p, v) = <<PublicPair(p, v)[1], PublicPair(p, v)[2]>>
BY DEF PublicPair, Parties, NextOf

(* Copies that agree still agree after an XOR.                             *)
LEMMA XorFits ==
    ASSUME NEW a, NEW b, NEW c, NEW d, a[2] = c[1], b[2] = d[1]
    PROVE  /\ PairXor(a, b)[2] = PairXor(c, d)[1]
           /\ PairXor(a, b) = <<PairXor(a, b)[1], PairXor(a, b)[2]>>
BY DEF PairXor

(* Flipping a bit of a value, and the tape of a hash.                      *)
LEMMA BegunFits ==
    ASSUME NEW p \in Parties, NEW v, NEW u, NEW k,
           Tape(v, Entries), Tape(u, Entries), Fitting(v, u, Entries)
    PROVE  /\ Tape(Begun(p, v, k), HashWires)
           /\ Fitting(Begun(p, v, k), Begun(NextOf(p), u, k), HashWires)
<1> DEFINE q == NextOf(p)
           all == All(k)
           b == FlipBit(k)
           vv == Flipped(p, v, k)
           uu == Flipped(q, u, k)
<1>1. q \in Parties
  BY RingFacts
<1>2. /\ DOMAIN v = Entries /\ DOMAIN u = Entries
      /\ \A m \in Entries : v[m] = <<v[m][1], v[m][2]>> /\ v[m][2] = u[m][1]
  BY Zenon DEF Tape, Fitting
<1>3. /\ \A m \in Entries : vv[m] = IF m = b THEN PairXor(v[m], PublicPair(p, all)) ELSE v[m]
      /\ \A m \in Entries : uu[m] = IF m = b THEN PairXor(u[m], PublicPair(q, all)) ELSE u[m]
  BY <1>2 DEF Flipped
<1> HIDE DEF vv, uu, b, all
<1>4. \A m \in Entries : vv[m] = <<vv[m][1], vv[m][2]>> /\ vv[m][2] = uu[m][1]
  <2> TAKE m \in Entries
  <2>1. CASE m = b
    <3>1. v[m][2] = u[m][1] /\ PublicPair(p, all)[2] = PublicPair(q, all)[1]
      BY <1>2, PublicFits
    <3>2. vv[m] = PairXor(v[m], PublicPair(p, all)) /\ uu[m] = PairXor(u[m], PublicPair(q, all))
      BY <1>3, <2>1
    <3> HIDE DEF q
    <3> QED BY <3>1, <3>2, XorFits
  <2>2. CASE m # b
    BY <1>2, <1>3, <2>2
  <2> QED BY <2>1, <2>2
<1> DEFINE T == BuildTape(p, vv, all)
           U == BuildTape(q, uu, all)
<1>5. ASSUME NEW w \in HashWires PROVE T[w] = <<T[w][1], T[w][2]>> /\ T[w][2] = U[w][1]
  <2> DEFINE state0 == InputOffset(HashCircuit, 1)
             m == EntryOn(w, BlockBytes)
             a == IF m \in Padding THEN all ELSE {}
             c == IF EntryOn(w - state0, MsgBytes) \in IV THEN all ELSE {}
  <2>1. /\ T[w] = IF w < state0 THEN IF m \in Entries THEN vv[m] ELSE PublicPair(p, a)
                  ELSE IF w < state0 + Cardinality(Entries) THEN PublicPair(p, c) ELSE NoPair
        /\ U[w] = IF w < state0 THEN IF m \in Entries THEN uu[m] ELSE PublicPair(q, a)
                  ELSE IF w < state0 + Cardinality(Entries) THEN PublicPair(q, c) ELSE NoPair
    BY <1>5 DEF BuildTape, HashWires
  <2> HIDE DEF state0, m, a, c, T, U
  <2>2. NoPair = <<NoPair[1], NoPair[2]>> /\ NoPair[2] = NoPair[1]
    BY DEF NoPair
  <2>3. CASE w < state0 /\ m \in Entries
    BY <1>4, <2>1, <2>3
  <2>4. CASE w < state0 /\ m \notin Entries
    BY <2>1, <2>4, PublicFits
  <2>5. CASE ~(w < state0) /\ w < state0 + Cardinality(Entries)
    BY <2>1, <2>5, PublicFits
  <2>6. CASE ~(w < state0) /\ ~(w < state0 + Cardinality(Entries))
    BY <2>1, <2>2, <2>6
  <2> QED BY <2>3, <2>4, <2>5, <2>6
<1>6. T = [w \in HashWires |-> T[w]]
  BY DEF BuildTape, HashWires
<1>7. Begun(p, v, k) = T /\ Begun(q, u, k) = U
  BY DEF Begun, vv, uu, all
<1> HIDE DEF T, U
<1>8. Tape(T, HashWires) /\ Fitting(T, U, HashWires)
  BY <1>5, <1>6, Zenon DEF Tape, Fitting
<1> QED BY <1>7, <1>8

(* The tape after a round, and the value after a hash.                     *)
LEMMA TapeInFits ==
    ASSUME NEW g, Fits(g), NEW h, NEW f \in 0..(Depth - 1), NEW p \in Parties
    PROVE  /\ Tape(TapeIn(g, p, h, f), HashWires)
           /\ Fitting(TapeIn(g, p, h, f), TapeIn(g, NextOf(p), h, f), HashWires)
<1> DEFINE q == NextOf(p)
           r == NextOf(q)
           ands == Sched.ands[f]
           t == LocalsOf(p, g.tape[p], h, f)
           u == LocalsOf(q, g.tape[q], h, f)
           a == SentIn(g, p, h, f)
           b == SentIn(g, q, h, f)
           c == SentIn(g, r, h, f)
<1>1. q \in Parties /\ r \in Parties
  BY RingFacts
<1>2. /\ Tape(t, HashWires) /\ Fitting(t, u, HashWires) /\ DOMAIN u = HashWires
      /\ \A w \in HashWires : u[w] = <<u[w][1], u[w][2]>>
  <2>1. /\ Tape(g.tape[p], HashWires) /\ Fitting(g.tape[p], g.tape[q], HashWires)
        /\ Tape(g.tape[q], HashWires) /\ Fitting(g.tape[q], g.tape[r], HashWires)
        /\ Tape(g.tape[r], HashWires)
    BY <1>1, RingFacts DEF Fits
  <2>2. f \in 0..Sched.depth
    BY SizeFacts DEF Depth
  <2> DEFINE n == Len(Sched.locals[f])
  <2>3. /\ n \in Nat /\ DOMAIN Sched.locals[f] = 1..n
        /\ \A i \in 1..n : IsGate(HashCircuit, Sched.locals[f][i])
    BY <2>2, ScheduledGates
  <2>4. \A i \in 1..n : Sched.locals[f][i].left \in HashWires /\ Sched.locals[f][i].right \in HashWires
    BY <2>3 DEF HashWires, IsGate
  <2> HIDE DEF n, q, r
  <2>5. /\ Tape(LocalGates(p, Sched.locals[f], g.tape[p], All(h)), HashWires)
        /\ Fitting(LocalGates(p, Sched.locals[f], g.tape[p], All(h)),
                   LocalGates(NextOf(p), Sched.locals[f], g.tape[q], All(h)), HashWires)
    BY <2>1, <2>3, <2>4, LocalGatesFit DEF q
  <2>6. Tape(LocalGates(q, Sched.locals[f], g.tape[q], All(h)), HashWires)
    BY <1>1, <2>1, <2>3, <2>4, LocalGatesFit DEF r
  <2>7. Tape(t, HashWires) /\ Fitting(t, u, HashWires) /\ Tape(u, HashWires)
    BY <2>5, <2>6 DEF LocalsOf, q
  <2> HIDE DEF u, t
  <2> QED BY <2>7, Zenon DEF Tape
<1> HIDE DEF t, u, a, b, c, q, r
<1>3. /\ DOMAIN t = HashWires
      /\ \A w \in HashWires : t[w] = <<t[w][1], t[w][2]>> /\ t[w][2] = u[w][1]
  BY <1>2, Zenon DEF Tape, Fitting
<1> DEFINE On(w) == \E k \in DOMAIN ands : ands[k].out = w
           Place(w) == CHOOSE k \in DOMAIN ands : ands[k].out = w
           T == TapeIn(g, p, h, f)
           U == TapeIn(g, q, h, f)
<1>4. /\ T = WithComponent(WithComponent(t, ands, 1, a), ands, 2, b)
      /\ U = WithComponent(WithComponent(u, ands, 1, b), ands, 2, c)
  BY DEF TapeIn, FirstsIn, SentIn, t, u, a, b, c, q, r
<1> HIDE DEF T, U
<1> DEFINE tt == WithComponent(t, ands, 1, a)
           uu == WithComponent(u, ands, 1, b)
<1>5. /\ tt = [w \in HashWires |-> IF On(w) THEN [t[w] EXCEPT ![1] = a[Place(w)]] ELSE t[w]]
      /\ uu = [w \in HashWires |-> IF On(w) THEN [u[w] EXCEPT ![1] = b[Place(w)]] ELSE u[w]]
  BY <1>2, <1>3, Zenon DEF WithComponent
<1> HIDE DEF tt, uu
<1>6. DOMAIN tt = HashWires /\ DOMAIN uu = HashWires
  BY <1>5
<1>7. /\ T = [w \in HashWires |-> IF On(w) THEN [tt[w] EXCEPT ![2] = b[Place(w)]] ELSE tt[w]]
      /\ U = [w \in HashWires |-> IF On(w) THEN [uu[w] EXCEPT ![2] = c[Place(w)]] ELSE uu[w]]
  BY <1>4, <1>6, Zenon DEF WithComponent, tt, uu
<1> HIDE DEF ands
<1>8. ASSUME NEW w \in HashWires PROVE T[w] = <<T[w][1], T[w][2]>> /\ T[w][2] = U[w][1]
  <2>0. /\ t[w] = <<t[w][1], t[w][2]>> /\ u[w] = <<u[w][1], u[w][2]>> /\ t[w][2] = u[w][1]
    BY <1>2, <1>3
  <2>1. CASE On(w)
    <3> DEFINE k == Place(w)
    <3>1. /\ T[w] = [tt[w] EXCEPT ![2] = b[k]] /\ tt[w] = [t[w] EXCEPT ![1] = a[k]]
          /\ U[w] = [uu[w] EXCEPT ![2] = c[k]] /\ uu[w] = [u[w] EXCEPT ![1] = b[k]]
      BY <1>5, <1>7, <2>1
    <3> HIDE DEF k
    <3>2. tt[w] = <<a[k], t[w][2]>> /\ uu[w] = <<b[k], u[w][2]>>
      BY <2>0, <3>1
    <3> QED BY <3>1, <3>2
  <2>2. CASE ~On(w)
    <3>1. T[w] = t[w] /\ U[w] = u[w]
      BY <1>5, <1>7, <2>2
    <3> QED BY <2>0, <3>1
  <2> QED BY <2>1, <2>2
<1>9. T = [w \in HashWires |-> T[w]]
  BY <1>7
<1>10. Tape(T, HashWires) /\ Fitting(T, U, HashWires)
  BY <1>8, <1>9, Zenon DEF Tape, Fitting
<1> QED BY <1>10 DEF T, U, q

(* The digest, or the frontier it is interleaved with, fits if both do.    *)
LEMMA AfterHashFits ==
    ASSUME NEW v, NEW u, Tape(v, Entries), Tape(u, Entries), Fitting(v, u, Entries),
           NEW d, NEW e, Tape(d, Entries), Tape(e, Entries), Fitting(d, e, Entries), NEW h
    PROVE  Tape(AfterHash(v, d, h), Entries) /\ Fitting(AfterHash(v, d, h), AfterHash(u, e, h), Entries)
<1>1. CASE InWalk(h)
  BY <1>1 DEF AfterHash
<1>2. CASE ~InWalk(h)
  <2> DEFINE n == LanesIn(h)
             S == 0..(n - 1)
             X == [m \in Entries |-> <<Merged(v[m][1], d[m][1], S), Merged(v[m][2], d[m][2], S)>>]
             Y == [m \in Entries |-> <<Merged(u[m][1], e[m][1], S), Merged(u[m][2], e[m][2], S)>>]
  <2>1. /\ \A m \in Entries : v[m][2] = u[m][1] /\ d[m][2] = e[m][1]
    BY DEF Fitting
  <2> HIDE DEF S, n
  <2>2. ASSUME NEW a, NEW b
        PROVE  Interleaved(a, b, n) =
                 [m \in Entries |-> <<Merged(a[m][1], b[m][1], S), Merged(a[m][2], b[m][2], S)>>]
    BY DEF Interleaved, S
  <2>3. Interleaved(v, d, n) = X /\ Interleaved(u, e, n) = Y
    BY <2>2
  <2>4. AfterHash(v, d, h) = X /\ AfterHash(u, e, h) = Y
    BY <1>2, <2>3 DEF AfterHash, n
  <2>5. Tape(X, Entries) /\ Fitting(X, Y, Entries)
    BY <2>1 DEF Tape, Fitting
  <2> QED BY <2>4, <2>5
<1> QED BY <1>1, <1>2

(* The digest taken off a tape is a value of pairs, and fits if the tapes  *)
(* do.                                                                     *)
LEMMA ExtractTape ==
    ASSUME NEW t, Tape(t, HashWires)
    PROVE  Tape(Extract(t), Entries)
<1>1. \A m \in Entries : OutputOffset(HashCircuit, 0) + WireOf(m, MsgBytes) \in HashWires
  BY DigestWires
<1>2. \A w \in HashWires : t[w] = <<t[w][1], t[w][2]>>
  BY Zenon DEF Tape
<1>3. /\ \A m \in Entries : Extract(t)[m] = t[OutputOffset(HashCircuit, 0) + WireOf(m, MsgBytes)]
      /\ Extract(t) = [m \in Entries |-> Extract(t)[m]]
  BY DEF Extract
<1>4. \A m \in Entries : Extract(t)[m] = <<Extract(t)[m][1], Extract(t)[m][2]>>
  BY <1>1, <1>2, <1>3
<1> QED BY <1>3, <1>4, Zenon DEF Tape

(* Digests taken off tapes that fit do so too.                             *)
LEMMA ExtractFits ==
    ASSUME NEW t, NEW u, Fitting(t, u, HashWires)
    PROVE  Fitting(Extract(t), Extract(u), Entries)
<1>1. \A m \in Entries : OutputOffset(HashCircuit, 0) + WireOf(m, MsgBytes) \in HashWires
  BY DigestWires
<1>2. \A w \in HashWires : t[w][2] = u[w][1]
  BY DEF Fitting
<1>3. /\ \A m \in Entries : Extract(t)[m] = t[OutputOffset(HashCircuit, 0) + WireOf(m, MsgBytes)]
      /\ \A m \in Entries : Extract(u)[m] = u[OutputOffset(HashCircuit, 0) + WireOf(m, MsgBytes)]
  BY DEF Extract
<1> QED BY <1>1, <1>2, <1>3 DEF Fitting

(* The values that a hash leads to fit.                                    *)
LEMMA ValueInFits ==
    ASSUME NEW g, Fits(g), NEW h, NEW f \in 0..(Depth - 1), NEW p \in Parties
    PROVE  /\ Tape(ValueIn(g, p, h, f), Entries)
           /\ Fitting(ValueIn(g, p, h, f), ValueIn(g, NextOf(p), h, f), Entries)
<1> DEFINE q == NextOf(p)
           r == NextOf(q)
           T == TapeIn(g, p, h, f)
           U == TapeIn(g, q, h, f)
           V == TapeIn(g, r, h, f)
           gates == Sched.locals[Depth]
           n == Len(gates)
           d == LocalGates(p, gates, T, All(h))
           e == LocalGates(q, gates, U, All(h))
<1>1. q \in Parties /\ r \in Parties
  BY RingFacts
<1>2. /\ Tape(T, HashWires) /\ Fitting(T, U, HashWires)
      /\ Tape(U, HashWires) /\ Fitting(U, V, HashWires) /\ Tape(V, HashWires)
  BY <1>1, TapeInFits
<1>3. Depth \in 0..Sched.depth
  BY SizeFacts DEF Depth
<1>4. n \in Nat /\ DOMAIN gates = 1..n /\ \A i \in 1..n : IsGate(HashCircuit, gates[i])
  BY <1>3, ScheduledGates
<1>5. \A i \in 1..n : gates[i].left \in HashWires /\ gates[i].right \in HashWires
  BY <1>4 DEF HashWires, IsGate
<1> HIDE DEF n, gates, T, U, V, r
<1>6. Tape(d, HashWires) /\ Fitting(d, e, HashWires)
  BY <1>2, <1>4, <1>5, LocalGatesFit
<1>7. Tape(e, HashWires)
  BY <1>1, <1>2, <1>4, <1>5, LocalGatesFit DEF r
<1> HIDE DEF d, e, q
<1>8. Fitting(g.x[p], g.x[q], Entries) /\ Tape(g.x[p], Entries) /\ Tape(g.x[q], Entries)
  BY <1>1 DEF Fits, q
<1>9. /\ Tape(Extract(d), Entries) /\ Fitting(Extract(d), Extract(e), Entries)
      /\ Tape(Extract(e), Entries)
  BY <1>6, <1>7, ExtractTape, ExtractFits
<1>10. /\ Tape(AfterHash(g.x[p], Extract(d), h), Entries)
       /\ Fitting(AfterHash(g.x[p], Extract(d), h), AfterHash(g.x[q], Extract(e), h), Entries)
  BY <1>8, <1>9, AfterHashFits
<1> QED BY <1>10 DEF ValueIn, d, e, T, U, gates, q

(* A round of all three keeps their tapes and values fitting.              *)
LEMMA TogetherFits ==
    ASSUME NEW g, Fits(g), NEW h, NEW f \in 0..(Depth - 1)
    PROVE  Fits(Together(g, h, f))
<1> DEFINE G == Together(g, h, f)
<1>1. CASE f + 1 < Depth
  <2>1. /\ G.x = g.x
        /\ \A p \in Parties : G.tape[p] = TapeIn(g, p, h, f)
    BY <1>1 DEF Together
  <2> HIDE DEF G
  <2> SUFFICES ASSUME NEW p \in Parties
               PROVE  /\ Tape(G.tape[p], HashWires) /\ Fitting(G.tape[p], G.tape[NextOf(p)], HashWires)
                      /\ Tape(G.x[p], Entries) /\ Fitting(G.x[p], G.x[NextOf(p)], Entries)
    BY DEF Fits, G
  <2>2. G.tape[p] = TapeIn(g, p, h, f) /\ G.tape[NextOf(p)] = TapeIn(g, NextOf(p), h, f)
    BY <2>1, RingFacts
  <2>3. Tape(G.tape[p], HashWires) /\ Fitting(G.tape[p], G.tape[NextOf(p)], HashWires)
    BY <2>2, TapeInFits
  <2> QED BY <2>1, <2>3 DEF Fits
<1>2. CASE ~(f + 1 < Depth)
  <2>1. /\ \A p \in Parties : G.x[p] = ValueIn(g, p, h, f)
        /\ \A p \in Parties : G.tape[p] = Begun(p, ValueIn(g, p, h, f), h + 1)
    BY <1>2 DEF Together
  <2> HIDE DEF G
  <2> SUFFICES ASSUME NEW p \in Parties
               PROVE  /\ Tape(G.tape[p], HashWires) /\ Fitting(G.tape[p], G.tape[NextOf(p)], HashWires)
                      /\ Tape(G.x[p], Entries) /\ Fitting(G.x[p], G.x[NextOf(p)], Entries)
    BY DEF Fits, G
  <2> DEFINE q == NextOf(p)
             v == ValueIn(g, p, h, f)
             u == ValueIn(g, q, h, f)
  <2>2. q \in Parties
    BY RingFacts
  <2>3. G.x[p] = v /\ G.x[q] = u /\ G.tape[p] = Begun(p, v, h + 1) /\ G.tape[q] = Begun(q, u, h + 1)
    BY <2>1, <2>2
  <2>4. Tape(v, Entries) /\ Fitting(v, u, Entries) /\ Tape(u, Entries)
    BY <2>2, ValueInFits
  <2> HIDE DEF v, u
  <2>5. Tape(Begun(p, v, h + 1), HashWires) /\ Fitting(Begun(p, v, h + 1), Begun(q, u, h + 1), HashWires)
    BY <2>4, BegunFits
  <2> QED BY <2>3, <2>4, <2>5
<1> QED BY <1>1, <1>2

(* The dealer's shares fit, and so do the first tapes.                     *)
LEMMA StartFits == Fits(Start)
<1> SUFFICES ASSUME NEW p \in Parties
             PROVE  /\ Tape(Start.tape[p], HashWires)
                    /\ Fitting(Start.tape[p], Start.tape[NextOf(p)], HashWires)
                    /\ Tape(Start.x[p], Entries) /\ Fitting(Start.x[p], Start.x[NextOf(p)], Entries)
  BY DEF Fits
<1> DEFINE q == NextOf(p)
<1>1. q \in Parties
  BY RingFacts
<1>2. ASSUME NEW s \in Parties, NEW m \in Entries
      PROVE  Dealt[s][m] = <<Dealt[s][m][1], Dealt[s][m][2]>>
  BY DEF Dealt, ShareWord, Replicated
<1>3. ASSUME NEW m \in Entries PROVE Dealt[p][m][2] = Dealt[q][m][1]
  BY <1>1 DEF Dealt, ShareWord, Replicated
<1>4. \A s \in Parties : Dealt[s] = [m \in Entries |-> Dealt[s][m]]
  BY DEF Dealt
<1>5. Tape(Dealt[p], Entries) /\ Tape(Dealt[q], Entries) /\ Fitting(Dealt[p], Dealt[q], Entries)
  BY <1>1, <1>2, <1>3, <1>4, Zenon DEF Tape, Fitting
<1>6. /\ Start.x[p] = Dealt[p] /\ Start.x[q] = Dealt[q]
      /\ Start.tape[p] = Begun(p, Dealt[p], 1) /\ Start.tape[q] = Begun(q, Dealt[q], 1)
  BY <1>1 DEF Start
<1>7. Tape(Begun(p, Dealt[p], 1), HashWires) /\ Fitting(Begun(p, Dealt[p], 1), Begun(q, Dealt[q], 1), HashWires)
  BY <1>5, BegunFits
<1> QED BY <1>5, <1>6, <1>7

(* A round's phase is one of the schedule's.                               *)
LEMMA PhaseInRange == \A n \in Nat : PhaseIn(n) \in 0..(Depth - 1)
<1> SUFFICES ASSUME NEW n \in Nat PROVE PhaseIn(n) \in 0..(Depth - 1)
  OBVIOUS
<1>1. Depth \in Nat \ {0}
  BY SizeFacts
<1> QED BY <1>1 DEF PhaseIn

(* All along the course, neighbours' copies of every component agree.      *)
LEMMA CourseFits ==
    ASSUME NEW N \in Nat, NEW c, Course(c, N)
    PROVE  \A n \in 0..N : Fits(c[n])
<1> DEFINE Bad == {n \in 0..N : ~Fits(c[n])}
<1> SUFFICES ASSUME Bad # {} PROVE FALSE
  OBVIOUS
<1>1. PICK k \in Bad : \A j \in Bad : k <= j
  <2>1. Bad \in SUBSET Nat
    OBVIOUS
  <2> HIDE DEF Bad
  <2> QED BY <2>1, LeastNumber
<1>2. k # 0
  BY StartFits DEF Course
<1>3. k - 1 \in 0..(N - 1) /\ (k - 1) + 1 = k /\ k - 1 \in 0..N /\ k - 1 \notin Bad
  BY <1>1, <1>2
<1>4. Fits(c[k - 1])
  BY <1>3
<1>5. c[k] = Together(c[k - 1], HashIn(k - 1), PhaseIn(k - 1))
  BY <1>3 DEF Course
<1>6. PhaseIn(k - 1) \in 0..(Depth - 1)
  BY <1>3, PhaseInRange
<1>7. Fits(c[k])
  BY <1>4, <1>5, <1>6, TogetherFits
<1> QED BY <1>1, <1>7

-----------------------------------------------------------------------------
(* The parties follow the course. *)

(* The rounds of the hashes come before the last round.                    *)
LEMMA RoundBounds ==
    /\ LastRound \in Nat
    /\ \A h \in 1..Hashes : \A f \in 0..(Depth - 1) : Round(h, f) \in 0..(LastRound - 1)
<1>1. Depth \in Nat \ {0} /\ Hashes \in Nat \ {0}
  BY SizeFacts
<1>2. LastRound = Hashes * Depth /\ LastRound \in Nat
  BY <1>1 DEF LastRound, Round
<1>3. ASSUME NEW h \in 1..Hashes, NEW f \in 0..(Depth - 1) PROVE Round(h, f) < LastRound
  <2>1. h <= Hashes /\ h \in Int /\ f < Depth
    BY <1>1
  <2>2. (h - 1) * Depth + Depth = h * Depth /\ (h - 1) * Depth \in Int /\ h * Depth \in Int
    BY <1>1, <2>1, Z3
  <2>3. h * Depth <= Hashes * Depth
    BY <1>1, <2>1, Z3
  <2>4. Hashes * Depth \in Int /\ f \in Int
    BY <1>1
  <2> QED BY <1>1, <1>2, <2>1, <2>2, <2>3, <2>4 DEF Round
<1>4. \A h \in 1..Hashes : \A f \in 0..(Depth - 1) : Round(h, f) \in Nat
  BY <1>1, RoundParts
<1> QED BY <1>2, <1>3, <1>4

(* At the start everyone is at round 0 of the course, with nothing on the  *)
(* wires.                                                                  *)
LEMMA InitIInv == Init => IInv
<1> SUFFICES ASSUME Init PROVE IInv
  OBVIOUS
<1>1. /\ transport = "channel" /\ wire = [l \in Links |-> << >>] /\ gone = {}
      /\ x = Dealt /\ tape = [p \in Parties |-> Begun(p, x[p], 1)]
      /\ at = [p \in Parties |-> "send"]
      /\ hash = [p \in Parties |-> 1] /\ phase = [p \in Parties |-> 0]
      /\ draws = [p \in Parties |-> 0]
  BY DEF Init, NetInit, Dealt
<1>2. Depth \in Nat \ {0} /\ Hashes \in Nat \ {0}
  BY SizeFacts
<1>3. PlacesInv
  BY <1>1, <1>2 DEF PlacesInv, Ended, Dealt
<1>4. PICK c : Course(c, LastRound)
  BY RoundBounds, CourseExists
<1>5. c[0] = Start
  BY <1>4 DEF Course
<1>6. \A p \in Parties : RoundOf(p) = 0 /\ SentBy(p) = 0
  <2>1. Round(1, 0) = 0
    BY <1>2 DEF Round
  <2>2. \A p \in Parties : hash[p] = 1 /\ phase[p] = 0 /\ at[p] # "read"
    BY <1>1
  <2>3. \A p \in Parties : RoundOf(p) = 0
    BY <2>1, <2>2, Zenon DEF RoundOf
  <2>4. \A p \in Parties : SentBy(p) = RoundOf(p) + 0
    BY <2>2, Zenon DEF SentBy
  <2>5. 0 + 0 = 0
    OBVIOUS
  <2> QED BY <2>3, <2>4, <2>5, Zenon
<1>7. \A p \in Parties : OnCourse(c, p)
  <2> SUFFICES ASSUME NEW p \in Parties PROVE OnCourse(c, p)
    OBVIOUS
  <2>1. c[RoundOf(p)] = Start
    BY <1>5, <1>6
  <2>2. /\ Start.x = Dealt /\ Start.draws = 0
        /\ Start.tape[p] = Begun(p, Dealt[p], 1)
    BY DEF Start
  <2>3. at[p] = "send" /\ x[p] = Dealt[p] /\ tape[p] = Begun(p, Dealt[p], 1) /\ draws[p] = 0
    BY <1>1
  <2> QED BY <2>1, <2>2, <2>3 DEF OnCourse
<1>8. \A p \in Parties : WireHolds(c, p)
  <2> SUFFICES ASSUME NEW p \in Parties PROVE WireHolds(c, p)
    OBVIOUS
  <2>1. NextOf(p) \in Parties /\ NextOf(p) # p
    BY RingFacts
  <2>2. wire[<<NextOf(p), p>>] = << >>
    BY <1>1, <2>1 DEF Links
  <2>3. /\ ~Ended(p) /\ SentBy(NextOf(p)) = 0 /\ RoundOf(p) = 0
    BY <1>1, <1>6, <2>1 DEF Ended
  <2>4. << >> \in Seq({Message(c, NextOf(p), n) : n \in Nat}) /\ Len(<< >>) = 0 /\ 1..0 = {}
    OBVIOUS
  <2> QED BY <2>2, <2>3, <2>4 DEF WireHolds
<1> QED BY <1>3, <1>4, <1>7, <1>8 DEF IInv, CourseInv, Follows

(* The course and its messages depend on the seed and the randomness only, *)
(* which never change.                                                     *)
LEMMA CourseStays ==
    ASSUME UNCHANGED <<seed, random>>
    PROVE  /\ \A c, N : Course(c, N)' <=> Course(c, N)
           /\ \A c, p, n : Message(c, p, n)' = Message(c, p, n)
           /\ \A p, t, d, h, f : FirstsIn(p, t, d, h, f)' = FirstsIn(p, t, d, h, f)
<1>1. \A p, t, d, h, f : ProductsOf(p, t, d, h, f)' = ProductsOf(p, t, d, h, f)
  BY DEF ProductsOf, LocalsOf
<1>2. \A p, t, d, h, f : FirstsIn(p, t, d, h, f)' = FirstsIn(p, t, d, h, f)
  BY <1>1 DEF FirstsIn, LocalsOf
<1>3. \A g, p, h, f : SentIn(g, p, h, f)' = SentIn(g, p, h, f)
  BY <1>1 DEF SentIn
<1>4. \A g, p, h, f : TapeIn(g, p, h, f)' = TapeIn(g, p, h, f)
  BY <1>2, <1>3 DEF TapeIn
<1>5. \A g, p, h, f : ValueIn(g, p, h, f)' = ValueIn(g, p, h, f)
  BY <1>4 DEF ValueIn
<1>6. \A g, h, f : Together(g, h, f)' = Together(g, h, f)
  BY <1>4, <1>5 DEF Together
<1>7. Start' = Start
  BY DEF Start, Dealt
<1>8. \A c, N : Course(c, N)' <=> Course(c, N)
  BY <1>6, <1>7 DEF Course
<1>9. \A c, p, n : Message(c, p, n)' = Message(c, p, n)
  BY <1>3 DEF Message
<1> QED BY <1>2, <1>8, <1>9

(* What does not concern a party leaves it on the course, and the wire it  *)
(* reads as it was, as long as its neighbour has sent as much.             *)
LEMMA CourseKept ==
    ASSUME NEW c, NEW o \in Parties, UNCHANGED <<seed, random>>, OnCourse(c, o),
           UNCHANGED <<at[o], hash[o], phase[o], x[o], tape[o], draws[o]>>
    PROVE  OnCourse(c, o)'
<1>1. RoundOf(o)' = RoundOf(o)
  BY DEF RoundOf
<1>2. \A p, t, d, h, f : FirstsIn(p, t, d, h, f)' = FirstsIn(p, t, d, h, f)
  BY CourseStays
<1> QED BY <1>1, <1>2 DEF OnCourse

(* A step that moves neither end of a wire leaves what the wire holds as   *)
(* it was.                                                                 *)
LEMMA WireKept ==
    ASSUME NEW c, NEW o \in Parties, UNCHANGED <<seed, random>>, WireHolds(c, o),
           Ended(o)' = Ended(o), UNCHANGED <<hash[o], phase[o], wire[<<NextOf(o), o>>]>>,
           at'[NextOf(o)] # "aborted" =>
              at[NextOf(o)] # "aborted" /\ SentBy(NextOf(o))' = SentBy(NextOf(o))
    PROVE  WireHolds(c, o)'
<1> DEFINE q == NextOf(o)
           w == wire[<<q, o>>]
<1>1. RoundOf(o)' = RoundOf(o) /\ Ended(o)' = Ended(o)
  BY DEF RoundOf
<1>2. \A p, n : Message(c, p, n)' = Message(c, p, n)
  BY CourseStays
<1>3. Ended(o) => w = << >>
  BY DEF WireHolds
<1>4. ~Ended(o) => /\ \A i \in 1..Len(w) : w[i] = Message(c, q, RoundOf(o) + i - 1)
                   /\ at[q] # "aborted" => Len(w) = SentBy(q) - RoundOf(o)
                   /\ w \in Seq({Message(c, q, n) : n \in Nat})
  BY DEF WireHolds
<1>5. w' = w
  OBVIOUS
<1>6. {Message(c, q, n) : n \in Nat}' = {Message(c, q, n) : n \in Nat}
  BY <1>2
<1>7. (Ended(o) => w = << >>)'
  BY <1>1, <1>3, <1>5
<1>8. (~Ended(o) => /\ \A i \in 1..Len(w) : w[i] = Message(c, q, RoundOf(o) + i - 1)
                    /\ at[q] # "aborted" => Len(w) = SentBy(q) - RoundOf(o)
                    /\ w \in Seq({Message(c, q, n) : n \in Nat}))'
  BY <1>1, <1>2, <1>4, <1>5, <1>6
<1> QED BY <1>7, <1>8 DEF WireHolds

(* Sending: the local gates and the products are those of the course, and  *)
(* the message joins those the previous party has not read.                *)
LEMMA SendStep ==
    ASSUME IInv, NEW p \in Parties, SendProducts(p)
    PROVE  IInv'
<1> DEFINE h == hash[p]
           f == phase[p]
           r == RoundOf(p)
           o == PrevOf(p)
           t == Locals(p, phase[p], tape[p])
           products == [k \in DOMAIN Ands(p) |->
                          Product(Ands(p)[k], t, ZeroWord(random.stream, p, draws[p] + k)
                                                    \cap All(hash[p]))]
           m == [tag |-> Tag(p), words |-> products]
<1>1. PICK c : Follows(c)
  BY DEF IInv, CourseInv
<1>2. /\ at[p] = "send" /\ SendMayPass(o)
      /\ tape' = [tape EXCEPT ![p] = WithComponent(t, Ands(p), 1, products)]
      /\ draws' = [draws EXCEPT ![p] = @ + Len(Ands(p))]
      /\ Transmit(p, o, m)
      /\ at' = [at EXCEPT ![p] = "read"]
      /\ UNCHANGED <<seed, random, hash, phase, x>>
  BY DEF SendProducts
<1> HIDE DEF products
<1>3. PlacesInv /\ o \in Parties /\ o # p /\ NextOf(o) = p /\ NextOf(p) \in Parties /\ NextOf(p) # p
  BY RingFacts DEF IInv
<1>4. /\ transport = "channel" /\ ~Ended(o) /\ ~Ended(p) /\ h \in 1..Hashes /\ f \in 0..(Depth - 1)
      /\ at[o] # "aborted" /\ at[o] # "done"
  BY <1>2, <1>3 DEF PlacesInv, SendMayPass, Ended
<1>5. /\ wire' = [wire EXCEPT ![<<p, o>>] = Append(@, m)]
      /\ UNCHANGED <<transport, queued, gone, reset>>
  BY <1>2, <1>4 DEF Transmit, Extended
<1>6. PlacesInv'
  <2>1. DOMAIN wire' = Links /\ at' \in [Parties -> {"send", "read", "done", "aborted"}]
    BY <1>2, <1>3, <1>5 DEF PlacesInv
  <2>2. \A s \in Parties : at'[s] \in {"send", "read"} => hash'[s] \in 1..Hashes
    BY <1>2, <1>3, <1>4 DEF PlacesInv
  <2>3. \A s \in Parties : at'[s] = "done" => hash'[s] = Hashes + 1 /\ phase'[s] = 0
    BY <1>2, <1>3 DEF PlacesInv
  <2>4. gone' = {s \in Parties : Ended(s)'}
    BY <1>2, <1>3, <1>5 DEF PlacesInv, Ended
  <2>5. tape' = [s \in Parties |-> tape'[s]] /\ draws' = [s \in Parties |-> draws'[s]]
    BY <1>2, <1>3 DEF PlacesInv
  <2> QED BY <1>2, <1>3, <1>5, <2>1, <2>2, <2>3, <2>4, <2>5 DEF PlacesInv
<1>7. tape[p] = c[r].tape[p] /\ draws[p] = c[r].draws /\ x[p] = c[r].x[p]
  BY <1>1, <1>2, <1>4 DEF Follows, OnCourse
<1>8. products = SentIn(c[r], p, h, f)
  BY <1>7 DEF products, SentIn, ProductsOf, LocalsOf, Locals, Ands
<1>9. RoundOf(p)' = r /\ \A s \in Parties : RoundOf(s)' = RoundOf(s)
  BY <1>2 DEF RoundOf
<1>10. at'[p] = "read" /\ x'[p] = c[r].x[p] /\ draws'[p] = c[r].draws + Len(Sched.ands[f])
  BY <1>2, <1>3, <1>7 DEF PlacesInv, Ands
<1>11. tape'[p] = FirstsIn(p, c[r].tape[p], c[r].draws, h, f)
  BY <1>2, <1>3, <1>7, <1>8 DEF PlacesInv, FirstsIn, SentIn, LocalsOf, Locals, Ands
<1>12. OnCourse(c, p)'
  <2>1. FirstsIn(p, c[r].tape[p], c[r].draws, h, f)'
          = FirstsIn(p, c[r].tape[p], c[r].draws, h, f)
    BY <1>2, <1>9 DEF FirstsIn, ProductsOf, LocalsOf
  <2>2. hash'[p] = h /\ phase'[p] = f
    BY <1>2
  <2>3. \A b : c[b]' = c[b]
    OBVIOUS
  <2> QED BY <1>9, <1>10, <1>11, <2>1, <2>2 DEF OnCourse
<1>13. \A s \in Parties \ {p} : OnCourse(c, s)'
  <2> SUFFICES ASSUME NEW s \in Parties \ {p} PROVE OnCourse(c, s)'
    OBVIOUS
  <2>1. UNCHANGED <<at[s], hash[s], phase[s], x[s], tape[s], draws[s]>>
    BY <1>2, <1>3 DEF PlacesInv
  <2>2. OnCourse(c, s) /\ UNCHANGED <<seed, random>>
    BY <1>1, <1>2 DEF Follows
  <2> QED BY <2>1, <2>2, CourseKept
<1>14. Tag(p) = <<HashIn(r), PhaseIn(r)>> /\ r \in Nat
  BY <1>4, RoundParts DEF Tag, RoundOf
<1>15. m = Message(c, p, r)
  BY <1>4, <1>8, <1>14, RoundParts DEF Message, RoundOf
<1>16. WireHolds(c, o)'
  <2> DEFINE w == wire[<<p, o>>]
             S == {Message(c, p, n) : n \in Nat}
  <2>1. /\ \A i \in 1..Len(w) : w[i] = Message(c, p, RoundOf(o) + i - 1)
        /\ Len(w) = r - RoundOf(o) /\ w \in Seq(S)
    <3>1. WireHolds(c, o)
      BY <1>1, <1>3 DEF Follows
    <3>2. SentBy(p) = r /\ at[p] # "aborted"
      <4>1. r \in Int
        BY <1>4, RoundParts, SizeFacts DEF RoundOf
      <4> QED BY <1>2, <4>1 DEF SentBy
    <3> HIDE DEF o, r
    <3> QED BY <1>3, <1>4, <3>1, <3>2 DEF WireHolds
  <2>2. w' = Append(w, m) /\ m \in S
    <3>1. <<p, o>> \in Links
      BY <1>3 DEF Links
    <3> HIDE DEF o, m
    <3> QED BY <1>3, <1>5, <1>14, <1>15, <3>1 DEF PlacesInv
  <2>3. RoundOf(o) \in Int
    <3>1. hash[o] \in Nat \ {0} /\ phase[o] \in 0..(Depth - 1)
      BY <1>3, SizeFacts DEF PlacesInv
    <3> QED BY <3>1, RoundParts DEF RoundOf
  <2> HIDE DEF S, w, m, o
  <2>4. Len(w) \in Nat /\ w' \in Seq(S) /\ Len(w') = Len(w) + 1
    BY <2>1, <2>2
  <2>5. \A i \in 1..Len(w') : w'[i] = Message(c, p, RoundOf(o) + i - 1)
    <3> SUFFICES ASSUME NEW i \in 1..Len(w') PROVE w'[i] = Message(c, p, RoundOf(o) + i - 1)
      OBVIOUS
    <3>1. CASE i \in 1..Len(w)
      <4>1. w'[i] = w[i]
        BY <2>1, <2>2, <3>1
      <4> QED BY <2>1, <3>1, <4>1
    <3>2. CASE i = Len(w) + 1
      <4>1. w'[i] = m
        BY <2>1, <2>2, <3>2
      <4>2. RoundOf(o) + i - 1 = r
        <5> HIDE DEF r
        <5> QED BY <1>14, <2>1, <2>3, <2>4, <3>2
      <4> QED BY <1>15, <4>1, <4>2
    <3> QED BY <2>4, <3>1, <3>2
  <2>6. /\ \A n \in Nat : Message(c, p, n)' = Message(c, p, n)
        /\ \A n \in Int : Message(c, p, n)' = Message(c, p, n)
    BY <1>2, CourseStays
  <2>7. {Message(c, p, n) : n \in Nat}' = S
    BY <2>6 DEF S
  <2>8. SentBy(p)' = r + 1
    BY <1>9, <1>10 DEF SentBy
  <2>9. at'[o] = at[o] /\ ~Ended(o)' /\ NextOf(o) = p /\ RoundOf(o)' = RoundOf(o)
    BY <1>2, <1>3, <1>4, <1>9 DEF PlacesInv, Ended, o
  <2>10. Len(w') = SentBy(p)' - RoundOf(o)'
    <3> HIDE DEF r
    <3> QED BY <1>14, <2>1, <2>3, <2>4, <2>8, <2>9
  <2>11. \A i \in 1..Len(w') : w'[i] = Message(c, p, RoundOf(o) + i - 1)'
    <3> SUFFICES ASSUME NEW i \in 1..Len(w') PROVE w'[i] = Message(c, p, RoundOf(o) + i - 1)'
      OBVIOUS
    <3>1. Message(c, p, RoundOf(o) + i - 1)' = Message(c, p, RoundOf(o) + i - 1)
      BY <1>2, <2>9 DEF Message, SentIn, ProductsOf, LocalsOf
    <3> QED BY <2>5, <3>1
  <2> QED BY <2>4, <2>7, <2>9, <2>10, <2>11 DEF WireHolds, w
<1>17. \A s \in Parties \ {o} : WireHolds(c, s)'
  <2> SUFFICES ASSUME NEW s \in Parties \ {o} PROVE WireHolds(c, s)'
    OBVIOUS
  <2>1. NextOf(s) \in Parties /\ NextOf(s) # p
    BY RingFacts
  <2>2. wire'[<<NextOf(s), s>>] = wire[<<NextOf(s), s>>]
    BY <1>5, <2>1
  <2>3. /\ Ended(s)' = Ended(s) /\ UNCHANGED <<hash[s], phase[s]>>
        /\ UNCHANGED <<at[NextOf(s)]>> /\ SentBy(NextOf(s))' = SentBy(NextOf(s))
    BY <1>2, <1>3, <1>4, <1>9, <2>1 DEF PlacesInv, SentBy, Ended
  <2>4. WireHolds(c, s) /\ UNCHANGED <<seed, random>>
    BY <1>1, <1>2 DEF Follows
  <2> QED BY <2>1, <2>2, <2>3, <2>4, WireKept
<1>18. Course(c, LastRound)'
  BY <1>1, <1>2, CourseStays DEF Follows, LastRound, Round
<1> QED BY <1>6, <1>12, <1>13, <1>16, <1>17, <1>18 DEF IInv, CourseInv, Follows

(* Rounds are numbers.                                                     *)
LEMMA RoundTypes ==
    ASSUME PlacesInv, NEW p \in Parties
    PROVE  RoundOf(p) \in Nat
<1>1. hash[p] \in Nat \ {0} /\ phase[p] \in 0..(Depth - 1)
  BY SizeFacts DEF PlacesInv
<1> QED BY <1>1, RoundParts DEF RoundOf

(* Reading: what is read is the message of the round the party is in; the  *)
(* rest of the wire starts with the next round.                            *)
LEMMA ReadHolds ==
    ASSUME PlacesInv, NEW c, Follows(c), NEW p \in Parties,
           at[p] = "read", Readable(NextOf(p), p)
    PROVE  Incoming(NextOf(p), p) = Message(c, NextOf(p), RoundOf(p))
<1> DEFINE q == NextOf(p)
           w == wire[<<q, p>>]
           S == {Message(c, q, n) : n \in Nat}
<1>1. WireHolds(c, p) /\ ~Ended(p)
  BY DEF Follows, Ended
<1>2. w # << >> /\ w \in Seq(S) /\ \A i \in 1..Len(w) : w[i] = Message(c, q, RoundOf(p) + i - 1)
  BY <1>1 DEF WireHolds, Readable
<1>3. Incoming(q, p) = Head(w)
  BY DEF Incoming
<1> HIDE DEF w, S
<1>4. Len(w) \in Nat /\ 1 \in 1..Len(w) /\ Head(w) = w[1]
  BY <1>2
<1>5. RoundOf(p) + 1 - 1 = RoundOf(p)
  BY RoundTypes
<1>6. w[1] = Message(c, q, RoundOf(p) + 1 - 1)
  BY <1>2, <1>4
<1> QED BY <1>3, <1>4, <1>5, <1>6

(* Who reads a message takes the first round off its wire, and goes on to  *)
(* the next.                                                               *)
LEMMA ReadStep ==
    ASSUME PlacesInv, NEW c, Follows(c), NEW p \in Parties, UNCHANGED <<seed, random>>,
           at[p] = "read", Readable(NextOf(p), p), Read(NextOf(p), p),
           at' = [at EXCEPT ![p] = "send"], RoundOf(p)' = RoundOf(p) + 1,
           \A s \in Parties \ {p} : UNCHANGED <<hash[s], phase[s]>>
    PROVE  \A s \in Parties : WireHolds(c, s)'
<1> DEFINE q == NextOf(p)
           r == RoundOf(p)
           w == wire[<<q, p>>]
           S == {Message(c, q, n) : n \in Nat}
<1>0. r \in Nat
  BY RoundTypes
<1>1. q \in Parties /\ q # p /\ <<q, p>> \in Links /\ DOMAIN wire = Links
  BY RingFacts DEF PlacesInv, Links
<1>2. wire' = [wire EXCEPT ![<<q, p>>] = Tail(@)]
  BY DEF Read
<1>3. WireHolds(c, p) /\ ~Ended(p)
  BY DEF Follows, Ended
<1>4. /\ w # << >> /\ w \in Seq(S)
      /\ \A i \in 1..Len(w) : w[i] = Message(c, q, r + i - 1)
      /\ at[q] # "aborted" => Len(w) = SentBy(q) - r
  BY <1>3 DEF WireHolds, Readable
<1>5. w' = Tail(w)
  BY <1>1, <1>2
<1>6. /\ at'[p] = "send" /\ \A s \in Parties \ {p} : at'[s] = at[s]
  BY DEF PlacesInv
<1>7. SentBy(p) = r + 1 /\ SentBy(p)' = r + 1
  <2>1. SentBy(p) = RoundOf(p) + 1
    BY DEF SentBy
  <2>2. SentBy(p)' = RoundOf(p)' + 0
    BY <1>6 DEF SentBy
  <2> HIDE DEF r
  <2>3. RoundOf(p)' = r + 1
    BY DEF r
  <2> QED BY <1>0, <2>1, <2>2, <2>3 DEF r
<1>8. \A s \in Parties \ {p} : SentBy(s)' = SentBy(s) /\ RoundOf(s)' = RoundOf(s) /\ Ended(s)' = Ended(s)
  BY <1>6 DEF SentBy, RoundOf, Ended
<1>9. WireHolds(c, p)'
  <2>1. \A n : Message(c, q, n)' = Message(c, q, n)
    BY CourseStays
  <2>2. {Message(c, q, n) : n \in Nat}' = S
    BY <2>1
  <2> HIDE DEF S, w
  <2>3. Len(w) \in Nat \ {0} /\ Tail(w) \in Seq(S) /\ Len(Tail(w)) = Len(w) - 1
        /\ \A i \in 1..(Len(w) - 1) : Tail(w)[i] = w[i + 1]
    BY <1>4
  <2>4. ASSUME NEW i \in 1..Len(w') PROVE w'[i] = Message(c, q, RoundOf(p) + i - 1)'
    <3>1. i \in 1..(Len(w) - 1) /\ i + 1 \in 1..Len(w) /\ w'[i] = w[i + 1]
      BY <1>5, <2>3
    <3>2. w[i + 1] = Message(c, q, r + (i + 1) - 1)
      BY <1>4, <3>1
    <3>3. r + (i + 1) - 1 = RoundOf(p)' + i - 1
      <4> HIDE DEF r
      <4>1. RoundOf(p)' = r + 1
        BY DEF r
      <4> QED BY <1>0, <4>1
    <3>4. Message(c, q, RoundOf(p)' + i - 1) = Message(c, q, RoundOf(p) + i - 1)'
      BY DEF Message, SentIn, ProductsOf, LocalsOf
    <3> QED BY <3>1, <3>2, <3>3, <3>4
  <2>5. (at[q] # "aborted")' => Len(w') = SentBy(q)' - RoundOf(p)'
    <3> SUFFICES ASSUME at'[q] # "aborted" PROVE Len(w') = SentBy(q)' - RoundOf(p)'
      OBVIOUS
    <3>1. at[q] # "aborted" /\ SentBy(q)' = SentBy(q) /\ q \in Parties \ {p}
      BY <1>1, <1>6, <1>8
    <3>2. SentBy(q) \in Int
      <4>1. RoundOf(q) \in Nat
        BY <1>1, RoundTypes
      <4> QED BY <4>1 DEF SentBy
    <3>3. Len(w) = SentBy(q) - r /\ RoundOf(p)' = r + 1
      BY <1>4, <3>1
    <3> HIDE DEF r
    <3> QED BY <1>0, <1>5, <2>3, <3>1, <3>2, <3>3
  <2>6. w' \in Seq(S)
    BY <1>5, <2>3
  <2> QED BY <1>6, <2>2, <2>4, <2>5, <2>6 DEF WireHolds, w, Ended
<1>10. ASSUME NEW s \in Parties \ {p} PROVE WireHolds(c, s)'
  <2>1. NextOf(s) \in Parties
    BY RingFacts
  <2>2. wire'[<<NextOf(s), s>>] = wire[<<NextOf(s), s>>]
    BY <1>2
  <2>3. SentBy(NextOf(s))' = SentBy(NextOf(s)) /\ (at'[NextOf(s)] # "aborted" => at[NextOf(s)] # "aborted")
    <3>1. CASE NextOf(s) = p
      BY <1>7, <3>1
    <3>2. CASE NextOf(s) # p
      BY <1>6, <1>8, <2>1, <3>2
    <3> QED BY <3>1, <3>2
  <2>4. WireHolds(c, s)
    BY DEF Follows
  <2> QED BY <1>8, <2>2, <2>3, <2>4, WireKept
<1> QED BY <1>9, <1>10

(* A party that leaves: its wire is gone, the others' are as they were.    *)
LEMMA LeaveStep ==
    ASSUME PlacesInv, NEW c, Follows(c), NEW p \in Parties, UNCHANGED <<seed, random>>, Leave(p),
           NEW how \in {"done", "aborted"}, at' = [at EXCEPT ![p] = how],
           how = "done" => at[p] # "aborted" /\ SentBy(p)' = SentBy(p),
           \A s \in Parties \ {p} : UNCHANGED <<hash[s], phase[s]>>
    PROVE  \A s \in Parties : WireHolds(c, s)'
<1>1. wire' = [l \in Links |-> IF l[2] = p THEN << >> ELSE wire[l]]
  BY DEF Leave
<1>2. at'[p] = how /\ \A s \in Parties \ {p} : at'[s] = at[s]
  BY DEF PlacesInv
<1>3. WireHolds(c, p)'
  <2>1. NextOf(p) \in Parties /\ NextOf(p) # p /\ <<NextOf(p), p>> \in Links
    BY RingFacts DEF Links
  <2>2. wire'[<<NextOf(p), p>>] = << >>
    BY <1>1, <2>1
  <2>3. Ended(p)'
    BY <1>2 DEF Ended
  <2> QED BY <2>2, <2>3 DEF WireHolds
<1>4. ASSUME NEW s \in Parties \ {p} PROVE WireHolds(c, s)'
  <2>1. NextOf(s) \in Parties /\ NextOf(s) # s /\ <<NextOf(s), s>> \in Links
    BY RingFacts DEF Links
  <2>2. wire'[<<NextOf(s), s>>] = wire[<<NextOf(s), s>>]
    BY <1>1, <2>1
  <2>3. Ended(s)' = Ended(s)
    BY <1>2 DEF Ended
  <2>4. ASSUME at'[NextOf(s)] # "aborted"
        PROVE  at[NextOf(s)] # "aborted" /\ SentBy(NextOf(s))' = SentBy(NextOf(s))
    <3>1. CASE NextOf(s) = p
      BY <1>2, <2>4, <3>1
    <3>2. CASE NextOf(s) # p
      BY <1>2, <2>1, <2>4, <3>2 DEF SentBy, RoundOf
    <3> QED BY <3>1, <3>2
  <2>5. WireHolds(c, s)
    BY DEF Follows
  <2> QED BY <2>2, <2>3, <2>4, <2>5, WireKept
<1> QED BY <1>3, <1>4

(* Leaving changes no other party's place.                                 *)
LEMMA LeavePlaces ==
    ASSUME PlacesInv, NEW p \in Parties, Leave(p), ~Ended(p),
           NEW how \in {"done", "aborted"}, at' = [at EXCEPT ![p] = how]
    PROVE  /\ gone' = {s \in Parties : Ended(s)'} /\ DOMAIN wire' = Links
           /\ transport' = "channel" /\ at' \in [Parties -> {"send", "read", "done", "aborted"}]
<1>1. at'[p] = how /\ \A s \in Parties \ {p} : at'[s] = at[s]
  BY DEF PlacesInv
<1>2. gone = {s \in Parties : Ended(s)} /\ gone' = gone \cup {p}
  BY DEF PlacesInv, Leave
<1>3. Ended(p)' /\ \A s \in Parties \ {p} : Ended(s)' <=> Ended(s)
  BY <1>1 DEF Ended
<1>4. \A s : s \in gone' <=> s \in Parties /\ Ended(s)'
  BY <1>2, <1>3
<1>5. gone' = {s \in Parties : Ended(s)'}
  BY <1>2, <1>4
<1> QED BY <1>5 DEF PlacesInv, Leave

(* Taking the second components ends a round of the course; at the end of  *)
(* a hash its value is the course's, and the next hash begins with it.     *)
LEMMA TakeStep ==
    ASSUME IInv, NEW p \in Parties, TakeSeconds(p)
    PROVE  IInv'
<1> DEFINE h == hash[p]
           f == phase[p]
           r == RoundOf(p)
           q == NextOf(p)
           t == WithComponent(tape[p], Ands(p), 2, Incoming(NextOf(p), p).words)
           value == AfterHash(x[p], Extract(Locals(p, Sched.depth, t)), hash[p])
           GoesOn == /\ tape' = [tape EXCEPT ![p] = t]
                     /\ phase' = [phase EXCEPT ![p] = @ + 1]
                     /\ at' = [at EXCEPT ![p] = "send"]
                     /\ Read(NextOf(p), p)
                     /\ UNCHANGED <<hash, x>>
           Hashed == /\ x' = [x EXCEPT ![p] = value]
                     /\ phase' = [phase EXCEPT ![p] = 0]
                     /\ hash' = [hash EXCEPT ![p] = @ + 1]
           Begins == /\ tape' = [tape EXCEPT ![p] = Begun(p, value, hash[p] + 1)]
                     /\ at' = [at EXCEPT ![p] = "send"]
                     /\ Read(NextOf(p), p)
           Returns == /\ tape' = [tape EXCEPT ![p] = << >>]
                      /\ at' = [at EXCEPT ![p] = "done"]
                      /\ Leave(p)
<1>1. PICK c : Follows(c)
  BY DEF IInv, CourseInv
<1>2. /\ at[p] = "read" /\ Readable(q, p) /\ UNCHANGED <<seed, random, draws>>
      /\ \/ f + 1 < Depth /\ GoesOn
         \/ f + 1 = Depth /\ h < Hashes /\ Hashed /\ Begins
         \/ f + 1 = Depth /\ h = Hashes /\ Hashed /\ Returns
  BY DEF TakeSeconds, Depth
<1>3. PlacesInv /\ q \in Parties /\ ~Ended(p)
  BY <1>2, RingFacts DEF IInv, Ended
<1>4. /\ h \in 1..Hashes /\ f \in 0..(Depth - 1) /\ r \in 0..(LastRound - 1) /\ r \in Nat
      /\ HashIn(r) = h /\ PhaseIn(r) = f
  <2>1. h \in 1..Hashes /\ f \in 0..(Depth - 1) /\ h \in Nat \ {0}
    BY <1>2, <1>3, SizeFacts DEF PlacesInv
  <2>2. r = Round(h, f)
    BY DEF RoundOf
  <2> HIDE DEF h, f, r
  <2> QED BY <2>1, <2>2, RoundBounds, RoundParts
<1>5. /\ x[p] = c[r].x[p] /\ draws[p] = c[r].draws + Len(Sched.ands[f])
      /\ tape[p] = FirstsIn(p, c[r].tape[p], c[r].draws, h, f)
  BY <1>1, <1>2 DEF Follows, OnCourse
<1>6. Incoming(q, p).words = SentIn(c[r], q, h, f)
  <2>1. Incoming(q, p) = Message(c, q, r)
    BY <1>1, <1>2, <1>3, ReadHolds
  <2> QED BY <1>4, <2>1 DEF Message
<1>7. t = TapeIn(c[r], p, h, f)
  BY <1>5, <1>6 DEF TapeIn, Ands
<1>8. value = ValueIn(c[r], p, h, f)
  <2>1. Locals(p, Sched.depth, t) = LocalGates(p, Sched.locals[Depth], TapeIn(c[r], p, h, f), All(h))
    BY <1>7 DEF Locals, Depth
  <2> QED BY <1>5, <2>1 DEF ValueIn
<1>9. c[r + 1] = Together(c[r], h, f)
  BY <1>1, <1>4 DEF Follows, Course
<1> HIDE DEF t, value
<1>10. Course(c, LastRound)'
  BY <1>1, <1>2, CourseStays DEF Follows, LastRound, Round
<1>11. (\A s \in Parties \ {p} : UNCHANGED <<at[s], hash[s], phase[s], x[s], tape[s], draws[s]>>)
       => \A s \in Parties \ {p} : OnCourse(c, s)'
  BY <1>1, <1>2, CourseKept DEF Follows
<1>12. CASE f + 1 < Depth /\ GoesOn
  <2>1. /\ tape'[p] = t /\ phase'[p] = f + 1 /\ at'[p] = "send" /\ hash'[p] = h /\ x'[p] = x[p]
        /\ \A s \in Parties \ {p} : UNCHANGED <<at[s], hash[s], phase[s], x[s], tape[s], draws[s]>>
    BY <1>2, <1>3, <1>12 DEF PlacesInv
  <2>2. RoundOf(p)' = r + 1
    BY <1>4, <1>12, <2>1, RoundNext, SizeFacts DEF RoundOf
  <2>3. /\ c[r + 1].x = c[r].x /\ c[r + 1].draws = c[r].draws + Len(Sched.ands[f])
        /\ c[r + 1].tape[p] = TapeIn(c[r], p, h, f)
    BY <1>9, <1>12 DEF Together
  <2>4. OnCourse(c, p)'
    <3>1. x'[p] = c[RoundOf(p)'].x[p] /\ draws'[p] = c[RoundOf(p)'].draws /\ tape'[p] = c[RoundOf(p)'].tape[p]
      BY <1>2, <1>5, <1>7, <2>1, <2>2, <2>3
    <3> QED BY <2>1, <3>1 DEF OnCourse
  <2>5. \A s \in Parties : WireHolds(c, s)'
    BY <1>1, <1>2, <1>3, <1>12, <2>1, <2>2, ReadStep
  <2>6. PlacesInv'
    <3>1. /\ UNCHANGED <<transport, gone>> /\ DOMAIN wire' = Links
          /\ phase' \in [Parties -> 0..(Depth - 1)]
          /\ at' \in [Parties -> {"send", "read", "done", "aborted"}]
      <4>1. f + 1 \in 0..(Depth - 1)
        BY <1>4, <1>12, SizeFacts
      <4>2. phase' = [phase EXCEPT ![p] = f + 1] /\ at' = [at EXCEPT ![p] = "send"]
        BY <1>12
      <4> HIDE DEF f
      <4> QED BY <1>3, <1>12, <4>1, <4>2 DEF PlacesInv, Read
    <3>2. \A s \in Parties : Ended(s)' <=> Ended(s)
      BY <1>3, <2>1 DEF Ended
    <3>3. \A s \in Parties : at'[s] \in {"send", "read"} => hash'[s] \in 1..Hashes
      BY <1>3, <1>4, <2>1 DEF PlacesInv
    <3>4. \A s \in Parties : at'[s] = "done" => hash'[s] = Hashes + 1 /\ phase'[s] = 0
      BY <1>3, <2>1 DEF PlacesInv
    <3>5. gone' = {s \in Parties : Ended(s)'}
      BY <1>3, <3>1, <3>2 DEF PlacesInv
    <3>6. /\ hash' \in [Parties -> 1..(Hashes + 1)] /\ x' = [s \in Parties |-> x'[s]]
          /\ draws' = [s \in Parties |-> draws'[s]] /\ tape' = [s \in Parties |-> tape'[s]]
      BY <1>2, <1>3, <1>12 DEF PlacesInv
    <3> QED BY <1>3, <3>1, <3>3, <3>4, <3>5, <3>6 DEF PlacesInv
  <2> QED BY <1>10, <1>11, <2>1, <2>4, <2>5, <2>6 DEF IInv, CourseInv, Follows
<1>13. ASSUME f + 1 = Depth, Hashed
       PROVE  /\ x'[p] = c[r + 1].x[p] /\ phase'[p] = 0 /\ hash'[p] = h + 1 /\ RoundOf(p)' = r + 1
              /\ draws'[p] = c[r + 1].draws
              /\ c[r + 1].tape[p] = Begun(p, value, h + 1)
              /\ \A s \in Parties \ {p} : UNCHANGED <<hash[s], phase[s], x[s], draws[s]>>
              /\ phase' \in [Parties -> 0..(Depth - 1)]
              /\ x' = [s \in Parties |-> x'[s]] /\ draws' = [s \in Parties |-> draws'[s]]
              /\ hash' \in [Parties -> 1..(Hashes + 1)]
  <2>1. /\ x'[p] = value /\ phase'[p] = 0 /\ hash'[p] = h + 1
        /\ \A s \in Parties \ {p} : UNCHANGED <<hash[s], phase[s], x[s], draws[s]>>
        /\ x' = [s \in Parties |-> x'[s]] /\ draws' = [s \in Parties |-> draws'[s]]
    BY <1>2, <1>3, <1>13 DEF PlacesInv
  <2>2. /\ phase' \in [Parties -> 0..(Depth - 1)] /\ hash' \in [Parties -> 1..(Hashes + 1)]
    BY <1>3, <1>4, <1>13, SizeFacts DEF PlacesInv
  <2>3. RoundOf(p)' = r + 1
    BY <1>4, <1>13, <2>1, RoundNext, SizeFacts DEF RoundOf
  <2>4. /\ c[r + 1].x[p] = ValueIn(c[r], p, h, f)
        /\ c[r + 1].draws = c[r].draws + Len(Sched.ands[f])
        /\ c[r + 1].tape[p] = Begun(p, ValueIn(c[r], p, h, f), h + 1)
    <3>1. ~(f + 1 < Depth)
      BY <1>4, <1>13, SizeFacts
    <3> QED BY <1>9, <3>1 DEF Together
  <2> QED BY <1>2, <1>5, <1>8, <2>1, <2>2, <2>3, <2>4
<1>14. CASE f + 1 = Depth /\ h < Hashes /\ Hashed /\ Begins
  <2>1. /\ tape'[p] = Begun(p, value, h + 1) /\ at'[p] = "send"
        /\ \A s \in Parties \ {p} : UNCHANGED <<at[s], tape[s]>>
        /\ at' \in [Parties -> {"send", "read", "done", "aborted"}]
        /\ tape' = [s \in Parties |-> tape'[s]]
    BY <1>3, <1>14 DEF PlacesInv
  <2>2. OnCourse(c, p)'
    <3>1. x'[p] = c[RoundOf(p)'].x[p] /\ draws'[p] = c[RoundOf(p)'].draws /\ tape'[p] = c[RoundOf(p)'].tape[p]
      BY <1>13, <1>14, <2>1
    <3> QED BY <2>1, <3>1 DEF OnCourse
  <2>3. \A s \in Parties : WireHolds(c, s)'
    BY <1>1, <1>2, <1>3, <1>13, <1>14, ReadStep
  <2>4. PlacesInv'
    <3>1. /\ UNCHANGED <<transport, gone>> /\ DOMAIN wire' = Links
      BY <1>3, <1>14 DEF PlacesInv, Read
    <3>2. \A s \in Parties : Ended(s)' <=> Ended(s)
      BY <1>3, <2>1 DEF Ended
    <3>3. \A s \in Parties : at'[s] \in {"send", "read"} => hash'[s] \in 1..Hashes
      <4>1. hash'[p] \in 1..Hashes
        BY <1>4, <1>13, <1>14, SizeFacts
      <4>2. \A s \in Parties \ {p} : at'[s] = at[s] /\ hash'[s] = hash[s]
        BY <1>13, <1>14, <2>1
      <4> QED BY <1>3, <4>1, <4>2 DEF PlacesInv
    <3>4. \A s \in Parties : at'[s] = "done" => hash'[s] = Hashes + 1 /\ phase'[s] = 0
      BY <1>3, <1>13, <1>14, <2>1 DEF PlacesInv
    <3>5. gone' = {s \in Parties : Ended(s)'}
      BY <1>3, <3>1, <3>2 DEF PlacesInv
    <3> QED BY <1>3, <1>13, <1>14, <2>1, <3>1, <3>3, <3>4, <3>5 DEF PlacesInv
  <2> QED BY <1>10, <1>11, <1>13, <1>14, <2>1, <2>2, <2>3, <2>4 DEF IInv, CourseInv, Follows
<1>15. CASE f + 1 = Depth /\ h = Hashes /\ Hashed /\ Returns
  <2>1. /\ at'[p] = "done" /\ \A s \in Parties \ {p} : UNCHANGED <<at[s], tape[s]>>
        /\ tape' = [s \in Parties |-> tape'[s]]
    BY <1>3, <1>15 DEF PlacesInv
  <2>2. OnCourse(c, p)'
    <3>1. x'[p] = c[RoundOf(p)'].x[p] /\ draws'[p] = c[RoundOf(p)'].draws
      BY <1>13, <1>15
    <3> QED BY <2>1, <3>1 DEF OnCourse
  <2>3. SentBy(p)' = SentBy(p)
    <3>1. SentBy(p) = r + 1
      BY <1>2 DEF SentBy
    <3>2. SentBy(p)' = RoundOf(p)' + 0
      BY <2>1 DEF SentBy
    <3>3. RoundOf(p)' = r + 1
      BY <1>13, <1>15
    <3> HIDE DEF r
    <3> QED BY <1>4, <3>1, <3>2, <3>3
  <2>4. \A s \in Parties : WireHolds(c, s)'
    BY <1>1, <1>2, <1>3, <1>13, <1>15, <2>3, LeaveStep
  <2>5. PlacesInv'
    <3>1. /\ gone' = {s \in Parties : Ended(s)'} /\ DOMAIN wire' = Links
          /\ transport' = "channel" /\ at' \in [Parties -> {"send", "read", "done", "aborted"}]
      BY <1>3, <1>15, LeavePlaces
    <3>2. \A s \in Parties : at'[s] \in {"send", "read"} => hash'[s] \in 1..Hashes
      BY <1>3, <1>13, <1>15, <2>1 DEF PlacesInv
    <3>3. \A s \in Parties : at'[s] = "done" => hash'[s] = Hashes + 1 /\ phase'[s] = 0
      BY <1>3, <1>13, <1>15, <2>1 DEF PlacesInv
    <3> QED BY <1>13, <1>15, <2>1, <3>1, <3>2, <3>3 DEF PlacesInv
  <2> QED BY <1>10, <1>11, <1>13, <1>15, <2>1, <2>2, <2>4, <2>5 DEF IInv, CourseInv, Follows
<1> QED BY <1>2, <1>12, <1>14, <1>15

(* A party that dies, or whose neighbour has gone.                         *)
LEMMA AbortStep ==
    ASSUME IInv, NEW p \in Parties, ~Ended(p), Aborts(p)
    PROVE  IInv'
<1>1. PICK c : Follows(c)
  BY DEF IInv, CourseInv
<1>2. /\ PlacesInv /\ Leave(p) /\ at' = [at EXCEPT ![p] = "aborted"] /\ tape' = [tape EXCEPT ![p] = << >>]
      /\ UNCHANGED <<seed, random, hash, phase, x, draws>>
  BY DEF IInv, Aborts
<1>3. /\ at'[p] = "aborted" /\ \A s \in Parties \ {p} : UNCHANGED <<at[s], tape[s]>>
      /\ tape' = [s \in Parties |-> tape'[s]]
  BY <1>2 DEF PlacesInv
<1>4. \A s \in Parties : OnCourse(c, s)'
  <2>1. OnCourse(c, p)'
    BY <1>3 DEF OnCourse
  <2>2. \A s \in Parties \ {p} : OnCourse(c, s)'
    BY <1>1, <1>2, <1>3, CourseKept DEF Follows
  <2> QED BY <2>1, <2>2
<1>5. \A s \in Parties : WireHolds(c, s)'
  BY <1>1, <1>2, LeaveStep
<1>6. PlacesInv'
  <2>1. /\ gone' = {s \in Parties : Ended(s)'} /\ DOMAIN wire' = Links
        /\ transport' = "channel" /\ at' \in [Parties -> {"send", "read", "done", "aborted"}]
    BY <1>2, LeavePlaces
  <2>2. \A s \in Parties : at'[s] \in {"send", "read"} => hash'[s] \in 1..Hashes
    BY <1>2, <1>3 DEF PlacesInv
  <2>3. \A s \in Parties : at'[s] = "done" => hash'[s] = Hashes + 1 /\ phase'[s] = 0
    BY <1>2, <1>3 DEF PlacesInv
  <2> QED BY <1>2, <1>3, <2>1, <2>2, <2>3 DEF PlacesInv
<1>7. Course(c, LastRound)'
  BY <1>1, <1>2, CourseStays DEF Follows, LastRound, Round
<1> QED BY <1>4, <1>5, <1>6, <1>7 DEF IInv, CourseInv, Follows

(* The adapter's steps touch no party and no wire.                         *)
LEMMA IdleStep ==
    ASSUME IInv, UNCHANGED <<netVars, seed, random, party>>
    PROVE  IInv'
<1>1. PICK c : Follows(c)
  BY DEF IInv, CourseInv
<1>2. /\ UNCHANGED <<transport, queued, wire, gone, reset, seed, random>>
      /\ UNCHANGED <<at, hash, phase, x, tape, draws>>
  BY DEF netVars, party
<1>3. PlacesInv'
  BY <1>2 DEF IInv, PlacesInv, Ended
<1>4. ASSUME NEW s \in Parties PROVE OnCourse(c, s)' /\ WireHolds(c, s)'
  <2>1. Ended(s)' = Ended(s) /\ SentBy(NextOf(s))' = SentBy(NextOf(s))
    BY <1>2 DEF Ended, SentBy, RoundOf
  <2>2. OnCourse(c, s) /\ WireHolds(c, s)
    BY <1>1 DEF Follows
  <2>3. OnCourse(c, s)'
    BY <1>2, <2>2, CourseKept
  <2>4. WireHolds(c, s)'
    BY <1>2, <2>1, <2>2, WireKept
  <2> QED BY <2>3, <2>4
<1>5. Course(c, LastRound)'
  BY <1>1, <1>2, CourseStays DEF Follows, LastRound, Round
<1> QED BY <1>3, <1>4, <1>5 DEF IInv, CourseInv, Follows

(* Publishing moves no party.                                              *)
LEMMA PublishIdle == Publish => UNCHANGED <<netVars, seed, random, party, deaths, right>>
BY DEF Publish, Asked, Used

(* Releasing moves no party.                                               *)
LEMMA ReleaseIdle == Release => UNCHANGED <<netVars, seed, random, party, deaths, right>>
BY DEF Release, Asked, Used

(* Every step keeps the parties on the course.                             *)
LEMMA StepIInv == IInv /\ [Next]_vars => IInv'
<1> SUFFICES ASSUME IInv, [Next]_vars PROVE IInv'
  OBVIOUS
<1>1. CASE UNCHANGED vars
  BY <1>1, IdleStep DEF vars
<1>2. CASE Publish \/ Release
  BY <1>2, PublishIdle, ReleaseIdle, IdleStep
<1>3. ASSUME NEW p \in Parties, Step(p) \/ Dies(p) PROVE IInv'
  <2>1. CASE SendProducts(p)
    BY <2>1, SendStep
  <2>2. CASE TakeSeconds(p)
    BY <2>2, TakeStep
  <2>3. CASE Cascade(p) \/ Dies(p)
    <3>1. Aborts(p) /\ ~Ended(p)
      BY <2>3 DEF Cascade, Dies, Ended
    <3> QED BY <3>1, AbortStep
  <2> QED BY <1>3, <2>1, <2>2, <2>3 DEF Step
<1> QED BY <1>1, <1>2, <1>3 DEF Next

(* The safety part of the specification.                                   *)
LEMMA SpecSafety == Spec => Init /\ [][Next]_vars
BY PTL DEF Spec

(* The inductive invariant: every party that has not aborted is where the  *)
(* undisturbed course is in its round, and the wire it reads holds the     *)
(* messages from that round on; for every circuit, block, randomness and   *)
(* order of steps (eval_circuit, engine.rs:176; prepare_first_block).      *)
THEOREM CourseFollowed == Spec => []IInv
<1> QED BY InitIInv, StepIInv, SpecSafety, PTL

(* What a party reads next is of the round it is in, however far its       *)
(* neighbour has run ahead: nothing in a message says which round it is of *)
(* (reshare_prev, net.rs; eval_circuit, engine.rs:176).                    *)
THEOREM MessagesInStep == Spec => []InStep
<1>1. IInv => InStep
  <2> SUFFICES ASSUME IInv, NEW p \in Parties, at[p] = "read", Readable(NextOf(p), p)
               PROVE  Incoming(NextOf(p), p).tag = Tag(p)
    BY DEF InStep
  <2>1. PICK c : Follows(c)
    BY DEF IInv, CourseInv
  <2>2. Incoming(NextOf(p), p) = Message(c, NextOf(p), RoundOf(p))
    BY <2>1, ReadHolds DEF IInv
  <2>3. hash[p] \in Nat \ {0} /\ phase[p] \in 0..(Depth - 1)
    BY SizeFacts DEF IInv, PlacesInv
  <2>4. HashIn(RoundOf(p)) = hash[p] /\ PhaseIn(RoundOf(p)) = phase[p]
    BY <2>3, RoundParts DEF RoundOf
  <2> QED BY <2>2, <2>4 DEF Message, Tag
<1> QED BY <1>1, CourseFollowed, PTL

(* On the course two parties in the same place have the same there.        *)
LEMMA InvLockstep == IInv => Lockstep
<1> SUFFICES ASSUME IInv, NEW p \in Parties, hash[p] = hash[NextOf(p)],
                    phase[p] = phase[NextOf(p)], at[p] = at[NextOf(p)], at[p] # "aborted"
             PROVE  /\ draws[p] = draws[NextOf(p)]
                    /\ \A m \in Entries : x[p][m][2] = x[NextOf(p)][m][1]
  BY DEF Lockstep
<1> DEFINE q == NextOf(p)
           r == RoundOf(p)
<1>1. PICK c : Follows(c)
  BY DEF IInv, CourseInv
<1>2. q \in Parties /\ RoundOf(q) = r
  BY RingFacts DEF RoundOf
<1>3. OnCourse(c, p) /\ OnCourse(c, q)
  BY <1>1, <1>2 DEF Follows
<1>4. at[p] \in {"send", "read", "done"}
  BY DEF IInv, PlacesInv
<1>5. draws[p] = draws[q]
  BY <1>2, <1>3, <1>4 DEF OnCourse
<1>6. x[p] = c[r].x[p] /\ x[q] = c[r].x[q]
  BY <1>2, <1>3 DEF OnCourse
<1>7. r \in 0..LastRound
  <2>1. CASE at[p] = "done"
    <3>1. r = LastRound
      BY <2>1 DEF IInv, PlacesInv, RoundOf, LastRound
    <3> QED BY <3>1, RoundBounds
  <2>2. CASE at[p] # "done"
    <3>1. hash[p] \in 1..Hashes /\ phase[p] \in 0..(Depth - 1)
      BY <1>4, <2>2 DEF IInv, PlacesInv
    <3>2. r \in 0..(LastRound - 1)
      BY <3>1, RoundBounds DEF RoundOf
    <3> HIDE DEF r
    <3> QED BY <3>2, RoundBounds
  <2> QED BY <2>1, <2>2
<1>8. Fits(c[r])
  BY <1>1, <1>7, CourseFits, RoundBounds DEF Follows
<1> QED BY <1>5, <1>6, <1>8 DEF Fits, Fitting

(* Parties in the same place have drawn as many zero shares, and their     *)
(* copies of the component they share are the same: "All parties must draw *)
(* in lockstep" (rep3.rs:54), for every schedule of the threads.           *)
THEOREM DrawnInLockstep == Spec => []Lockstep
BY InvLockstep, CourseFollowed, PTL

-----------------------------------------------------------------------------
(* A hash of all three is the hash in the clear, lane by lane. *)

(* The word that the parties share in lane l, what hash h makes of it      *)
(* before it hashes, and tapes that have it right before round f.          *)
WordIn(v, l) == {m \in Entries : Has(v, m, l)}
Into(v, h, l) == WordIn(v, l) ## {FlipBit(h)}
TapesRight(t, v, h, f) ==
    \A l \in 0..(LanesIn(h) - 1) :
        RightOn(t, Done(HashCircuit, Avail, f), l, HashTable(Into(v, h, l)))

(* The bit that a hash flips is an entry, and its lanes fit into words.    *)
LEMMA HashPlaces ==
    ASSUME NEW h \in 1..(Hashes + 1)
    PROVE  /\ LanesIn(h) \in Nat \ {0} /\ \A l \in 0..(LanesIn(h) - 1) : l \in All(h)
           /\ h <= Hashes => FlipBit(h) = Width - h /\ FlipBit(h) \in Entries
<1>1. /\ Width \in Nat /\ H \in 1..Width /\ Width <= ValueBits /\ LaneWidth \in Nat \ {0}
      /\ Hashes = Width /\ Edges = Width - H /\ h \in Nat
      /\ ValueBits \in Nat \ {0} /\ TopBit = 2 * ValueBits /\ Entries = 0..(ValueBits - 1)
  BY ChainSizes, SizeFacts, HashOffsets DEF ValueBits, TopBit, Edges
<1>2. LanesIn(h) \in Nat \ {0}
  <2>1. CASE InWalk(h)
    BY <2>1 DEF LanesIn
  <2>2. CASE ~InWalk(h)
    <3>1. h - Edges - 1 \in 0..TopBit
      BY <1>1, <2>2 DEF InWalk
    <3> QED BY <2>2, <3>1, Doubles DEF LanesIn
  <2> QED BY <2>1, <2>2
<1>3. ASSUME NEW l \in 0..(LanesIn(h) - 1) PROVE l \in All(h)
  <2> DEFINE n == LanesIn(h)
             W == LaneWidth
             q == (n + W - 1) \div W
             r == (n + W - 1) % W
  <2>1. n \in Nat \ {0} /\ W \in Nat \ {0} /\ n + W - 1 \in Nat
    BY <1>1, <1>2
  <2>2. All(h) = 0..(W * q - 1)
    BY DEF All, Lanes
  <2> HIDE DEF n, W
  <2>3. q \in Nat /\ r \in 0..(W - 1) /\ n + W - 1 = W * q + r
    BY <2>1, Z3
  <2> HIDE DEF q, r
  <2>4. W * q \in Int
    BY <2>1, <2>3
  <2>5. n <= W * q
    BY <2>1, <2>3, <2>4
  <2>6. l \in 0..(n - 1)
    BY DEF n
  <2> QED BY <2>1, <2>2, <2>4, <2>5, <2>6
<1>4. ASSUME h <= Hashes PROVE FlipBit(h) = Width - h /\ FlipBit(h) \in Entries
  <2>1. FlipBit(h) = Width - h
    BY <1>1 DEF FlipBit, WalkBit
  <2> QED BY <1>1, <1>4, <2>1
<1> QED BY <1>2, <1>3, <1>4

(* What a public constant is in a lane.                                    *)
LEMMA PublicHas ==
    ASSUME NEW a, NEW l
    PROVE  l \in (PublicPair(0, a)[1] ## PublicPair(1, a)[1] ## PublicPair(2, a)[1]) <=> l \in a
<1>1. PublicPair(0, a)[1] = a /\ PublicPair(1, a)[1] = {} /\ PublicPair(2, a)[1] = {}
  BY DEF PublicPair
<1>2. l \notin {}
  OBVIOUS
<1> QED BY <1>1, <1>2, InSymDiff

AllBegun(v, h) == [p \in Parties |-> Begun(p, v[p], h)]

(* build_tape (sha256.rs): the parties' tapes start out right.             *)
LEMMA BegunRight ==
    ASSUME NEW v, \A p \in Parties : Tape(v[p], Entries), NEW h \in 1..Hashes
    PROVE  TapesRight(AllBegun(v, h), v, h, 0)
<1> DEFINE t == [p \in Parties |-> Begun(p, v[p], h)]
           all == All(h)
           fl == [p \in Parties |-> Flipped(p, v[p], h)]
<1> SUFFICES TapesRight(t, v, h, 0)
  BY Zenon DEF AllBegun
<1> HIDE DEF t
<1>1. SUFFICES ASSUME NEW l \in 0..(LanesIn(h) - 1), NEW w \in Done(HashCircuit, Avail, 0)
               PROVE  Has(t, w, l) <=> 0 \in HashTable(Into(v, h, l))[w]
  BY Zenon DEF TapesRight, RightOn
<1> USE DEF t
<1>2. l \in all /\ FlipBit(h) \in Entries /\ h <= Hashes
  <2>1. h \in 1..(Hashes + 1) /\ h <= Hashes
    BY SizeFacts
  <2> QED BY <2>1, HashPlaces
<1>3. 0 \in Parties /\ 1 \in Parties /\ 2 \in Parties
  BY DEF Parties
<1> DEFINE b == FlipBit(h)
           u == Into(v, h, l)
<1>4. u \in SUBSET Entries /\ \A m \in Entries : m \in u <=> (m \in WordIn(v, l) <=> m # b)
  <2>1. \A m : m \in u <=> ((m \in WordIn(v, l) /\ m \notin {b}) \/ (m \notin WordIn(v, l) /\ m \in {b}))
    BY InSymDiff DEF Into
  <2> QED BY <1>2, <2>1 DEF WordIn
<1>5. ASSUME NEW m \in Entries PROVE Has(fl, m, l) <=> m \in u
  <2>2. ASSUME NEW p \in Parties
        PROVE  fl[p][m] = IF m = b THEN PairXor(v[p][m], PublicPair(p, all)) ELSE v[p][m]
    <3>1. DOMAIN v[p] = Entries
      BY DEF Tape
    <3>2. fl[p] = Flipped(p, v[p], h)
      OBVIOUS
    <3> HIDE DEF fl
    <3> QED BY <3>1, <3>2 DEF Flipped
  <2> HIDE DEF fl, b, all, u
  <2>3. m \in u <=> (Has(v, m, l) <=> m # b)
    BY <1>4 DEF WordIn
  <2>4. CASE m = b
    <3>1. /\ fl[0][m][1] = v[0][m][1] ## PublicPair(0, all)[1]
          /\ fl[1][m][1] = v[1][m][1] ## PublicPair(1, all)[1]
          /\ fl[2][m][1] = v[2][m][1] ## PublicPair(2, all)[1]
      BY <1>3, <2>2, <2>4 DEF PairXor
    <3>2. l \in (PublicPair(0, all)[1] ## PublicPair(1, all)[1] ## PublicPair(2, all)[1])
      BY <1>2, PublicHas
    <3> QED BY <2>3, <2>4, <3>1, <3>2, InSymDiff DEF Has
  <2>5. CASE m # b
    <3>1. fl[0][m] = v[0][m] /\ fl[1][m] = v[1][m] /\ fl[2][m] = v[2][m]
      BY <1>3, <2>2, <2>5
    <3> QED BY <2>3, <2>5, <3>1 DEF Has
  <2> QED BY <2>4, <2>5
<1>6. w \in HashWires /\ \A i \in DOMAIN HashCircuit.gates : HashCircuit.gates[i].out # w
  <2>1. w \in HashWires
    BY DEF Done, HashWires
  <2> QED BY <2>1, CircuitFacts, DoneNext DEF HashWires
<1> DEFINE V == ValueBits
           m == EntryOn(w, BlockBytes)
           e == EntryOn(w - 2 * V, MsgBytes)
           B(c) == IF c THEN all ELSE {}
<1>7. V \in Nat \ {0} /\ InputOffset(HashCircuit, 1) = 2 * V /\ Cardinality(Entries) = V /\ w \in Nat
  <2>1. V \in Nat \ {0} /\ InputOffset(HashCircuit, 1) = 2 * V /\ Entries = 0..(V - 1) /\ w \in Nat
    BY <1>6, HashOffsets DEF HashWires, Wires
  <2>2. Cardinality(0..(V - 1)) = V
    <3> HIDE DEF V
    <3>1. Cardinality(0..(V - 1)) = IF 0 > V - 1 THEN 0 ELSE (V - 1) - 0 + 1
      BY <2>1, FS_Interval
    <3> QED BY <2>1, <3>1
  <2> QED BY <2>1, <2>2
<1>8. HashTable(u)[w] = IF w < 2 * V THEN IF m \in u \cup Padding THEN {0} ELSE {}
                        ELSE IF w < 3 * V /\ e \in IV THEN {0} ELSE {}
  <2> HIDE DEF u
  <2> QED BY <1>4, <1>6, HashTableIs
<1>9. ASSUME NEW p \in Parties
      PROVE  t[p][w] = IF w < 2 * V
                         THEN IF m \in Entries THEN fl[p][m] ELSE PublicPair(p, B(m \in Padding))
                         ELSE IF w < 3 * V THEN PublicPair(p, B(e \in IV)) ELSE NoPair
  <2>1. t[p] = BuildTape(p, fl[p], all)
    BY DEF Begun
  <2> HIDE DEF t, fl, V, all
  <2>2. w < 2 * V + V <=> w < 3 * V
    BY <1>7
  <2> QED BY <1>6, <1>7, <2>1, <2>2 DEF BuildTape, HashWires
<1> HIDE DEF t, fl, all, u, V, m, e
<1>10. CASE w < 2 * V /\ m \in Entries
  <2>1. t[0][w] = fl[0][m] /\ t[1][w] = fl[1][m] /\ t[2][w] = fl[2][m]
    BY <1>3, <1>9, <1>10
  <2>2. Has(t, w, l) <=> m \in u
    BY <1>5, <1>10, <2>1 DEF Has
  <2>3. HashTable(u)[w] = IF m \in u THEN {0} ELSE {}
    BY <1>8, <1>10, PaddingPlace
  <2> QED BY <2>2, <2>3 DEF u
<1>11. CASE w < 2 * V /\ m \notin Entries
  <2> DEFINE a == B(m \in Padding)
  <2>1. t[0][w] = PublicPair(0, a) /\ t[1][w] = PublicPair(1, a) /\ t[2][w] = PublicPair(2, a)
    BY <1>3, <1>9, <1>11
  <2>2. l \in a <=> m \in Padding
    BY <1>2
  <2> HIDE DEF a
  <2>3. Has(t, w, l) <=> m \in Padding
    BY <2>1, <2>2, PublicHas DEF Has
  <2>4. HashTable(u)[w] = IF m \in Padding THEN {0} ELSE {}
    BY <1>4, <1>8, <1>11
  <2> QED BY <2>3, <2>4 DEF u
<1>12. CASE ~(w < 2 * V) /\ w < 3 * V
  <2> DEFINE a == B(e \in IV)
  <2>1. t[0][w] = PublicPair(0, a) /\ t[1][w] = PublicPair(1, a) /\ t[2][w] = PublicPair(2, a)
    BY <1>3, <1>9, <1>12
  <2>2. l \in a <=> e \in IV
    BY <1>2
  <2> HIDE DEF a
  <2>3. Has(t, w, l) <=> e \in IV
    BY <2>1, <2>2, PublicHas DEF Has
  <2>4. HashTable(u)[w] = IF e \in IV THEN {0} ELSE {}
    BY <1>8, <1>12
  <2> QED BY <2>3, <2>4 DEF u
<1>13. CASE ~(w < 2 * V) /\ ~(w < 3 * V)
  <2>1. t[0][w] = NoPair /\ t[1][w] = NoPair /\ t[2][w] = NoPair
    BY <1>3, <1>9, <1>13
  <2>2. NoPair[1] = {} /\ l \notin {} /\ HashTable(u)[w] = {}
    BY <1>8, <1>13 DEF NoPair
  <2>3. ~Has(t, w, l)
    BY <2>1, <2>2, InSymDiff DEF Has
  <2> QED BY <2>2, <2>3 DEF u
<1> QED BY <1>10, <1>11, <1>12, <1>13

(* The tapes once a round's local gates have been applied, and after the   *)
(* round.                                                                  *)
AfterLocals(t, h, f) == [p \in Parties |-> LocalGates(p, Sched.locals[f], t[p], All(h))]
TapesIn(g, h, f) == [p \in Parties |-> TapeIn(g, p, h, f)]
AllFit(t) == \A p \in Parties : Tape(t[p], HashWires) /\ Fitting(t[p], t[NextOf(p)], HashWires)

(* The local gates of a round keep what is right, and make their outputs   *)
(* right.                                                                  *)
LEMMA LocalsRight ==
    ASSUME NEW t, AllFit(t), NEW h, NEW f \in 0..Depth, NEW l \in All(h),
           NEW E, IsTable(E, HashCircuit), RightOn(t, Done(HashCircuit, Avail, f), l, E)
    PROVE  /\ AllFit(AfterLocals(t, h, f))
           /\ RightOn(AfterLocals(t, h, f), LocalsDone(HashCircuit, Avail, f), l, E)
<1> DEFINE L == Sched.locals[f]
           n == Len(L)
           u == AfterLocals(t, h, f)
           all == All(h)
<1>1. /\ f \in 0..Sched.depth /\ f \in Nat /\ GateCount \in Nat /\ DOMAIN HashCircuit.gates = 1..GateCount
      /\ Formed(HashCircuit) /\ IsAvailable(HashCircuit, Avail)
      /\ InOrder(L, HashCircuit, Avail, f, FALSE, GateCount)
  <2>1. f \in 0..Sched.depth /\ f \in Nat
    BY SizeFacts DEF Depth
  <2> QED BY <2>1, CircuitFacts DEF IsSchedule
<1>2. n \in Nat /\ DOMAIN L = 1..n /\ \A i \in 1..n : L[i].left \in HashWires /\ L[i].right \in HashWires
  <2>1. n \in Nat /\ DOMAIN L = 1..n /\ \A i \in 1..n : IsGate(HashCircuit, L[i])
    BY <1>1, ScheduledGates
  <2> QED BY <2>1 DEF HashWires, IsGate
<1>3. ASSUME NEW p \in Parties PROVE u[p] = LocalGates(p, L, t[p], all)
  BY DEF AfterLocals
<1>4. u = [p \in Parties |-> LocalGates(p, L, t[p], all)]
  BY DEF AfterLocals
<1> HIDE DEF u, L, n, all
<1>5. ASSUME NEW p \in Parties
      PROVE  Tape(u[p], HashWires) /\ Fitting(u[p], u[NextOf(p)], HashWires)
  <2> DEFINE q == NextOf(p)
  <2>1. q \in Parties
    BY RingFacts
  <2>2. Tape(t[p], HashWires) /\ Tape(t[q], HashWires) /\ Fitting(t[p], t[q], HashWires)
    BY <2>1 DEF AllFit
  <2>3. u[p] = LocalGates(p, L, t[p], all) /\ u[q] = LocalGates(q, L, t[q], all)
    BY <1>3, <2>1
  <2>4. /\ Tape(LocalGates(p, L, t[p], all), HashWires)
        /\ Fitting(LocalGates(p, L, t[p], all), LocalGates(q, L, t[q], all), HashWires)
    BY <1>2, <2>2, LocalGatesFit
  <2> QED BY <2>3, <2>4
<1>6. AllFit(u)
  BY <1>5, Zenon DEF AllFit
<1>7. ASSUME NEW p \in Parties PROVE DOMAIN t[p] = HashWires
  <2>1. Tape(t[p], HashWires)
    BY DEF AllFit
  <2> QED BY <2>1, Zenon DEF Tape
<1>8. RightOn(u, LocalsDone(HashCircuit, Avail, f), l, E)
  <2>1. l \in all /\ \A p \in Parties : DOMAIN t[p] = Wires(HashCircuit)
    BY <1>7 DEF HashWires, all
  <2> QED BY <1>1, <1>4, <2>1, RoundLocals, Zenon
<1> QED BY <1>6, <1>8 DEF u

(* A round of all three keeps what is right, and makes right what the      *)
(* round computes: the local gates on the parties' own tapes, the ANDs by  *)
(* their products.                                                         *)
LEMMA RoundRight ==
    ASSUME NEW g, Fits(g), NEW h, NEW f \in 0..(Depth - 1), NEW l \in All(h),
           NEW E, IsTable(E, HashCircuit), RightOn(g.tape, Done(HashCircuit, Avail, f), l, E)
    PROVE  AllFit(TapesIn(g, h, f)) /\ RightOn(TapesIn(g, h, f), Done(HashCircuit, Avail, f + 1), l, E)
<1> DEFINE L == Sched.ands[f]
           t == AfterLocals(g.tape, h, f)
           u == TapesIn(g, h, f)
           z == [p \in Parties |-> [k \in DOMAIN L |->
                    ZeroWord(random.stream, p, g.draws + k) \cap All(h)]]
<1>1. /\ f \in 0..Depth /\ f \in Nat /\ GateCount \in Nat /\ DOMAIN HashCircuit.gates = 1..GateCount
      /\ Formed(HashCircuit) /\ IsAvailable(HashCircuit, Avail)
      /\ InOrder(L, HashCircuit, Avail, f, TRUE, GateCount)
  <2>1. f \in 0..Depth /\ f \in 0..Sched.depth /\ f \in Nat
    BY SizeFacts DEF Depth
  <2> QED BY <2>1, CircuitFacts DEF IsSchedule
<1>2. AllFit(t) /\ RightOn(t, LocalsDone(HashCircuit, Avail, f), l, E)
  <2>1. AllFit(g.tape)
    BY Zenon DEF AllFit, Fits
  <2> HIDE DEF t
  <2> QED BY <1>1, <2>1, LocalsRight DEF t
<1>3. AllFit(u)
  <2>1. ASSUME NEW p \in Parties
        PROVE  Tape(u[p], HashWires) /\ Fitting(u[p], u[NextOf(p)], HashWires)
    <3>1. u[p] = TapeIn(g, p, h, f) /\ u[NextOf(p)] = TapeIn(g, NextOf(p), h, f)
      BY RingFacts DEF TapesIn
    <3> HIDE DEF u
    <3> QED BY <3>1, TapeInFits
  <2> HIDE DEF u
  <2> QED BY <2>1, Zenon DEF AllFit
<1>4. ASSUME NEW k \in DOMAIN L PROVE l \notin (z[0][k] ## z[1][k] ## z[2][k])
  <2> DEFINE s(p) == random.stream[p][g.draws + k]
  <2>1. /\ z[0][k] = (s(2) ## s(0)) \cap All(h)
        /\ z[1][k] = (s(0) ## s(1)) \cap All(h)
        /\ z[2][k] = (s(1) ## s(2)) \cap All(h)
    BY DEF ZeroWord, Halves, PrevOf, Parties
  <2> HIDE DEF z, s, L
  <2> QED BY <2>1, InSymDiff
<1>5. ASSUME NEW p \in Parties, NEW w \in HashWires
      PROVE  u[p][w][1] = IF \E k \in DOMAIN L : L[k].out = w
                            THEN LET k == CHOOSE k \in DOMAIN L : L[k].out = w
                                 IN Product(L[k], t[p], z[p][k])
                            ELSE t[p][w][1]
  <2> DEFINE a == SentIn(g, p, h, f)
             b == SentIn(g, NextOf(p), h, f)
             On == \E k \in DOMAIN L : L[k].out = w
             k == CHOOSE k \in DOMAIN L : L[k].out = w
             tt == WithComponent(t[p], L, 1, a)
  <2>1. t[p] = LocalsOf(p, g.tape[p], h, f)
    BY DEF AfterLocals, LocalsOf
  <2>2. u[p] = WithComponent(tt, L, 2, b)
    BY <2>1 DEF TapesIn, TapeIn, FirstsIn, SentIn
  <2>3. DOMAIN t[p] = HashWires /\ t[p][w] = <<t[p][w][1], t[p][w][2]>>
    <3>1. Tape(t[p], HashWires)
      BY <1>2, Zenon DEF AllFit
    <3> HIDE DEF t
    <3> QED BY <3>1, Zenon DEF Tape
  <2>4. ASSUME On PROVE a[k] = Product(L[k], t[p], z[p][k])
    <3>1. k \in DOMAIN L
      BY <2>4
    <3> HIDE DEF k, t
    <3> QED BY <2>1, <3>1 DEF SentIn, ProductsOf
  <2> HIDE DEF u, t, a, b, z, L
  <2>5. DOMAIN tt = HashWires /\ tt[w] = IF On THEN [t[p][w] EXCEPT ![1] = a[k]] ELSE t[p][w]
    BY <2>3 DEF WithComponent
  <2> HIDE DEF tt
  <2>6. u[p][w] = IF On THEN [tt[w] EXCEPT ![2] = b[k]] ELSE tt[w]
    BY <2>2, <2>5 DEF WithComponent
  <2> HIDE DEF On, k
  <2>7. CASE On
    <3>1. tt[w] = <<a[k], t[p][w][2]>>
      BY <2>3, <2>5, <2>7
    <3>2. u[p][w][1] = a[k]
      BY <2>6, <2>7, <3>1
    <3> QED BY <2>4, <2>7, <3>2 DEF On, k
  <2>8. CASE ~On
    BY <2>5, <2>6, <2>8 DEF On
  <2> QED BY <2>7, <2>8
<1>6. \A p \in Parties : Fitting(t[p], t[NextOf(p)], HashWires)
  BY <1>2, Zenon DEF AllFit
<1> HIDE DEF u, t, z, L
<1>7. RightOn(u, Done(HashCircuit, Avail, f + 1), l, E)
  <2>1. /\ \A p \in Parties : Fitting(t[p], t[NextOf(p)], Wires(HashCircuit))
        /\ RoundProducts(u, t, z, L, Wires(HashCircuit)) /\ Cancel(z, L, l)
    BY <1>4, <1>5, <1>6, Zenon DEF HashWires, RoundProducts, Cancel
  <2> QED BY <1>1, <1>2, <2>1, RoundAnds, Zenon
<1> QED BY <1>3, <1>7 DEF u

(* The digest that the parties take off their tapes, and the next value.   *)
DigestIn(g, h) ==
    [p \in Parties |->
        Extract(LocalGates(p, Sched.locals[Depth], TapeIn(g, p, h, Depth - 1), All(h)))]
ValuesIn(g, h) == [p \in Parties |-> ValueIn(g, p, h, Depth - 1)]

(* What a hash makes of a value is a value too.                            *)
LEMMA IntoEntries ==
    ASSUME NEW v, NEW h \in 1..Hashes, NEW l
    PROVE  Into(v, h, l) \in SUBSET Entries
<1>1. h \in 1..(Hashes + 1) /\ h <= Hashes
  BY SizeFacts
<1>2. FlipBit(h) \in Entries
  BY <1>1, HashPlaces
<1>3. \A m : m \in Into(v, h, l) => m \in WordIn(v, l) \/ m \in {FlipBit(h)}
  BY InSymDiff DEF Into
<1> QED BY <1>2, <1>3 DEF WordIn

(* Tapes that are right before a round are so before the next.             *)
LEMMA TapesStayRight ==
    ASSUME NEW g, Fits(g), NEW h \in 1..Hashes, NEW f \in 0..(Depth - 1),
           TapesRight(g.tape, g.x, h, f)
    PROVE  TapesRight(TapesIn(g, h, f), g.x, h, f + 1)
<1> DEFINE u == TapesIn(g, h, f)
<1>1. ASSUME NEW l \in 0..(LanesIn(h) - 1)
      PROVE  RightOn(u, Done(HashCircuit, Avail, f + 1), l, HashTable(Into(g.x, h, l)))
  <2> DEFINE E == HashTable(Into(g.x, h, l))
  <2>1. l \in All(h)
    <3>1. h \in 1..(Hashes + 1)
      BY SizeFacts
    <3> QED BY <3>1, HashPlaces
  <2>2. IsTable(E, HashCircuit)
    BY IntoEntries, HashTableIs
  <2>3. RightOn(g.tape, Done(HashCircuit, Avail, f), l, E)
    BY Zenon DEF TapesRight
  <2> HIDE DEF E
  <2>4. RightOn(u, Done(HashCircuit, Avail, f + 1), l, E)
    BY <2>1, <2>2, <2>3, RoundRight
  <2> QED BY <2>4 DEF E
<1> HIDE DEF u
<1>2. TapesRight(u, g.x, h, f + 1)
  BY <1>1, Zenon DEF TapesRight
<1> QED BY <1>2 DEF u

(* Extract (sha256.rs): after the last round, the digests that the parties *)
(* take are shares of the hash in the clear.                               *)
LEMMA DigestRight ==
    ASSUME NEW g, Fits(g), NEW h \in 1..Hashes, TapesRight(g.tape, g.x, h, Depth - 1),
           NEW l \in 0..(LanesIn(h) - 1)
    PROVE  WordIn(DigestIn(g, h), l) = ClearHash(Into(g.x, h, l))
<1> DEFINE u == TapesIn(g, h, Depth - 1)
           t == AfterLocals(u, h, Depth)
           v == Into(g.x, h, l)
           E == HashTable(v)
           d == DigestIn(g, h)
           O == OutputOffset(HashCircuit, 0)
<1>1. Depth - 1 \in 0..(Depth - 1) /\ Depth \in 0..Depth /\ (Depth - 1) + 1 = Depth /\ Depth \in Nat
  BY SizeFacts
<1>2. l \in All(h)
  <2>1. h \in 1..(Hashes + 1)
    BY SizeFacts
  <2> QED BY <2>1, HashPlaces
<1>3. v \in SUBSET Entries
  BY IntoEntries
<1>4. IsTable(E, HashCircuit)
  BY <1>3, HashTableIs
<1>5. RightOn(g.tape, Done(HashCircuit, Avail, Depth - 1), l, E)
  BY Zenon DEF TapesRight
<1> HIDE DEF E, v
<1>6. AllFit(u) /\ RightOn(u, Done(HashCircuit, Avail, (Depth - 1) + 1), l, E)
  BY <1>1, <1>2, <1>4, <1>5, RoundRight
<1> HIDE DEF u
<1>7. RightOn(t, LocalsDone(HashCircuit, Avail, Depth), l, E)
  BY <1>1, <1>2, <1>4, <1>6, LocalsRight
<1>8. HashWires = LocalsDone(HashCircuit, Avail, Depth)
  <2>1. \A w \in Wires(HashCircuit) : Avail[w] <= Depth
    BY CircuitFacts DEF IsSchedule, Depth
  <2> QED BY <1>1, <2>1, CircuitFacts, DoneNext DEF HashWires
<1>9. ASSUME NEW m \in Entries PROVE Has(d, m, l) <=> m \in ClearHash(v)
  <2> DEFINE w == O + WireOf(m, MsgBytes)
  <2>1. w \in HashWires
    BY DigestWires
  <2>2. ASSUME NEW p \in Parties PROVE d[p][m] = t[p][w]
    <3>1. d[p] = Extract(t[p])
      BY DEF DigestIn, AfterLocals, TapesIn, u
    <3> HIDE DEF d, t
    <3> QED BY <3>1 DEF Extract
  <2>3. m \in ClearHash(v) <=> 0 \in E[w]
    BY <1>3, ClearHashIs DEF E
  <2> HIDE DEF d, t, w
  <2>4. Has(t, w, l) <=> 0 \in E[w]
    BY <1>7, <1>8, <2>1 DEF RightOn
  <2>5. d[0][m] = t[0][w] /\ d[1][m] = t[1][w] /\ d[2][m] = t[2][w]
    BY <2>2 DEF Parties
  <2> QED BY <2>3, <2>4, <2>5 DEF Has
<1>10. ClearHash(v) \subseteq Entries
  BY <1>3, ClearHashIs
<1> HIDE DEF d
<1>11. WordIn(d, l) = ClearHash(v)
  BY <1>9, <1>10 DEF WordIn
<1> QED BY <1>11 DEF d, v

(* interleave: what the merged words have in which lane.                   *)
LEMMA MergedHas ==
    ASSUME NEW a, NEW b, NEW n \in Nat, NEW l \in 0..(n - 1)
    PROVE  /\ 2 * l \in Merged(a, b, 0..(n - 1)) <=> l \in a
           /\ 2 * l + 1 \in Merged(a, b, 0..(n - 1)) <=> l \in b
           /\ Merged(a, b, 0..(n - 1)) \subseteq 0..(2 * n - 1)
BY DEF Merged

(* An interleaved value has the left children in the even lanes and the    *)
(* right ones in the odd.                                                  *)
LEMMA InterleavedWords ==
    ASSUME NEW a, NEW b, NEW n \in Nat, NEW l \in 0..(n - 1),
           NEW v, \A p \in Parties : v[p] = Interleaved(a[p], b[p], n)
    PROVE  WordIn(v, 2 * l) = WordIn(a, l) /\ WordIn(v, 2 * l + 1) = WordIn(b, l)
<1>1. ASSUME NEW m \in Entries, NEW p \in Parties
      PROVE  v[p][m][1] = Merged(a[p][m][1], b[p][m][1], 0..(n - 1))
  <2> DEFINE A == a[p]
             B == b[p]
             S == 0..(n - 1)
  <2>1. v[p] = Interleaved(A, B, n)
    OBVIOUS
  <2> HIDE DEF A, B
  <2>2. v[p] = [k \in Entries |-> [i \in 1..2 |-> Merged(A[k][i], B[k][i], S)]]
    BY <2>1 DEF Interleaved
  <2> HIDE DEF S
  <2>3. v[p][m] = [i \in 1..2 |-> Merged(A[m][i], B[m][i], S)]
    BY <2>2
  <2>4. v[p][m][1] = Merged(A[m][1], B[m][1], S)
    BY <2>3
  <2> QED BY <2>4 DEF A, B, S
<1>2. 0 \in Parties /\ 1 \in Parties /\ 2 \in Parties
  BY DEF Parties
<1>3. ASSUME NEW m \in Entries
      PROVE  (Has(v, m, 2 * l) <=> Has(a, m, l)) /\ (Has(v, m, 2 * l + 1) <=> Has(b, m, l))
  <2>1. ASSUME NEW p \in Parties
        PROVE  (2 * l \in v[p][m][1] <=> l \in a[p][m][1]) /\ (2 * l + 1 \in v[p][m][1] <=> l \in b[p][m][1])
    BY <1>1, MergedHas
  <2>2. /\ 2 * l \in v[0][m][1] <=> l \in a[0][m][1]
        /\ 2 * l \in v[1][m][1] <=> l \in a[1][m][1]
        /\ 2 * l \in v[2][m][1] <=> l \in a[2][m][1]
    BY <1>2, <2>1
  <2>3. /\ 2 * l + 1 \in v[0][m][1] <=> l \in b[0][m][1]
        /\ 2 * l + 1 \in v[1][m][1] <=> l \in b[1][m][1]
        /\ 2 * l + 1 \in v[2][m][1] <=> l \in b[2][m][1]
    BY <1>2, <2>1
  <2>4. Has(v, m, 2 * l) <=> Has(a, m, l)
    BY <2>2, InSymDiff DEF Has
  <2>5. Has(v, m, 2 * l + 1) <=> Has(b, m, l)
    BY <2>3, InSymDiff DEF Has
  <2> QED BY <2>4, <2>5
<1> QED BY <1>3 DEF WordIn

(* What the parties share after a hash: on the walk the hash of the one    *)
(* word; then the left child of every word, which is the word, and the     *)
(* right one, which is its hash.                                           *)
LEMMA ValuesRight ==
    ASSUME NEW g, Fits(g), NEW h \in 1..Hashes, TapesRight(g.tape, g.x, h, Depth - 1),
           NEW l \in 0..(LanesIn(h) - 1)
    PROVE  /\ InWalk(h) => WordIn(ValuesIn(g, h), l) = ClearHash(Into(g.x, h, l))
           /\ ~InWalk(h) => /\ WordIn(ValuesIn(g, h), 2 * l) = WordIn(g.x, l)
                            /\ WordIn(ValuesIn(g, h), 2 * l + 1) = ClearHash(Into(g.x, h, l))
<1> DEFINE d == DigestIn(g, h)
           v == ValuesIn(g, h)
<1>1. WordIn(d, l) = ClearHash(Into(g.x, h, l))
  BY DigestRight
<1>2. ASSUME NEW p \in Parties PROVE v[p] = AfterHash(g.x[p], d[p], h)
  BY DEF ValuesIn, ValueIn, DigestIn
<1> HIDE DEF d, v
<1>3. CASE InWalk(h)
  <2>1. ASSUME NEW p \in Parties PROVE v[p] = d[p]
    BY <1>2, <1>3 DEF AfterHash
  <2>2. v[0] = d[0] /\ v[1] = d[1] /\ v[2] = d[2]
    BY <2>1 DEF Parties
  <2>3. WordIn(v, l) = WordIn(d, l)
    BY <2>2 DEF WordIn, Has
  <2> QED BY <1>1, <1>3, <2>3 DEF v
<1>4. CASE ~InWalk(h)
  <2> DEFINE n == LanesIn(h)
  <2>1. n \in Nat /\ l \in 0..(n - 1)
    <3>1. h \in 1..(Hashes + 1)
      BY SizeFacts
    <3> QED BY <3>1, HashPlaces
  <2>2. ASSUME NEW p \in Parties PROVE v[p] = Interleaved(g.x[p], d[p], n)
    BY <1>2, <1>4 DEF AfterHash
  <2> HIDE DEF n
  <2>3. WordIn(v, 2 * l) = WordIn(g.x, l) /\ WordIn(v, 2 * l + 1) = WordIn(d, l)
    BY <2>1, <2>2, InterleavedWords
  <2> QED BY <1>1, <1>4, <2>3 DEF v
<1> QED BY <1>3, <1>4

-----------------------------------------------------------------------------
(* The walk to the block and its expansion derive the block's leaves. *)

(* A quotient is told by its remainder.                                    *)
LEMMA Quotient ==
    ASSUME NEW n \in Nat \ {0}, NEW q \in Nat, NEW r \in 0..(n - 1), NEW i \in Nat, i = n * q + r
    PROVE  i \div n = q
BY Z3

(* Dividing by twice as much leaves out one more bit.                      *)
LEMMA HalfQuotient ==
    ASSUME NEW i \in Nat, NEW n \in Nat \ {0}
    PROVE  /\ i \div n \in Nat /\ i \div (2 * n) \in Nat
           /\ i \div n = 2 * (i \div (2 * n)) + ((i \div n) % 2)
<1> DEFINE q == i \div (2 * n)
           r == i % (2 * n)
<1>1. q \in Nat /\ r \in 0..(2 * n - 1) /\ i = (2 * n) * q + r
  <2> DEFINE N == 2 * n
  <2>1. N \in Nat \ {0}
    OBVIOUS
  <2> HIDE DEF N
  <2>2. i \div N \in Nat /\ i % N \in 0..(N - 1) /\ i = N * (i \div N) + (i % N)
    BY <2>1, Z3
  <2> QED BY <2>2 DEF N
<1> HIDE DEF q, r
<1>2. n * (2 * q) = (2 * n) * q /\ n * (2 * q + 1) = (2 * n) * q + n /\ (2 * n) * q \in Nat
  BY <1>1, Z3
<1>3. CASE r < n
  <2>1. r \in 0..(n - 1) /\ i = n * (2 * q) + r /\ 2 * q \in Nat
    BY <1>1, <1>2, <1>3
  <2>2. i \div n = 2 * q /\ (2 * q) % 2 = 0
    BY <1>1, <2>1, Quotient
  <2>3. i \div n = 2 * q + ((i \div n) % 2)
    BY <1>1, <2>2
  <2> QED BY <1>1, <2>2, <2>3 DEF q
<1>4. CASE ~(r < n)
  <2>1. r - n \in 0..(n - 1) /\ i = n * (2 * q + 1) + (r - n) /\ 2 * q + 1 \in Nat
    BY <1>1, <1>2, <1>4
  <2>2. i \div n = 2 * q + 1 /\ (2 * q + 1) % 2 = 1
    BY <1>1, <2>1, Quotient
  <2>3. i \div n = 2 * q + ((i \div n) % 2)
    BY <1>1, <2>2
  <2> QED BY <1>1, <2>2, <2>3 DEF q
<1> QED BY <1>3, <1>4

(* A quotient is bounded if the number is.                                 *)
LEMMA QuotientBound ==
    ASSUME NEW n \in Nat \ {0}, NEW m \in Nat \ {0}, NEW i \in 0..(n * m - 1)
    PROVE  i \div n \in 0..(m - 1)
<1> DEFINE q == i \div n
           r == i % n
<1>1. q \in Nat /\ r \in 0..(n - 1) /\ i = n * q + r /\ i < n * m
  BY Z3
<1> HIDE DEF q, r
<1>2. q < m
  <2> SUFFICES ASSUME m <= q PROVE FALSE
    BY <1>1
  <2>1. n * m <= n * q /\ n * m \in Int /\ n * q \in Int
    BY <1>1, Z3
  <2> QED BY <1>1, <2>1
<1> QED BY <1>1, <1>2 DEF q

(* The lanes of the first block: the indices' bits above the block are     *)
(* ones, below they are the lane's; dropping a bit halves the lane.        *)
LEMMA IndexBits ==
    ASSUME NEW lane \in 0..(LaneCount - 1), NEW c \in 0..(Width - 1)
    PROVE  /\ c >= H => ((RootIndex + lane) \div 2^c) % 2 = 1 /\ lane \div 2^c = 0
           /\ c < H => ((RootIndex + lane) \div 2^c) % 2 = (lane \div 2^c) % 2
           /\ lane \div 2^c = 2 * (lane \div 2^(c + 1)) + ((lane \div 2^c) % 2)
           /\ lane \div 2^(c + 1) \in 0..(LanesIn(Width - c) - 1)
           /\ InWalk(Width - c) <=> c >= H
<1> DEFINE P == 2^c
<1>1. /\ Width \in Nat /\ H \in 1..Width /\ Width <= ValueBits /\ Edges = Width - H
      /\ ValueBits \in Nat \ {0} /\ TopBit = 2 * ValueBits
  BY ChainSizes, HashOffsets DEF TopBit, Edges, ValueBits
<1>2. /\ c \in 0..TopBit /\ c \in Nat /\ 2^(c + 1) = 2 * P /\ P \in Nat \ {0}
      /\ LaneCount = 2^H /\ LaneCount \in Nat \ {0} /\ RootIndex = 2^Width - LaneCount
  <2>1. c \in 0..TopBit /\ c \in Nat /\ H \in 0..TopBit
    BY <1>1
  <2> QED BY <2>1, Doubles DEF LaneCount, RootIndex
<1>3. lane \in Nat /\ lane < LaneCount
  BY <1>2
<1>4. InWalk(Width - c) <=> c >= H
  BY <1>1, <1>2 DEF InWalk
<1>5. lane \div P = 2 * (lane \div (2 * P)) + ((lane \div P) % 2)
  <2> HIDE DEF P
  <2> QED BY <1>2, <1>3, HalfQuotient
<1>6. CASE c >= H
  <2> DEFINE M == Width - c - 1
             Q == 2^M
  <2>1. M \in 0..TopBit /\ M \in Nat /\ (c + 1) + M = Width /\ c + 1 \in Nat /\ (c + 1) + M <= TopBit
    BY <1>1, <1>2
  <2>2. 2^Width = 2^(c + 1) * Q /\ Q \in Nat \ {0}
    BY <2>1, PowersAdd, Doubles
  <2>3. LaneCount <= P
    <3>1. H \in 0..TopBit /\ (c = H \/ H < c)
      BY <1>1, <1>2, <1>6
    <3> QED BY <1>2, <3>1, DoublesGrow
  <2> DEFINE N == 2^Width
             r == P - LaneCount + lane
  <2> HIDE DEF P, Q, N
  <2>4. N = (2 * P) * Q /\ P * (2 * Q - 1) = (2 * P) * Q - P /\ (2 * P) * Q \in Nat
    <3>1. N = (2 * P) * Q
      BY <1>2, <2>2 DEF N
    <3> QED BY <1>2, <2>2, <3>1, Z3
  <2>5. /\ r \in 0..(P - 1) /\ 2 * Q - 1 \in Nat
        /\ RootIndex + lane = P * (2 * Q - 1) + r /\ P * (2 * Q - 1) \in Int
    BY <1>2, <1>3, <2>2, <2>3, <2>4 DEF N
  <2>6. P * (2 * Q - 1) \in Nat
    <3>1. P \in Nat /\ 2 * Q - 1 \in Nat
      BY <1>2, <2>5
    <3> DEFINE k == 2 * Q - 1
    <3> HIDE DEF k
    <3> QED BY <3>1, Z3 DEF k
  <2> HIDE DEF r
  <2>7. (RootIndex + lane) \div P = 2 * Q - 1
    <3>1. RootIndex + lane \in Nat
      BY <2>5, <2>6
    <3> QED BY <1>2, <2>5, <3>1, Quotient
  <2>8. (2 * Q - 1) % 2 = 1
    BY <2>2
  <2>9. lane \div P = 0 /\ lane \div (2 * P) = 0
    <3>1. /\ lane \in 0..(P - 1) /\ lane = P * 0 + lane /\ lane \in 0..(2 * P - 1)
          /\ lane = (2 * P) * 0 + lane /\ 2 * P \in Nat \ {0}
      BY <1>2, <1>3, <2>3
    <3> QED BY <1>2, <1>3, <3>1, Quotient
  <2>10. LanesIn(Width - c) = 1
    BY <1>4, <1>6 DEF LanesIn
  <2>11. lane \div 2^(c + 1) = lane \div (2 * P)
    BY <1>2
  <2>12. lane \div 2^(c + 1) \in 0..(LanesIn(Width - c) - 1)
    BY <2>9, <2>10, <2>11
  <2>13. ((RootIndex + lane) \div P) % 2 = 1
    BY <2>7, <2>8
  <2> DEFINE A == ((RootIndex + lane) \div P) % 2
             B == lane \div P
             C == lane \div 2^(c + 1)
             D == LanesIn(Width - c)
             F == lane \div (2 * P)
  <2> HIDE DEF A, B, C, D, F
  <2>14. (c >= H => A = 1 /\ B = 0) /\ (c < H => A = B % 2) /\ B = 2 * C + (B % 2)
         /\ C \in 0..(D - 1) /\ (InWalk(Width - c) <=> c >= H)
    <3>1. A = 1 /\ B = 0 /\ B = 2 * F + (B % 2) /\ C = F /\ C \in 0..(D - 1)
      BY <1>5, <2>9, <2>11, <2>12, <2>13 DEF A, B, C, D, F
    <3> QED BY <1>2, <1>4, <1>6, <3>1, <1>1
  <2> QED BY <2>14 DEF A, B, C, D, P
<1>7. CASE c < H
  <2> DEFINE M == H - c - 1
             K == Width - H
             Q == 2^M
             R == 2^K
  <2>1. /\ M \in 0..TopBit /\ M \in Nat /\ (c + 1) + M = H /\ c + 1 \in Nat /\ (c + 1) + M <= TopBit
        /\ K \in 0..TopBit /\ K \in Nat /\ H + K = Width /\ H \in Nat /\ H + K <= TopBit
    BY <1>1, <1>2, <1>7
  <2>2. LaneCount = (2 * P) * Q /\ Q \in Nat \ {0} /\ 2^Width = LaneCount * R /\ R \in Nat \ {0}
    BY <1>2, <2>1, PowersAdd, Doubles
  <2>3. LanesIn(Width - c) = Q
    <3>1. Width - c - Edges - 1 = M
      BY <1>1, <1>2
    <3>2. ~InWalk(Width - c)
      BY <1>1, <1>2, <1>4, <1>7
    <3>3. LanesIn(Width - c) = 2^(Width - c - Edges - 1)
      BY <3>2 DEF LanesIn
    <3> HIDE DEF M
    <3> QED BY <3>1, <3>3
  <2> HIDE DEF P, Q, R, M, K
  <2>4. lane \div (2 * P) \in 0..(Q - 1)
    <3>1. 2 * P \in Nat \ {0} /\ lane \in 0..((2 * P) * Q - 1)
      BY <1>2, <1>3, <2>2
    <3> QED BY <2>2, <3>1, QuotientBound
  <2> DEFINE G == 2 * (Q * (R - 1))
             q == lane \div P
             r == lane % P
  <2>5. q \in Nat /\ r \in 0..(P - 1) /\ lane = P * q + r
    BY <1>2, <1>3, Z3
  <2>6. G \in Nat /\ LaneCount * R - LaneCount = P * G /\ P * G \in Nat
    <3> DEFINE T == Q * (R - 1)
    <3>1. R - 1 \in Nat
      BY <2>2
    <3>2. T \in Nat
      BY <2>2, <3>1, Z3
    <3>3. LaneCount * R - LaneCount = (2 * P) * T
      BY <1>2, <2>2, Z3
    <3> HIDE DEF T
    <3>4. (2 * P) * T = P * (2 * T) /\ P * (2 * T) \in Nat
      BY <1>2, <3>2, Z3
    <3> QED BY <3>2, <3>3, <3>4 DEF T
  <2> HIDE DEF G
  <2>7. RootIndex + lane = P * (G + q) + r /\ RootIndex + lane \in Nat /\ G + q \in Nat
    <3>1. P * (G + q) = P * G + P * q /\ P * q \in Nat
      <4> HIDE DEF q
      <4> QED BY <1>2, <2>5, <2>6, Z3
    <3>2. 2^Width - LaneCount = P * G
      BY <2>2, <2>6
    <3> DEFINE A == P * G
               B == P * q
               C == P * (G + q)
    <3>3. C = A + B /\ A \in Nat /\ B \in Nat /\ RootIndex = A /\ lane = B + r
      BY <1>2, <2>5, <2>6, <3>1, <3>2
    <3> HIDE DEF A, B, C, q, r
    <3>4. RootIndex + lane = C + r /\ RootIndex + lane \in Nat
      BY <2>5, <3>3
    <3> QED BY <2>5, <2>6, <3>4 DEF C
  <2>8. (RootIndex + lane) \div P = G + q
    <3> HIDE DEF q, r
    <3> QED BY <1>2, <2>5, <2>7, Quotient
  <2>9. (G + q) % 2 = q % 2
    <3> DEFINE T == Q * (R - 1)
    <3>1. T \in Nat
      <4>1. R - 1 \in Nat /\ Q \in Nat
        BY <2>2
      <4> QED BY <4>1, Z3
    <3>2. G = 2 * T
      BY DEF G
    <3> HIDE DEF T, q
    <3> QED BY <2>5, <3>1, <3>2
  <2> DEFINE A == ((RootIndex + lane) \div P) % 2
             B == lane \div P
             C == lane \div 2^(c + 1)
             D == LanesIn(Width - c)
             F == lane \div (2 * P)
  <2> HIDE DEF A, B, C, D, F
  <2>10. (c >= H => A = 1 /\ B = 0) /\ (c < H => A = B % 2) /\ B = 2 * C + (B % 2)
         /\ C \in 0..(D - 1) /\ (InWalk(Width - c) <=> c >= H)
    <3>1. A = B % 2 /\ B = 2 * F + (B % 2) /\ C = F /\ C \in 0..(D - 1)
      BY <1>2, <1>5, <2>3, <2>4, <2>8, <2>9 DEF A, B, C, D, F
    <3> QED BY <1>1, <1>2, <1>4, <1>7, <3>1
  <2> QED BY <2>10 DEF A, B, C, D, P
<1> QED BY <1>1, <1>2, <1>6, <1>7

(* A derivation of an index: what generate_from_seed has once it has gone  *)
(* through the bits down to b.                                             *)
Derives(f, s, index) ==
    f = [b \in 0..Width |->
            IF b = Width THEN s
            ELSE IF (index \div 2^b) % 2 = 1 THEN ClearHash(f[b + 1] ## {b}) ELSE f[b + 1]]

(* There is one, and it ends in the leaf.                                  *)
LEMMA Derivation ==
    ASSUME NEW s, NEW index
    PROVE  \E f : Derives(f, s, index) /\ GenerateFromSeed(s, index) = f[0]
<1> DEFINE Next1(b, v) == IF (index \div 2^b) % 2 = 1 THEN ClearHash(v ## {b}) ELSE v
           Down(g, n) == g[0] = s /\ \A k \in 0..(n - 1) : g[k + 1] = Next1(Width - k - 1, g[k])
           S == {n \in 0..Width : \E g : Down(g, n)}
<1>0. Width \in Nat
  BY ChainSizes
<1>1. 0 \in S
  <2> DEFINE g == [n \in {0} |-> s]
  <2>1. g[0] = s /\ 0..(0 - 1) = {}
    OBVIOUS
  <2> HIDE DEF g
  <2> QED BY <1>0, <2>1
<1>2. ASSUME NEW n \in 0..(Width - 1), n \in S PROVE n + 1 \in S
  <2>1. PICK g : Down(g, n)
    BY <1>2
  <2> DEFINE d == [k \in 0..(n + 1) |-> IF k = n + 1 THEN Next1(Width - n - 1, g[n]) ELSE g[k]]
  <2>2. (\A k \in 0..n : d[k] = g[k]) /\ d[n + 1] = Next1(Width - n - 1, g[n]) /\ d[0] = s
    <3> HIDE DEF Next1
    <3> QED BY <2>1
  <2> HIDE DEF d, Next1
  <2>3. ASSUME NEW k \in 0..((n + 1) - 1) PROVE d[k + 1] = Next1(Width - k - 1, d[k])
    <3>1. CASE k = n
      BY <2>2, <3>1
    <3>2. CASE k # n
      <4>1. k \in 0..(n - 1) /\ k \in 0..n /\ k + 1 \in 0..n
        BY <3>2
      <4>2. g[k + 1] = Next1(Width - k - 1, g[k])
        BY <2>1, <4>1
      <4> QED BY <2>2, <4>1, <4>2
    <3> QED BY <3>1, <3>2
  <2>4. Down(d, n + 1) /\ n + 1 \in 0..Width
    BY <1>0, <2>2, <2>3
  <2> HIDE DEF Down
  <2> QED BY <2>4
<1>3. Width \in S
  <2> HIDE DEF S
  <2>1. \A n \in 0..Width : n \in S
    BY <1>0, <1>1, <1>2, UpTo
  <2> QED BY <1>0, <2>1
<1>4. PICK g : Down(g, Width)
  BY <1>3
<1> DEFINE e == [b \in 0..Width |-> g[Width - b]]
<1>5. Derives(e, s, index)
  <2>1. ASSUME NEW b \in 0..Width PROVE e[b] = IF b = Width THEN s ELSE Next1(b, e[b + 1])
    <3>1. CASE b = Width
      BY <1>0, <1>4, <3>1
    <3>2. CASE b # Width
      <4> DEFINE k == Width - b - 1
      <4>1. /\ k \in 0..(Width - 1) /\ b + 1 \in 0..Width /\ Width - (b + 1) = k
            /\ k + 1 = Width - b /\ Width - k - 1 = b
        BY <1>0, <3>2
      <4> HIDE DEF k
      <4>2. g[k + 1] = Next1(Width - k - 1, g[k])
        BY <1>4, <4>1
      <4>3. e[b] = g[k + 1] /\ e[b + 1] = g[k]
        BY <4>1
      <4> HIDE DEF e, Next1
      <4> QED BY <3>2, <4>1, <4>2, <4>3
    <3> QED BY <3>1, <3>2
  <2>2. e = [b \in 0..Width |-> e[b]]
    OBVIOUS
  <2> HIDE DEF e
  <2> QED BY <2>1, <2>2, Zenon DEF Derives
<1> DEFINE after == CHOOSE f : Derives(f, s, index)
<1>6. Derives(after, s, index)
  <2> HIDE DEF e
  <2> QED BY <1>5
<1>7. GenerateFromSeed(s, index) = after[0]
  BY Zenon DEF GenerateFromSeed, Derives
<1> QED BY <1>6, <1>7

(* What the parties share before hash k, when the bits below Width + 1 - k *)
(* are still to come: each word is what the derivations of the indices it  *)
(* stands for have come to, the seed before the first hash.                *)
Reached(v, k) ==
    LET b == Width + 1 - k
    IN \A lane \in 0..(LaneCount - 1) :
          \A f : Derives(f, seed, RootIndex + lane) => WordIn(v, lane \div 2^b) = f[b]

(* A hash takes every derivation a bit further.                            *)
LEMMA ReachedNext ==
    ASSUME NEW g, Fits(g), NEW h \in 1..Hashes, TapesRight(g.tape, g.x, h, Depth - 1),
           Reached(g.x, h)
    PROVE  Reached(ValuesIn(g, h), h + 1)
<1> DEFINE c == Width - h
           v == ValuesIn(g, h)
<1>1. /\ Width \in Nat /\ h \in Nat /\ c \in 0..(Width - 1) /\ Width + 1 - h = c + 1
      /\ Width + 1 - (h + 1) = c /\ Width - c = h /\ h \in 1..(Hashes + 1) /\ h <= Hashes
  BY SizeFacts
<1> HIDE DEF v
<1>2. ASSUME NEW lane \in 0..(LaneCount - 1), NEW f, Derives(f, seed, RootIndex + lane)
      PROVE  WordIn(v, lane \div 2^c) = f[c]
  <2> DEFINE i == RootIndex + lane
             l == lane \div 2^(c + 1)
             k == lane \div 2^c
             bit == (i \div 2^c) % 2
  <2>1. WordIn(g.x, l) = f[c + 1]
    <3> HIDE DEF c
    <3> QED BY <1>1, <1>2 DEF Reached
  <2>2. f[c] = IF bit = 1 THEN ClearHash(f[c + 1] ## {c}) ELSE f[c + 1]
    <3>1. c \in 0..Width /\ c # Width
      BY <1>1
    <3> HIDE DEF c, i
    <3>2. f = [b \in 0..Width |-> IF b = Width THEN seed
                    ELSE IF (i \div 2^b) % 2 = 1 THEN ClearHash(f[b + 1] ## {b}) ELSE f[b + 1]]
      BY <1>2, Zenon DEF Derives, i
    <3> QED BY <3>1, <3>2
  <2>3. Into(g.x, h, l) = f[c + 1] ## {c}
    <3>1. FlipBit(h) = c
      BY <1>1, HashPlaces
    <3> HIDE DEF c, l
    <3> QED BY <2>1, <3>1 DEF Into
  <2>4. /\ c >= H => bit = 1 /\ k = 0
        /\ c < H => bit = k % 2
        /\ k = 2 * l + (k % 2)
        /\ l \in 0..(LanesIn(h) - 1)
        /\ InWalk(h) <=> c >= H
    <3> HIDE DEF c
    <3> QED BY <1>1, IndexBits
  <2>5. /\ InWalk(h) => WordIn(v, l) = ClearHash(Into(g.x, h, l))
        /\ ~InWalk(h) => /\ WordIn(v, 2 * l) = WordIn(g.x, l)
                         /\ WordIn(v, 2 * l + 1) = ClearHash(Into(g.x, h, l))
    <3> HIDE DEF l
    <3> QED BY <2>4, ValuesRight DEF v
  <2>6. l \in Nat /\ H \in Nat /\ c \in Nat
    <3>1. l \in Nat
      <4>1. LanesIn(h) \in Nat
        BY <1>1, HashPlaces
      <4> HIDE DEF l
      <4> QED BY <2>4, <4>1
    <3> QED BY <1>1, <3>1, SizeFacts
  <2>9. k \in Int
    <3>1. 2^c \in Nat \ {0} /\ lane \in Nat
      <4>1. c \in 0..TopBit /\ H \in 0..TopBit
        <5>1. Width <= ValueBits /\ H \in 1..Width /\ ValueBits \in Nat
          BY ChainSizes, HashOffsets DEF ValueBits
        <5> QED BY <1>1, <5>1 DEF TopBit
      <4> HIDE DEF c
      <4> QED BY <4>1, Doubles DEF LaneCount
    <3> DEFINE P == 2^c
    <3> HIDE DEF P
    <3>2. lane \div P \in Int
      BY <3>1, Z3 DEF P
    <3> QED BY <3>2 DEF P
  <2> HIDE DEF i, l, k, bit, c
  <2>7. CASE InWalk(h)
    <3>1. k = 0 /\ l = 0 /\ bit = 1
      BY <2>4, <2>6, <2>7
    <3> QED BY <2>2, <2>3, <2>5, <2>7, <3>1 DEF k
  <2>8. CASE ~InWalk(h)
    <3>1. bit = k % 2 /\ k % 2 \in {0, 1}
      BY <2>4, <2>6, <2>8, <2>9
    <3>2. CASE k % 2 = 1
      <4>1. k = 2 * l + 1 /\ bit = 1
        BY <2>4, <3>1, <3>2
      <4> QED BY <2>2, <2>3, <2>5, <2>8, <4>1 DEF k
    <3>3. CASE k % 2 = 0
      <4>1. k = 2 * l /\ bit # 1
        BY <2>4, <2>6, <3>1, <3>3
      <4> QED BY <2>1, <2>2, <2>5, <2>8, <4>1 DEF k
    <3> QED BY <3>1, <3>2, <3>3
  <2> QED BY <2>7, <2>8
<1>3. Width + 1 - (h + 1) = c
  BY <1>1
<1> HIDE DEF c
<1>4. Reached(v, h + 1)
  BY <1>2, <1>3 DEF Reached
<1> QED BY <1>4 DEF v

(* The dealer's shares are shares of the seed.                             *)
LEMMA DealtReached ==
    ASSUME seed \in SUBSET Entries
    PROVE  Reached(Dealt, 1)
<1>1. ASSUME NEW m \in Entries PROVE Has(Dealt, m, 0) <=> m \in seed
  <2> DEFINE s == IF m \in seed THEN {0} ELSE {}
             a == random.deal[m][1] \cap Lanes(1)
             b == random.deal[m][2] \cap Lanes(1)
  <2>1. Dealt[0][m][1] = a /\ Dealt[1][m][1] = b /\ Dealt[2][m][1] = s ## a ## b
    BY DEF Dealt, ShareWord, Replicated, Parties, NextOf
  <2>2. 0 \in s <=> m \in seed
    OBVIOUS
  <2> HIDE DEF s, a, b
  <2> QED BY <2>1, <2>2, InSymDiff DEF Has
<1>2. WordIn(Dealt, 0) = seed
  BY <1>1 DEF WordIn
<1>3. ASSUME NEW lane \in 0..(LaneCount - 1), NEW f, Derives(f, seed, RootIndex + lane)
      PROVE  WordIn(Dealt, lane \div 2^Width) = f[Width]
  <2>1. Width \in Nat \ {0} /\ Width - 1 \in 0..(Width - 1) /\ (Width - 1) + 1 = Width
        /\ Width - (Width - 1) = 1
    BY ChainSizes
  <2>2. lane \div 2^((Width - 1) + 1) \in 0..(LanesIn(Width - (Width - 1)) - 1)
    BY <2>1, IndexBits
  <2>3. LanesIn(1) = 1
    <3>1. CASE InWalk(1)
      BY <3>1 DEF LanesIn
    <3>2. CASE ~InWalk(1)
      <4>1. Edges = 0
        BY <3>2, ChainSizes DEF InWalk, Edges
      <4>2. 1 - Edges - 1 = 0
        BY <4>1
      <4>3. LanesIn(1) = 2^(1 - Edges - 1)
        BY <3>2 DEF LanesIn
      <4> QED BY <4>2, <4>3, Doubles
    <3> QED BY <3>1, <3>2
  <2>4. lane \div 2^Width = 0
    BY <2>1, <2>2, <2>3
  <2>5. f[Width] = seed
    <3>1. Width \in 0..Width
      BY <2>1
    <3> QED BY <1>3, <3>1 DEF Derives
  <2> QED BY <1>2, <2>4, <2>5
<1>4. Width + 1 - 1 = Width
  BY ChainSizes
<1> QED BY <1>3, <1>4 DEF Reached

(* Every round but the last is one of a hash.                              *)
LEMMA RoundWithin ==
    ASSUME NEW n \in 0..(LastRound - 1)
    PROVE  /\ HashIn(n) \in 1..Hashes /\ PhaseIn(n) \in 0..(Depth - 1)
           /\ Round(HashIn(n), PhaseIn(n)) = n
<1>1. Depth \in Nat \ {0} /\ Hashes \in Nat \ {0} /\ LastRound = Depth * Hashes /\ n \in Nat
  <2>1. Depth \in Nat \ {0} /\ Hashes \in Nat \ {0}
    BY SizeFacts
  <2>2. LastRound = Hashes * Depth + 0
    BY <2>1 DEF LastRound, Round
  <2> QED BY <2>1, <2>2, RoundBounds
<1>2. n \div Depth \in 0..(Hashes - 1)
  BY <1>1, QuotientBound
<1>3. n = Depth * (n \div Depth) + (n % Depth) /\ n % Depth \in 0..(Depth - 1)
  BY <1>1, Z3
<1>4. HashIn(n) \in 1..Hashes /\ PhaseIn(n) \in 0..(Depth - 1)
  BY <1>1, <1>2, <1>3 DEF HashIn, PhaseIn
<1> DEFINE q == n \div Depth
<1>5. Round(HashIn(n), PhaseIn(n)) = q * Depth + (n % Depth)
  <2>1. ((n \div Depth) + 1) - 1 = n \div Depth
    BY <1>2
  <2> QED BY <2>1 DEF Round, HashIn, PhaseIn
<1>6. q * Depth = Depth * q
  <2>1. q \in Int
    BY <1>2
  <2> HIDE DEF q
  <2> QED BY <1>1, <2>1, Z3
<1> QED BY <1>3, <1>4, <1>5, <1>6

(* All along the course, the tapes are right and the words are where the   *)
(* derivations are.                                                        *)
Right(g, h, f) == (h <= Hashes => TapesRight(g.tape, g.x, h, f)) /\ Reached(g.x, h)

(* A round keeps the tapes right, and the last one of a hash the words.    *)
LEMMA RightNext ==
    ASSUME NEW g, Fits(g), NEW h \in 1..Hashes, NEW f \in 0..(Depth - 1), Right(g, h, f)
    PROVE  /\ f + 1 < Depth => Right(Together(g, h, f), h, f + 1)
           /\ f + 1 = Depth => Right(Together(g, h, f), h + 1, 0)
<1> DEFINE G == Together(g, h, f)
<1>1. h <= Hashes /\ h \in Nat /\ Hashes \in Nat /\ TapesRight(g.tape, g.x, h, f) /\ Reached(g.x, h)
  BY SizeFacts DEF Right
<1>2. ASSUME f + 1 < Depth PROVE Right(G, h, f + 1)
  <2>1. G.x = g.x /\ G.tape = TapesIn(g, h, f)
    BY <1>2 DEF Together, TapesIn
  <2> HIDE DEF G
  <2>2. TapesRight(TapesIn(g, h, f), g.x, h, f + 1)
    BY <1>1, TapesStayRight
  <2> QED BY <1>1, <2>1, <2>2 DEF Right
<1>3. ASSUME f + 1 = Depth PROVE Right(G, h + 1, 0)
  <2> DEFINE v == ValuesIn(g, h)
  <2>1. f = Depth - 1
    BY <1>3, SizeFacts
  <2>2. G.x = v /\ G.tape = [p \in Parties |-> Begun(p, v[p], h + 1)]
    BY <1>3, <2>1 DEF Together, ValuesIn
  <2>3. ASSUME NEW p \in Parties PROVE Tape(v[p], Entries)
    <3>1. v[p] = ValueIn(g, p, h, f)
      BY <2>1 DEF ValuesIn
    <3> HIDE DEF v
    <3> QED BY <3>1, ValueInFits
  <2>4. Reached(v, h + 1)
    BY <1>1, <2>1, ReachedNext
  <2> HIDE DEF v, G
  <2>5. ASSUME h + 1 <= Hashes PROVE TapesRight(G.tape, v, h + 1, 0)
    <3> DEFINE k == h + 1
    <3>1. k \in 1..Hashes
      BY <1>1, <2>5
    <3> HIDE DEF k
    <3>2. TapesRight(AllBegun(v, k), v, k, 0)
      BY <2>3, <3>1, BegunRight
    <3>3. G.tape = AllBegun(v, k)
      BY <2>2 DEF AllBegun, k
    <3> QED BY <3>2, <3>3 DEF k
  <2> QED BY <2>2, <2>4, <2>5 DEF Right
<1> QED BY <1>2, <1>3

(* So the course stays right to its end.                                   *)
LEMMA CourseRight ==
    ASSUME seed \in SUBSET Entries, NEW c, Course(c, LastRound)
    PROVE  \A n \in 0..LastRound : Right(c[n], HashIn(n), PhaseIn(n))
<1> DEFINE S == {n \in 0..LastRound : Right(c[n], HashIn(n), PhaseIn(n))}
<1>0. LastRound \in Nat /\ Depth \in Nat \ {0} /\ Hashes \in Nat \ {0}
  BY RoundBounds, SizeFacts
<1>1. 0 \in S
  <2>1. c[0] = Start
    BY DEF Course
  <2>2. Round(1, 0) = 0 /\ HashIn(Round(1, 0)) = 1 /\ PhaseIn(Round(1, 0)) = 0
    <3>1. Round(1, 0) = 0 * Depth + 0 /\ 0 \in 0..(Depth - 1)
      BY <1>0 DEF Round
    <3> QED BY <1>0, <3>1, RoundParts
  <2>3. Start.x = Dealt /\ Start.tape = [p \in Parties |-> Begun(p, Dealt[p], 1)]
    BY DEF Start
  <2>4. ASSUME NEW p \in Parties PROVE Tape(Dealt[p], Entries)
    <3>1. Tape(Start.x[p], Entries)
      BY StartFits DEF Fits
    <3> QED BY <2>3, <3>1
  <2>5. TapesRight(AllBegun(Dealt, 1), Dealt, 1, 0)
    <3>1. 1 \in 1..Hashes
      BY <1>0
    <3> QED BY <2>4, <3>1, BegunRight
  <2>6. Right(Start, 1, 0)
    <3>1. Start.tape = AllBegun(Dealt, 1)
      BY <2>3 DEF AllBegun
    <3> QED BY <2>3, <2>5, <3>1, DealtReached DEF Right
  <2> QED BY <1>0, <2>1, <2>2, <2>6
<1>2. ASSUME NEW n \in 0..(LastRound - 1), n \in S PROVE n + 1 \in S
  <2> DEFINE h == HashIn(n)
             f == PhaseIn(n)
  <2>1. h \in 1..Hashes /\ f \in 0..(Depth - 1) /\ Round(h, f) = n /\ h \in Nat \ {0}
    <3>1. h \in 1..Hashes /\ f \in 0..(Depth - 1) /\ Round(h, f) = n
      BY RoundWithin
    <3> HIDE DEF h, f
    <3> QED BY <3>1
  <2>2. c[n + 1] = Together(c[n], h, f)
    BY DEF Course
  <2>3. Fits(c[n]) /\ Right(c[n], h, f)
    <3>1. n \in 0..LastRound
      BY <1>0
    <3> QED BY <1>0, <1>2, <3>1, CourseFits
  <2> HIDE DEF h, f
  <2>4. /\ f + 1 < Depth => Right(c[n + 1], h, f + 1)
        /\ f + 1 = Depth => Right(c[n + 1], h + 1, 0)
    BY <2>1, <2>2, <2>3, RightNext
  <2>5. CASE f + 1 < Depth
    <3>1. f + 1 \in 0..(Depth - 1) /\ Round(h, f + 1) = n + 1
      BY <1>0, <2>1, <2>5, RoundNext
    <3>2. HashIn(n + 1) = h /\ PhaseIn(n + 1) = f + 1
      BY <2>1, <3>1, RoundParts
    <3> QED BY <1>0, <2>4, <2>5, <3>2
  <2>6. CASE ~(f + 1 < Depth)
    <3>1. f + 1 = Depth
      BY <1>0, <2>1, <2>6
    <3>2. Round(h + 1, 0) = n + 1 /\ h + 1 \in Nat \ {0} /\ 0 \in 0..(Depth - 1)
      BY <1>0, <2>1, <3>1, RoundNext
    <3>3. HashIn(n + 1) = h + 1 /\ PhaseIn(n + 1) = 0
      BY <3>2, RoundParts
    <3> QED BY <1>0, <2>4, <3>1, <3>3
  <2> QED BY <2>5, <2>6
<1> HIDE DEF S
<1>3. \A n \in 0..LastRound : n \in S
  BY <1>0, <1>1, <1>2, UpTo
<1> QED BY <1>3 DEF S

(* The last hash of all is one of the expansion: it fills the lanes of the *)
(* block and no others.                                                    *)
LEMMA LastLanes ==
    ASSUME NEW c, Course(c, LastRound), NEW p \in Parties, NEW m \in Entries
    PROVE  c[LastRound].x[p][m][1] \subseteq 0..(LaneCount - 1)
<1> DEFINE n == LastRound - 1
           f == Depth - 1
           g == c[n]
           k == LanesIn(Hashes)
           a == g.x[p]
           b == Extract(LocalGates(p, Sched.locals[Depth], TapeIn(g, p, Hashes, f), All(Hashes)))
           v == c[LastRound].x[p]
<1>1. /\ Hashes \in Nat \ {0} /\ f \in 0..(Depth - 1) /\ f + 1 = Depth /\ ~(f + 1 < Depth)
      /\ Width \in Nat /\ H \in 1..Width /\ Width <= ValueBits /\ ValueBits \in Nat
      /\ Hashes = Width /\ Edges = Width - H /\ LastRound \in Nat
  BY SizeFacts, ChainSizes, HashOffsets, RoundBounds DEF ValueBits, Edges
<1>2. LastRound = Round(Hashes, f) + 1 /\ Round(Hashes, f) \in Nat
  BY <1>1, RoundNext, RoundParts DEF LastRound
<1>3. n = Round(Hashes, f) /\ n \in 0..(LastRound - 1) /\ n + 1 = LastRound
  BY <1>1, <1>2
<1>4. HashIn(n) = Hashes /\ PhaseIn(n) = f
  <2> HIDE DEF n, f
  <2> QED BY <1>1, <1>3, RoundParts
<1>5. c[LastRound] = Together(g, Hashes, f)
  <2>1. c[n + 1] = Together(c[n], HashIn(n), PhaseIn(n))
    BY <1>3 DEF Course
  <2> HIDE DEF n, f
  <2> QED BY <1>3, <1>4, <2>1
<1> HIDE DEF n, f, g
<1>6. v = AfterHash(a, b, Hashes)
  BY <1>1, <1>5 DEF Together, ValueIn
<1>7. ~InWalk(Hashes) /\ Hashes - Edges - 1 = H - 1
  BY <1>1 DEF InWalk
<1>8. k \in Nat /\ 2 * k = LaneCount
  <2>1. H - 1 \in 0..TopBit /\ (H - 1) + 1 = H
    BY <1>1 DEF TopBit
  <2>2. k = 2^(H - 1)
    <3>1. k = 2^(Hashes - Edges - 1)
      BY <1>7 DEF LanesIn
    <3> HIDE DEF k
    <3> QED BY <1>7, <3>1
  <2> HIDE DEF k
  <2> QED BY <2>1, <2>2, Doubles DEF LaneCount
<1>9. v[m][1] = Merged(a[m][1], b[m][1], 0..(k - 1))
  <2>1. v = Interleaved(a, b, k)
    BY <1>6, <1>7 DEF AfterHash
  <2> DEFINE S == 0..(k - 1)
  <2> HIDE DEF v, a, b, k
  <2>2. v = [e \in Entries |-> [i \in 1..2 |-> Merged(a[e][i], b[e][i], S)]]
    BY <2>1 DEF Interleaved
  <2> HIDE DEF S
  <2>3. v[m] = [i \in 1..2 |-> Merged(a[m][i], b[m][i], S)]
    BY <2>2
  <2>4. v[m][1] = Merged(a[m][1], b[m][1], S)
    BY <2>3
  <2> QED BY <2>4 DEF S
<1> HIDE DEF v, a, b, k
<1>10. Merged(a[m][1], b[m][1], 0..(k - 1)) \subseteq 0..(2 * k - 1)
  BY <1>8 DEF Merged
<1>11. v[m][1] \subseteq 0..(LaneCount - 1)
  BY <1>8, <1>9, <1>10
<1> QED BY <1>11 DEF v

(* The words at the end are the leaves of the block, no more and no less.  *)
LEMMA BlockSum ==
    ASSUME seed \in SUBSET Entries, NEW c, Course(c, LastRound), NEW m \in Entries,
           NEW v, v = c[LastRound].x
    PROVE  v[0][m][1] ## v[1][m][1] ## v[2][m][1] = Leaves(seed)[m]
<1>0. /\ LastRound \in Nat /\ Width \in Nat /\ Hashes = Width /\ Depth \in Nat \ {0}
      /\ 0 \in 0..Width /\ LastRound \in 0..LastRound
      /\ 0 \in Parties /\ 1 \in Parties /\ 2 \in Parties
  BY RoundBounds, SizeFacts DEF Parties
<1>1. HashIn(LastRound) = Hashes + 1
  <2>1. Hashes + 1 \in Nat \ {0} /\ 0 \in 0..(Depth - 1)
    BY <1>0
  <2> QED BY <2>1, RoundParts DEF LastRound
<1>2. Reached(v, Hashes + 1)
  <2>1. Right(c[LastRound], HashIn(LastRound), PhaseIn(LastRound))
    BY <1>0, CourseRight
  <2> QED BY <1>1, <2>1 DEF Right
<1>3. ASSUME NEW l \in 0..(LaneCount - 1)
      PROVE  WordIn(v, l) = GenerateFromSeed(seed, RootIndex + l)
  <2>1. PICK f : Derives(f, seed, RootIndex + l) /\ GenerateFromSeed(seed, RootIndex + l) = f[0]
    BY Derivation
  <2>2. Width + 1 - (Hashes + 1) = 0
    BY <1>0
  <2>3. WordIn(v, l \div 2^0) = f[0]
    BY <1>2, <2>1, <2>2 DEF Reached
  <2>4. l \div 2^0 = l
    <3>1. LaneCount \in Nat
      <4>1. H \in 0..TopBit
        <5>1. Width <= ValueBits /\ H \in 1..Width /\ ValueBits \in Nat
          BY ChainSizes, HashOffsets DEF ValueBits
        <5> QED BY <1>0, <5>1 DEF TopBit
      <4> QED BY <4>1, Doubles DEF LaneCount
    <3>2. l \in Nat /\ 2^0 = 1
      BY <3>1, Doubles
    <3>3. l \div 1 = l
      BY <3>2
    <3> QED BY <3>2, <3>3
  <2> QED BY <2>1, <2>3, <2>4
<1> DEFINE L == 0..(LaneCount - 1)
           s == v[0][m][1] ## v[1][m][1] ## v[2][m][1]
<1>4. Leaves(seed)[m] = {l \in L : m \in GenerateFromSeed(seed, RootIndex + l)}
  BY DEF Leaves
<1>5. v[0][m][1] \subseteq L /\ v[1][m][1] \subseteq L /\ v[2][m][1] \subseteq L
  BY <1>0, LastLanes
<1> HIDE DEF L
<1>6. s \subseteq L
  BY <1>5, InSymDiff
<1>7. ASSUME NEW l \in L PROVE l \in s <=> m \in GenerateFromSeed(seed, RootIndex + l)
  <2>1. m \in WordIn(v, l) <=> l \in s
    BY DEF WordIn, Has
  <2> QED BY <1>3, <2>1 DEF L
<1> HIDE DEF s
<1>8. s = Leaves(seed)[m]
  BY <1>4, <1>6, <1>7
<1> QED BY <1>8 DEF s

(* The seed is a value, and the leaves to compute are its.                 *)
SeedInv == seed \in Seeds /\ right = Leaves(seed)

(* Nothing changes the seed or the leaves to compute.                      *)
LEMMA SeedKept == Spec => []SeedInv
<1>1. Init => SeedInv
  BY DEF Init, SeedInv
<1>2. SeedInv /\ [Next]_vars => SeedInv'
  <2> SUFFICES ASSUME SeedInv, [Next]_vars PROVE SeedInv'
    OBVIOUS
  <2>1. UNCHANGED <<seed, right>>
    <3>1. CASE UNCHANGED vars
      BY <3>1 DEF vars
    <3>2. CASE Publish \/ Release
      BY <3>2, PublishIdle, ReleaseIdle
    <3>3. ASSUME NEW p \in Parties, Step(p) \/ Dies(p) PROVE UNCHANGED <<seed, right>>
      BY <3>3 DEF Step, SendProducts, TakeSeconds, Cascade, Dies, Aborts
    <3> QED BY <3>1, <3>2, <3>3 DEF Next
  <2> QED BY <2>1 DEF SeedInv
<1> QED BY <1>1, <1>2, SpecSafety, PTL

(* What the parties hold that have returned adds up to the leaves.         *)
LEMMA InvAgreement == IInv /\ SeedInv => Shared!Agreement
<1> SUFFICES ASSUME IInv, SeedInv, NEW p \in Shared!Parties, Shared!Returned(p),
                    Shared!Returned(Shared!NextOf(p)), NEW m \in DOMAIN right
             PROVE  Shared!Fits(p, m)
  BY DEF Shared!Agreement
<1> DEFINE q == NextOf(p)
           r == NextOf(q)
<1>1. p \in Parties /\ Shared!NextOf(p) = q /\ q \in Parties /\ r \in Parties /\ m \in Entries
  <2>1. p \in Parties /\ Shared!NextOf(p) = q
    BY DEF Shared!Parties, Parties, Shared!NextOf, NextOf
  <2> QED BY <2>1, RingFacts DEF SeedInv, Leaves
<1>2. at[p] = "done" /\ at[q] = "done"
  BY <1>1 DEF Shared!Returned
<1>3. seed \in SUBSET Entries /\ right[m] = Leaves(seed)[m]
  BY ValuesFormed DEF SeedInv
<1>4. PICK c : Follows(c)
  BY DEF IInv, CourseInv
<1> DEFINE v == c[LastRound].x
<1>5. x[p] = v[p] /\ x[q] = v[q]
  <2>1. ASSUME NEW s \in Parties, at[s] = "done" PROVE x[s] = v[s]
    <3>1. RoundOf(s) = LastRound
      BY <2>1 DEF IInv, PlacesInv, RoundOf, LastRound
    <3>2. x[s] = c[RoundOf(s)].x[s]
      BY <1>4, <2>1 DEF Follows, OnCourse
    <3> QED BY <3>1, <3>2
  <2> QED BY <1>1, <1>2, <2>1
<1>6. v[p][m][2] = v[q][m][1] /\ v[q][m][2] = v[r][m][1]
  <2>1. Fits(c[LastRound])
    <3>1. LastRound \in 0..LastRound
      BY RoundBounds
    <3> QED BY <1>4, <3>1, CourseFits, RoundBounds DEF Follows
  <2> QED BY <1>1, <2>1 DEF Fits, Fitting
<1>7. v[0][m][1] ## v[1][m][1] ## v[2][m][1] = right[m]
  <2>1. Course(c, LastRound)
    BY <1>4 DEF Follows
  <2> HIDE DEF v
  <2> QED BY <1>1, <1>3, <2>1, BlockSum DEF v
<1>8. v[p][m][1] ## v[q][m][1] ## v[r][m][1] = right[m]
  <2> HIDE DEF v
  <2>1. \/ p = 0 /\ q = 1 /\ r = 2
        \/ p = 1 /\ q = 2 /\ r = 0
        \/ p = 2 /\ q = 0 /\ r = 1
    BY <1>1 DEF Parties, NextOf
  <2> DEFINE A == v[0][m][1]
             B == v[1][m][1]
             C == v[2][m][1]
  <2>2. ASSUME NEW a, NEW b, NEW d PROVE b ## d ## a = a ## b ## d /\ d ## a ## b = a ## b ## d
    <3>1. \A e : /\ e \in (b ## d ## a) <=> e \in (a ## b ## d)
                 /\ e \in (d ## a ## b) <=> e \in (a ## b ## d)
      BY InSymDiff
    <3> QED BY <3>1
  <2>3. B ## C ## A = A ## B ## C /\ C ## A ## B = A ## B ## C
    <3> HIDE DEF A, B, C
    <3> QED BY <2>2
  <2> QED BY <1>7, <2>1, <2>3
<1>9. x[p][m][2] = x[q][m][1] /\ x[p][m][1] ## x[p][m][2] ## x[q][m][2] = right[m]
  <2> HIDE DEF v
  <2> QED BY <1>5, <1>6, <1>8
<1>10. \A a, b : Shared!##(a, b) = a ## b
  BY DEF Shared!SymDiff, SymDiff, ##, Shared!##
<1> QED BY <1>1, <1>2, <1>9, <1>10 DEF Shared!Fits

(* Whatever the circuit, the seed, the randomness and the order in which   *)
(* the parties run, two parties that return a block hold what adds up to   *)
(* the leaves that BOLT #3 derives (prepare_first_block, chain.rs;         *)
(* eval_circuit, engine.rs:176, against eval_clear, bristol.rs:44).        *)
THEOREM BlockAgreed == Spec => []Shared!Agreement
BY InvAgreement, CourseFollowed, SeedKept, PTL

(* What has been returned, as a function of where the parties are.         *)
OutOf(places, values) ==
    [p \in Parties |->
        CASE places[p] = "done"    -> [status |-> "returned", pairs |-> values[p]]
          [] places[p] = "aborted" -> [status |-> "aborted"]
          [] OTHER                 -> [status |-> "pending"]]

(* A party's step changes nobody else's place or value.                    *)
LEMMA PartyMoves ==
    ASSUME PlacesInv, NEW p \in Parties, Step(p) \/ Dies(p)
    PROVE  /\ at[p] \in {"send", "read"} /\ at'[p] \in {"send", "read", "done", "aborted"}
           /\ UNCHANGED right
           /\ \A q \in Parties \ {p} : at'[q] = at[q] /\ x'[q] = x[q]
<1>1. DOMAIN at = Parties /\ DOMAIN x = Parties
  BY DEF PlacesInv
<1>2. CASE SendProducts(p)
  BY <1>1, <1>2 DEF SendProducts
<1>3. CASE TakeSeconds(p)
  <2> DEFINE t == WithComponent(tape[p], Ands(p), 2, Incoming(NextOf(p), p).words)
             value == AfterHash(x[p], Extract(Locals(p, Sched.depth, t)), hash[p])
  <2>1. /\ at[p] = "read" /\ UNCHANGED right
        /\ \/ at' = [at EXCEPT ![p] = "send"] /\ UNCHANGED x
           \/ at' = [at EXCEPT ![p] = "send"] /\ x' = [x EXCEPT ![p] = value]
           \/ at' = [at EXCEPT ![p] = "done"] /\ x' = [x EXCEPT ![p] = value]
    BY <1>3 DEF TakeSeconds
  <2> HIDE DEF value
  <2> QED BY <1>1, <2>1
<1>4. CASE Cascade(p) \/ Dies(p)
  <2>1. /\ at[p] \in {"send", "read"} /\ at' = [at EXCEPT ![p] = "aborted"] /\ UNCHANGED <<x, right>>
    BY <1>4 DEF Cascade, Dies, Aborts
  <2> QED BY <1>1, <2>1
<1> QED BY <1>2, <1>3, <1>4 DEF Step

(* A step is the return of one party, or changes nothing of the results.   *)
LEMMA ResultStep ==
    ASSUME PlacesInv, [Next]_vars, Shared!Agreement'
    PROVE  [Shared!Next]_<<right, OutOf(at, x)>>
<1> DEFINE out == OutOf(at, x)
<1>1. CASE UNCHANGED <<at, x, right>>
  BY <1>1 DEF OutOf
<1>2. ASSUME NEW p \in Parties, Step(p) \/ Dies(p)
      PROVE  [Shared!Next]_<<right, OutOf(at, x)>>
  <2>1. /\ at[p] \in {"send", "read"} /\ at'[p] \in {"send", "read", "done", "aborted"}
        /\ UNCHANGED right
        /\ \A q \in Parties \ {p} : at'[q] = at[q] /\ x'[q] = x[q]
    BY <1>2, PartyMoves
  <2>2. ASSUME NEW q \in Parties \ {p} PROVE OutOf(at', x')[q] = OutOf(at, x)[q]
    <3>1. at'[q] = at[q] /\ x'[q] = x[q]
      BY <2>1
    <3> QED BY <3>1 DEF OutOf
  <2>3. OutOf(at, x)[p] = [status |-> "pending"]
    BY <2>1 DEF OutOf
  <2>4. CASE at'[p] \in {"send", "read"}
    <3>1. OutOf(at', x')[p] = OutOf(at, x)[p]
      BY <2>3, <2>4 DEF OutOf
    <3>2. OutOf(at', x') = OutOf(at, x)
      BY <2>2, <3>1 DEF OutOf
    <3> QED BY <2>1, <3>2
  <2>5. CASE at'[p] \in {"done", "aborted"}
    <3>1. OutOf(at', x')[p].status # "pending"
      BY <2>5 DEF OutOf
    <3>2. OutOf(at', x')[p] # [status |-> "pending"]
      BY <3>1
    <3>3. Shared!Parties = Parties
      BY DEF Shared!Parties, Parties
    <3>4. Shared!Return(p)
      BY <2>1, <2>2, <2>3, <3>2, <3>3 DEF Shared!Return, Shared!Pending, OutOf
    <3> QED BY <3>3, <3>4 DEF Shared!Next
  <2> QED BY <2>1, <2>4, <2>5
<1>3. CASE Publish \/ Release
  <2>1. UNCHANGED <<at, x, right>>
    BY <1>3, PublishIdle, ReleaseIdle DEF party
  <2> QED BY <1>1, <2>1
<1>4. CASE UNCHANGED vars
  BY <1>1, <1>4 DEF vars, party
<1> QED BY <1>2, <1>3, <1>4 DEF Next

(* The engine's shachain keeps the promise of an evaluation backend: every *)
(* party returns once, and those that return components hold one sharing   *)
(* of the right leaves (PartyBackend and Backend of engine.rs).            *)
THEOREM ChainImplements == Spec => ImplementsSharedResult
<1>1. Init => Shared!Init
  BY DEF Init, Shared!Init, Shared!Parties, Parties, Shared!Pending
<1>2. PlacesInv /\ [Next]_vars /\ Shared!Agreement' => [Shared!Next]_<<right, OutOf(at, x)>>
  BY ResultStep
<1>3. IInv => PlacesInv
  BY DEF IInv
<1> QED BY <1>1, <1>2, <1>3, CourseFollowed, BlockAgreed, SpecSafety, PTL
        DEF ImplementsSharedResult, Shared!Spec, OutOf

-----------------------------------------------------------------------------
(* The adapter: one lying party is noticed, so what is published and       *)
(* released are the honest values.                                         *)

LeafPairs(l) == [p \in Parties |-> Components(p, l)]
PadPairs(l) == [p \in Parties |-> Summands(p, RootIndex + l)]
MaskedPairs(l) == [p \in Parties |-> MaskedPair(p, l)]

(* What is published is the block under its pads, and what is released is  *)
(* the block.                                                              *)
AdapterInv ==
    /\ ~Ready => masked = << >> /\ released = << >>
    /\ DOMAIN released \subseteq DOMAIN masked
    /\ \A l \in DOMAIN masked : masked[l] = Reconstructed(MaskedPairs(l))
    /\ \A l \in DOMAIN released : released[l] = Reconstructed(LeafPairs(l))

(* A lie about honest, fitting pairs does not fit.                         *)
LEMMA LieNoticed ==
    ASSUME NEW honest, Consistent(honest), NEW by \in Parties, NEW e \in Lies,
           DOMAIN honest = Parties
    PROVE  ~Consistent([honest EXCEPT ![by] = PairXor(@, e)])
<1> DEFINE pairs == [honest EXCEPT ![by] = PairXor(@, e)]
<1>1. NextOf(by) \in Parties /\ NextOf(by) # by /\ PrevOf(by) \in Parties /\ PrevOf(by) # by
      /\ NextOf(PrevOf(by)) = by
  BY RingFacts
<1>2. /\ honest[by][2] = honest[NextOf(by)][1] /\ honest[PrevOf(by)][2] = honest[by][1]
  BY <1>1 DEF Consistent
<1>3. /\ pairs[by] = PairXor(honest[by], e) /\ pairs[NextOf(by)] = honest[NextOf(by)]
      /\ pairs[PrevOf(by)] = honest[PrevOf(by)]
  BY <1>1
<1> HIDE DEF pairs
<1> SUFFICES ASSUME Consistent(pairs) PROVE FALSE
  BY DEF pairs
<1>4. pairs[by][2] = pairs[NextOf(by)][1] /\ pairs[PrevOf(by)][2] = pairs[by][1]
  BY <1>1 DEF Consistent
<1>5. /\ honest[by][2] ## e[2] = honest[by][2] /\ honest[by][1] ## e[1] = honest[by][1]
  BY <1>2, <1>3, <1>4 DEF PairXor
<1>6. e \in {{}, {0}} \X {{}, {0}} /\ e # <<{}, {}>>
  BY DEF Lies, NoPair
<1>7. e[1] = {0} \/ e[2] = {0}
  BY <1>6
<1>8. \A a : a ## {0} # a
  <2> SUFFICES ASSUME NEW a, a ## {0} = a PROVE FALSE
    OBVIOUS
  <2>1. 0 \in (a ## {0}) <=> 0 \notin a
    BY InSymDiff
  <2> QED BY <2>1
<1> QED BY <1>5, <1>7, <1>8

(* Pads, and a finished block under them, fit.                             *)
LEMMA PadsFit == \A l : Consistent(PadPairs(l))
<1> SUFFICES ASSUME NEW l, NEW p \in Parties PROVE PadPairs(l)[p][2] = PadPairs(l)[NextOf(p)][1]
  BY DEF Consistent
<1>1. NextOf(p) \in Parties /\ PrevOf(NextOf(p)) = p
  BY RingFacts
<1> QED BY <1>1 DEF PadPairs, Summands, Halves

(* Parties that have all returned hold one sharing.                        *)
LEMMA BlockFits ==
    ASSUME IInv, Ready
    PROVE  \A p \in Parties : \A m \in Entries : x[p][m][2] = x[NextOf(p)][m][1]
<1> SUFFICES ASSUME NEW p \in Parties, NEW m \in Entries PROVE x[p][m][2] = x[NextOf(p)][m][1]
  OBVIOUS
<1>1. NextOf(p) \in Parties
  BY RingFacts
<1>2. hash[p] = hash[NextOf(p)] /\ phase[p] = phase[NextOf(p)] /\ at[p] = at[NextOf(p)] /\ at[p] # "aborted"
  BY <1>1 DEF IInv, PlacesInv, Ready
<1> QED BY <1>2, InvLockstep DEF Lockstep

(* So do the masked pairs they answer with.                                *)
LEMMA MaskedFit ==
    ASSUME IInv, Ready
    PROVE  \A l : Consistent(MaskedPairs(l))
<1> SUFFICES ASSUME NEW l, NEW p \in Parties PROVE MaskedPairs(l)[p][2] = MaskedPairs(l)[NextOf(p)][1]
  BY DEF Consistent
<1>1. NextOf(p) \in Parties
  BY RingFacts
<1>2. Components(p, l)[2] = Components(NextOf(p), l)[1]
  BY <1>1, BlockFits DEF Components
<1>3. Summands(p, RootIndex + l)[2] = Summands(NextOf(p), RootIndex + l)[1]
  BY <1>1, PadsFit DEF PadPairs, Consistent
<1> QED BY <1>1, <1>2, <1>3, XorFits DEF MaskedPairs, MaskedPair

(* What publishing and releasing do, whoever answers what.                 *)
LEMMA PublishEffect ==
    ASSUME IInv, Publish
    PROVE  /\ Ready /\ UNCHANGED released
           /\ \/ masked' = Recorded(masked, LaneNow, Reconstructed(MaskedPairs(LaneNow)))
              \/ UNCHANGED masked
<1> DEFINE honest == [p \in Parties |-> MaskedPair(p, LaneNow)]
           Uses(pairs) == IF Consistent(pairs)
                            THEN masked' = Recorded(masked, LaneNow, Reconstructed(pairs)) /\ UNCHANGED released
                            ELSE UNCHANGED <<masked, released>>
<1>1. Ready
  BY DEF Publish
<1>2. \/ Uses(honest)
      \/ \E by \in Parties, e \in Lies : Uses([honest EXCEPT ![by] = PairXor(@, e)])
  BY DEF Publish, Asked, Used
<1>3. honest = MaskedPairs(LaneNow) /\ DOMAIN honest = Parties /\ Consistent(honest)
  <2>1. honest = MaskedPairs(LaneNow) /\ DOMAIN honest = Parties
    BY DEF MaskedPairs
  <2> HIDE DEF honest
  <2> QED BY <1>1, <2>1, MaskedFit
<1> HIDE DEF honest
<1>4. ASSUME NEW by \in Parties, NEW e \in Lies, Uses([honest EXCEPT ![by] = PairXor(@, e)])
      PROVE  UNCHANGED <<masked, released>>
  BY <1>3, <1>4, LieNoticed
<1> QED BY <1>1, <1>2, <1>3, <1>4

(* A release takes the pads off what was published, or nothing happens.    *)
LEMMA ReleaseEffect ==
    ASSUME IInv, Release
    PROVE  /\ Ready /\ UNCHANGED masked /\ LaneNow \in DOMAIN masked
           /\ \/ released' = Recorded(released, LaneNow, Opened(masked[LaneNow], Reconstructed(PadPairs(LaneNow))))
              \/ UNCHANGED released
<1> DEFINE honest == [p \in Parties |-> Summands(p, RootIndex + LaneNow)]
           Uses(pairs) == IF Consistent(pairs)
                            THEN /\ released' = Recorded(released, LaneNow, Opened(masked[LaneNow], Reconstructed(pairs)))
                                 /\ UNCHANGED masked
                            ELSE UNCHANGED <<masked, released>>
<1>1. Ready /\ LaneNow \in DOMAIN masked
  BY DEF Release
<1>2. \/ Uses(honest)
      \/ \E by \in Parties, e \in Lies : Uses([honest EXCEPT ![by] = PairXor(@, e)])
  BY DEF Release, Asked, Used
<1>3. honest = PadPairs(LaneNow) /\ DOMAIN honest = Parties /\ Consistent(honest)
  <2>1. honest = PadPairs(LaneNow) /\ DOMAIN honest = Parties
    BY DEF PadPairs
  <2> HIDE DEF honest
  <2> QED BY <2>1, PadsFit
<1> HIDE DEF honest
<1>4. ASSUME NEW by \in Parties, NEW e \in Lies, Uses([honest EXCEPT ![by] = PairXor(@, e)])
      PROVE  UNCHANGED <<masked, released>>
  BY <1>3, <1>4, LieNoticed
<1> QED BY <1>1, <1>2, <1>3, <1>4

(* The pads come off.                                                      *)
LEMMA PadsOff ==
    ASSUME NEW l
    PROVE  Opened(Reconstructed(MaskedPairs(l)), Reconstructed(PadPairs(l))) = Reconstructed(LeafPairs(l))
<1> DEFINE a == Components(0, l)[1]
           b == Components(1, l)[1]
           d == Components(2, l)[1]
           s == Summands(0, RootIndex + l)[1]
           t == Summands(1, RootIndex + l)[1]
           u == Summands(2, RootIndex + l)[1]
<1>1. /\ Reconstructed(MaskedPairs(l)) = (a ## s) ## (b ## t) ## (d ## u)
      /\ Reconstructed(PadPairs(l)) = s ## t ## u
      /\ Reconstructed(LeafPairs(l)) = a ## b ## d
  <2>1. 0 \in Parties /\ 1 \in Parties /\ 2 \in Parties
    BY DEF Parties
  <2> QED BY <2>1 DEF Reconstructed, MaskedPairs, MaskedPair, PadPairs, LeafPairs, PairXor
<1> HIDE DEF a, b, d, s, t, u
<1>2. ASSUME NEW k
      PROVE  k \in ((a ## s) ## (b ## t) ## (d ## u)) ## (s ## t ## u) <=> k \in (a ## b ## d)
  BY InSymDiff
<1> QED BY <1>1, <1>2 DEF Opened

(* At the start the adapter has nothing.                                   *)
LEMMA InitAdapter == Init => AdapterInv
<1> SUFFICES ASSUME Init PROVE AdapterInv
  OBVIOUS
<1>1. masked = << >> /\ released = << >>
  BY DEF Init
<1>2. DOMAIN << >> = {}
  OBVIOUS
<1> QED BY <1>1, <1>2 DEF AdapterInv

(* What the parties have returned with does not change any more.           *)
LEMMA BlockStays ==
    ASSUME Ready, [Next]_vars
    PROVE  Ready' /\ UNCHANGED <<x, random>>
<1>1. \A p \in Parties : at[p] = "done"
  BY DEF Ready
<1>2. CASE UNCHANGED vars
  BY <1>2 DEF vars, party, Ready
<1>3. CASE Publish \/ Release
  BY <1>3, PublishIdle, ReleaseIdle DEF party, Ready
<1>4. ASSUME NEW p \in Parties, Step(p) \/ Dies(p) PROVE FALSE
  BY <1>1, <1>4 DEF Step, SendProducts, TakeSeconds, Cascade, Dies
<1> QED BY <1>2, <1>3, <1>4 DEF Next

(* The honest answers depend on the block and the keys alone.              *)
LEMMA PairsStay ==
    ASSUME UNCHANGED <<x, random>>
    PROVE  /\ \A l : MaskedPairs(l)' = MaskedPairs(l)
           /\ \A l : PadPairs(l)' = PadPairs(l)
           /\ \A l : LeafPairs(l)' = LeafPairs(l)
BY DEF MaskedPairs, MaskedPair, PadPairs, LeafPairs, Components, Summands

(* A party's step comes before the adapter's.                              *)
LEMMA PartyAdapter ==
    ASSUME NEW p \in Parties, Step(p) \/ Dies(p)
    PROVE  UNCHANGED <<masked, released>> /\ ~Ready
<1>1. at[p] # "done"
  BY DEF Step, SendProducts, TakeSeconds, Cascade, Dies
<1>2. UNCHANGED <<masked, released>>
  BY DEF Step, SendProducts, TakeSeconds, Cascade, Dies, Aborts, adapter
<1> QED BY <1>1, <1>2 DEF Ready

(* Every step keeps what the adapter has put together right.               *)
LEMMA StepAdapter == IInv /\ AdapterInv /\ [Next]_vars => AdapterInv'
<1> SUFFICES ASSUME IInv, AdapterInv, [Next]_vars PROVE AdapterInv'
  OBVIOUS
<1>1. CASE ~Ready
  <2>1. masked = << >> /\ released = << >> /\ DOMAIN << >> = {}
    BY <1>1 DEF AdapterInv
  <2>2. UNCHANGED <<masked, released>>
    <3>1. CASE UNCHANGED vars
      BY <3>1 DEF vars, adapter
    <3>2. CASE Publish \/ Release
      BY <1>1, <3>2 DEF Publish, Release
    <3> QED BY <3>1, <3>2, PartyAdapter DEF Next
  <2> QED BY <2>1, <2>2 DEF AdapterInv
<1>2. CASE Ready
  <2>1. Ready' /\ UNCHANGED <<x, random>>
    BY <1>2, BlockStays
  <2>2. /\ \A l : MaskedPairs(l)' = MaskedPairs(l)
        /\ \A l : LeafPairs(l)' = LeafPairs(l)
    BY <2>1, PairsStay
  <2>3. CASE UNCHANGED <<masked, released>>
    BY <2>1, <2>2, <2>3 DEF AdapterInv, Reconstructed
  <2>4. CASE Publish
    <3>1. CASE UNCHANGED masked
      BY <2>3, <2>4, <3>1, PublishEffect
    <3>2. CASE masked' = Recorded(masked, LaneNow, Reconstructed(MaskedPairs(LaneNow)))
      <4> DEFINE L == LaneNow
      <4>1. UNCHANGED released
        BY <2>4, PublishEffect
      <4>2. /\ DOMAIN masked' = DOMAIN masked \cup {L}
            /\ \A l \in DOMAIN masked' : masked'[l] = IF l = L THEN Reconstructed(MaskedPairs(L)) ELSE masked[l]
        <5> HIDE DEF L
        <5> QED BY <3>2 DEF L, Recorded
      <4> HIDE DEF L
      <4>3. \A l \in DOMAIN masked' : masked'[l] = Reconstructed(MaskedPairs(l))
        BY <4>2 DEF AdapterInv
      <4>4. \A l : Reconstructed(MaskedPairs(l))' = Reconstructed(MaskedPairs(l))
        BY <2>2 DEF Reconstructed
      <4>5. \A l : Reconstructed(LeafPairs(l))' = Reconstructed(LeafPairs(l))
        BY <2>2 DEF Reconstructed
      <4> QED BY <2>1, <4>1, <4>2, <4>3, <4>4, <4>5 DEF AdapterInv
    <3> QED BY <2>4, <3>1, <3>2, PublishEffect
  <2>5. CASE Release
    <3>1. CASE UNCHANGED released
      BY <2>3, <2>5, <3>1, ReleaseEffect
    <3>2. CASE released' = Recorded(released, LaneNow, Opened(masked[LaneNow], Reconstructed(PadPairs(LaneNow))))
      <4> DEFINE L == LaneNow
      <4>1. UNCHANGED masked /\ L \in DOMAIN masked
        BY <2>5, ReleaseEffect
      <4>2. Opened(masked[L], Reconstructed(PadPairs(L))) = Reconstructed(LeafPairs(L))
        BY <4>1, PadsOff DEF AdapterInv
      <4>3. /\ DOMAIN released' = DOMAIN released \cup {L}
            /\ \A l \in DOMAIN released' : released'[l] = IF l = L THEN Reconstructed(LeafPairs(L)) ELSE released[l]
        <5> HIDE DEF L
        <5> QED BY <3>2, <4>2 DEF L, Recorded
      <4> HIDE DEF L
      <4>4. \A l \in DOMAIN released' : released'[l] = Reconstructed(LeafPairs(l))
        BY <4>3 DEF AdapterInv
      <4>5. \A l : Reconstructed(MaskedPairs(l))' = Reconstructed(MaskedPairs(l))
        BY <2>2 DEF Reconstructed
      <4>6. \A l : Reconstructed(LeafPairs(l))' = Reconstructed(LeafPairs(l))
        BY <2>2 DEF Reconstructed
      <4>7. DOMAIN released' \subseteq DOMAIN masked'
        BY <4>1, <4>3 DEF AdapterInv
      <4> QED BY <2>1, <4>1, <4>4, <4>5, <4>6, <4>7 DEF AdapterInv
    <3> QED BY <2>5, <3>1, <3>2, ReleaseEffect
  <2>6. CASE UNCHANGED vars
    BY <2>3, <2>6 DEF vars, adapter
  <2>7. ASSUME NEW p \in Parties, Step(p) \/ Dies(p) PROVE FALSE
    BY <1>2, <2>7, PartyAdapter
  <2> QED BY <2>4, <2>5, <2>6, <2>7 DEF Next
<1> QED BY <1>1, <1>2

(* What is published is the masked block, and what is released the block.  *)
LEMMA AdapterInvariant == Spec => []AdapterInv
<1> QED BY InitAdapter, StepAdapter, CourseFollowed, SpecSafety, PTL

(* The block's entries are those of a value.                               *)
RightDomain == DOMAIN right = Entries

(* The leaves to compute are the reference's throughout.                   *)
LEMMA RightKept == Spec => []RightDomain
<1>1. SeedInv => RightDomain
  BY DEF SeedInv, RightDomain, Leaves
<1> QED BY <1>1, SeedKept, PTL

(* The leaves of a block that keeps the backend's promise: two parties'    *)
(* pairs are all three components.                                         *)
LEMMA OpenedBlock ==
    ASSUME RightDomain, Shared!Agreement, Ready, IInv, NEW l, NEW m \in Entries
    PROVE  m \in Reconstructed(LeafPairs(l)) <=> l \in right[m]
<1>1. 0 \in Parties /\ 1 \in Parties /\ 2 \in Parties /\ NextOf(0) = 1 /\ NextOf(1) = 2
  BY DEF Parties, NextOf
<1>2. Shared!Parties = Parties /\ Shared!NextOf(0) = 1
  BY DEF Shared!Parties, Parties, Shared!NextOf
<1>3. Shared!Returned(0) /\ Shared!Returned(1)
  BY <1>1 DEF Shared!Returned, Ready
<1>4. Shared!Fits(0, m)
  BY <1>1, <1>2, <1>3 DEF Shared!Agreement, RightDomain
<1>5. \A a, b : Shared!SymDiff(a, b) = SymDiff(a, b)
  BY DEF Shared!SymDiff, SymDiff
<1>6. x[0][m][1] ## x[0][m][2] ## x[1][m][2] = right[m]
  BY <1>1, <1>2, <1>4, <1>5 DEF Shared!Fits, Ready, ##, Shared!##
<1>7. x[0][m][2] = x[1][m][1] /\ x[1][m][2] = x[2][m][1]
  BY <1>1, BlockFits
<1>8. x[0][m][1] ## x[1][m][1] ## x[2][m][1] = right[m]
  BY <1>6, <1>7
<1> QED BY <1>1, <1>8, InSymDiff DEF Reconstructed, LeafPairs, Components

(* An opened leaf is made up of entries of a value.                        *)
LEMMA LeafOfEntries == \A l : Reconstructed(LeafPairs(l)) \subseteq Entries
<1> SUFFICES ASSUME NEW l, NEW m \in Reconstructed(LeafPairs(l)) PROVE m \in Entries
  OBVIOUS
<1>1. 0 \in Parties /\ 1 \in Parties /\ 2 \in Parties
  BY DEF Parties
<1>2. \A p \in Parties : LeafPairs(l)[p] = Components(p, l)
  BY DEF LeafPairs
<1>3. \A p : Components(p, l)[1] = {e \in Entries : l \in x[p][e][1]}
  BY DEF Components
<1> QED BY <1>1, <1>2, <1>3, InSymDiff DEF Reconstructed

(* A released leaf is the one BOLT #3 derives, through walk, expansion,    *)
(* masking and release, whatever one party at a time answers the adapter   *)
(* (chain.rs:145).                                                         *)
THEOREM ReleasesRight == Spec => []ReleasedRight
<1>1. IInv /\ AdapterInv /\ RightDomain /\ Shared!Agreement => ReleasedRight
  <2> SUFFICES ASSUME IInv, AdapterInv, RightDomain, Shared!Agreement, NEW l \in DOMAIN released
               PROVE  released[l] = {m \in Entries : l \in right[m]}
    BY DEF ReleasedRight
  <2>1. Ready
    <3>1. DOMAIN << >> = {}
      OBVIOUS
    <3> QED BY <3>1 DEF AdapterInv
  <2>2. released[l] = Reconstructed(LeafPairs(l))
    BY DEF AdapterInv
  <2> QED BY <2>1, <2>2, LeafOfEntries, OpenedBlock
<1> QED BY <1>1, CourseFollowed, AdapterInvariant, RightKept, BlockAgreed, PTL

-----------------------------------------------------------------------------
(* Types: nothing but the lanes of a hash gets onto its wires.             *)

Narrow(t, D, all) == \A w \in D : t[w][1] \subseteq all /\ t[w][2] \subseteq all

(* Values within some lanes, XORed, and what local gates make of them.     *)
LEMMA XorNarrow ==
    ASSUME NEW a, NEW b, NEW all, a[1] \subseteq all, a[2] \subseteq all,
           b[1] \subseteq all, b[2] \subseteq all
    PROVE  PairXor(a, b)[1] \subseteq all /\ PairXor(a, b)[2] \subseteq all
<1>1. ASSUME NEW s, NEW u, s \subseteq all, u \subseteq all PROVE (s ## u) \subseteq all
  <2>1. \A l \in s ## u : l \in s \/ l \in u
    BY InSymDiff
  <2> QED BY <1>1, <2>1
<1>2. PairXor(a, b)[1] = a[1] ## b[1] /\ PairXor(a, b)[2] = a[2] ## b[2]
  BY DEF PairXor
<1> QED BY <1>1, <1>2

(* A public constant of some lanes has no others.                          *)
LEMMA PublicNarrow ==
    ASSUME NEW p, NEW v, NEW all, v \subseteq all
    PROVE  PublicPair(p, v)[1] \subseteq all /\ PublicPair(p, v)[2] \subseteq all
BY DEF PublicPair

(* local_gate (engine.rs): no lane comes out that did not go in.           *)
LEMMA LocalNarrow ==
    ASSUME NEW p \in Parties, NEW n \in Nat, NEW gates, DOMAIN gates = 1..n, NEW D,
           \A i \in 1..n : gates[i].left \in D /\ gates[i].right \in D,
           NEW t, DOMAIN t = D, NEW all, Narrow(t, D, all)
    PROVE  Narrow(LocalGates(p, gates, t, all), D, all)
<1> DEFINE a == [seq |-> gates, p |-> p, all |-> all]
<1>1. PICK f : Runs(f, "local", a, t, n) /\ LocalGates(p, gates, t, all) = f[n]
  BY LocalGatesRuns
<1> DEFINE S == {k \in 0..n : DOMAIN f[k] = D /\ Narrow(f[k], D, all)}
<1>2. 0 \in S
  BY <1>1 DEF Runs
<1>3. ASSUME NEW k \in 0..(n - 1), k \in S PROVE k + 1 \in S
  <2> DEFINE r == k + 1
             g == gates[r]
             v == LocalValue(p, g, f[k], all)
  <2>1. f[r] = [f[k] EXCEPT ![g.out] = v]
    BY <1>1 DEF Runs, FoldStep, GateValue
  <2>2. g.left \in D /\ g.right \in D /\ r \in 0..n
    OBVIOUS
  <2>3. DOMAIN f[k] = D /\ Narrow(f[k], D, all)
    BY <1>3
  <2>4. v[1] \subseteq all /\ v[2] \subseteq all
    <3>1. /\ PublicPair(p, all)[1] \subseteq all /\ PublicPair(p, all)[2] \subseteq all
          /\ f[k][g.left][1] \subseteq all /\ f[k][g.left][2] \subseteq all
          /\ f[k][g.right][1] \subseteq all /\ f[k][g.right][2] \subseteq all
      BY <2>2, <2>3, PublicNarrow DEF Narrow
    <3> DEFINE y == f[k][g.left]
               z == f[k][g.right]
               c == PublicPair(p, all)
    <3>2. v = PairXor(y, z) \/ v = PairXor(y, c)
      BY DEF LocalValue
    <3> HIDE DEF v, y, z, c
    <3>3. /\ y[1] \subseteq all /\ y[2] \subseteq all
          /\ z[1] \subseteq all /\ z[2] \subseteq all
          /\ c[1] \subseteq all /\ c[2] \subseteq all
      BY <3>1 DEF y, z, c
    <3>4. PairXor(y, z)[1] \subseteq all /\ PairXor(y, z)[2] \subseteq all
      BY <3>3, XorNarrow
    <3>5. PairXor(y, c)[1] \subseteq all /\ PairXor(y, c)[2] \subseteq all
      BY <3>3, XorNarrow
    <3> QED BY <3>2, <3>4, <3>5
  <2> HIDE DEF v, g, r, S
  <2>5. \A w \in D : f[r][w] = IF w = g.out THEN v ELSE f[k][w]
    BY <2>1, <2>3
  <2>6. DOMAIN f[r] = D /\ Narrow(f[r], D, all)
    BY <2>1, <2>3, <2>4, <2>5 DEF Narrow
  <2> QED BY <2>2, <2>6 DEF S, r
<1>4. n \in S
  <2> HIDE DEF S
  <2>1. \A k \in 0..n : k \in S
    BY <1>2, <1>3, UpTo
  <2> QED BY <2>1
<1> QED BY <1>1, <1>4

(* build_tape (sha256.rs): a hash begins with the lanes it is for.         *)
LEMMA BegunNarrow ==
    ASSUME NEW p \in Parties, NEW v, DOMAIN v = Entries, NEW h, Narrow(v, Entries, All(h))
    PROVE  Narrow(Begun(p, v, h), HashWires, All(h))
<1> DEFINE all == All(h)
           b == FlipBit(h)
           vv == Flipped(p, v, h)
           T == BuildTape(p, vv, all)
<1>1. \A m \in Entries : vv[m] = IF m = b THEN PairXor(v[m], PublicPair(p, all)) ELSE v[m]
  BY DEF Flipped
<1>2. Narrow(v, Entries, all)
  OBVIOUS
<1> HIDE DEF vv, b, all
<1>3. \A m \in Entries : vv[m][1] \subseteq all /\ vv[m][2] \subseteq all
  <2> TAKE m \in Entries
  <2>1. /\ v[m][1] \subseteq all /\ v[m][2] \subseteq all
        /\ PublicPair(p, all)[1] \subseteq all /\ PublicPair(p, all)[2] \subseteq all
    BY <1>2, PublicNarrow DEF Narrow
  <2>2. PairXor(v[m], PublicPair(p, all))[1] \subseteq all /\ PairXor(v[m], PublicPair(p, all))[2] \subseteq all
    BY <2>1, XorNarrow
  <2> QED BY <1>1, <2>1, <2>2
<1>4. ASSUME NEW w \in HashWires PROVE T[w][1] \subseteq all /\ T[w][2] \subseteq all
  <2> DEFINE state0 == InputOffset(HashCircuit, 1)
             m == EntryOn(w, BlockBytes)
             a == IF m \in Padding THEN all ELSE {}
             c == IF EntryOn(w - state0, MsgBytes) \in IV THEN all ELSE {}
  <2>1. T[w] = IF w < state0 THEN IF m \in Entries THEN vv[m] ELSE PublicPair(p, a)
               ELSE IF w < state0 + Cardinality(Entries) THEN PublicPair(p, c) ELSE NoPair
    BY <1>4 DEF BuildTape, HashWires
  <2>2. a \subseteq all /\ c \subseteq all
    OBVIOUS
  <2> HIDE DEF state0, m, a, c, T
  <2>3. /\ PublicPair(p, a)[1] \subseteq all /\ PublicPair(p, a)[2] \subseteq all
        /\ PublicPair(p, c)[1] \subseteq all /\ PublicPair(p, c)[2] \subseteq all
        /\ NoPair[1] \subseteq all /\ NoPair[2] \subseteq all
    BY <2>2, PublicNarrow DEF NoPair
  <2> QED BY <1>3, <2>1, <2>3
<1>5. Begun(p, v, h) = T
  BY DEF Begun, vv, all
<1> HIDE DEF T
<1> QED BY <1>4, <1>5 DEF Narrow, all

(* A round of all three (eval_circuit): the products and the components    *)
(* received keep to the lanes of the hash.                                 *)
LEMMA TapeInNarrow ==
    ASSUME NEW g, Fits(g), NEW h, NEW f \in 0..(Depth - 1),
           \A p \in Parties : Narrow(g.tape[p], HashWires, All(h)), NEW p \in Parties
    PROVE  Narrow(TapeIn(g, p, h, f), HashWires, All(h))
<1> DEFINE q == NextOf(p)
           all == All(h)
           ands == Sched.ands[f]
           t == LocalsOf(p, g.tape[p], h, f)
           a == SentIn(g, p, h, f)
           b == SentIn(g, q, h, f)
<1>1. q \in Parties
  BY RingFacts
<1>2. f \in 0..Sched.depth
  BY SizeFacts DEF Depth
<1>3. ASSUME NEW s \in Parties
      PROVE  /\ Tape(LocalsOf(s, g.tape[s], h, f), HashWires)
             /\ Narrow(LocalsOf(s, g.tape[s], h, f), HashWires, all)
  <2> DEFINE gates == Sched.locals[f]
             n == Len(gates)
  <2>1. /\ n \in Nat /\ DOMAIN gates = 1..n
        /\ \A i \in 1..n : IsGate(HashCircuit, gates[i])
    BY <1>2, ScheduledGates
  <2>2. \A i \in 1..n : gates[i].left \in HashWires /\ gates[i].right \in HashWires
    BY <2>1 DEF HashWires, IsGate
  <2>3. /\ Tape(g.tape[s], HashWires) /\ Fitting(g.tape[s], g.tape[NextOf(s)], HashWires)
        /\ Tape(g.tape[NextOf(s)], HashWires)
    BY RingFacts DEF Fits
  <2>4. DOMAIN g.tape[s] = HashWires
    BY <2>3 DEF Tape
  <2>5. Narrow(g.tape[s], HashWires, all)
    OBVIOUS
  <2> HIDE DEF n, gates, all
  <2>6. Narrow(LocalGates(s, gates, g.tape[s], all), HashWires, all)
    BY <2>1, <2>2, <2>4, <2>5, LocalNarrow
  <2>7. Tape(LocalGates(s, gates, g.tape[s], all), HashWires)
    BY <2>1, <2>2, <2>3, LocalGatesFit
  <2> QED BY <2>6, <2>7 DEF LocalsOf, gates, all
<1>4. ASSUME NEW s \in Parties, NEW k \in DOMAIN ands PROVE SentIn(g, s, h, f)[k] \subseteq all
  <2> DEFINE u == LocalsOf(s, g.tape[s], h, f)
             e == ands[k]
             z == ZeroWord(random.stream, s, g.draws + k) \cap all
  <2>1. e.left \in HashWires /\ e.right \in HashWires
    <3>1. /\ DOMAIN ands = 1..Len(ands)
          /\ \A i \in 1..Len(ands) : IsGate(HashCircuit, ands[i])
      BY <1>2, ScheduledGates
    <3>2. IsGate(HashCircuit, e)
      BY <3>1
    <3> HIDE DEF e
    <3> QED BY <3>2 DEF IsGate, HashWires
  <2>2. SentIn(g, s, h, f)[k] = Product(e, u, z)
    BY DEF SentIn, ProductsOf
  <2>3. u[e.left][1] \subseteq all /\ u[e.left][2] \subseteq all /\ z \subseteq all
    BY <1>3, <2>1 DEF Narrow
  <2> HIDE DEF u, e, z, all
  <2>4. ASSUME NEW l \in Product(e, u, z) PROVE l \in all
    <3> DEFINE A == u[e.left][1] \cap u[e.right][1]
               B == u[e.left][1] \cap u[e.right][2]
               C == u[e.left][2] \cap u[e.right][1]
    <3>1. Product(e, u, z) = A ## B ## C ## z
      BY DEF Product
    <3>2. A \subseteq all /\ B \subseteq all /\ C \subseteq all
      BY <2>3
    <3> HIDE DEF A, B, C
    <3>3. l \in A \/ l \in B \/ l \in C \/ l \in z
      BY <2>4, <3>1, InSymDiff
    <3> QED BY <2>3, <3>2, <3>3
  <2> QED BY <2>2, <2>4
<1> DEFINE On(w) == \E k \in DOMAIN ands : ands[k].out = w
           Place(w) == CHOOSE k \in DOMAIN ands : ands[k].out = w
           T == TapeIn(g, p, h, f)
           tt == WithComponent(t, ands, 1, a)
<1>5. T = WithComponent(tt, ands, 2, b)
  BY DEF TapeIn, FirstsIn, SentIn
<1>6. Tape(t, HashWires) /\ DOMAIN t = HashWires /\ Narrow(t, HashWires, all)
  <2>1. Tape(t, HashWires) /\ Narrow(t, HashWires, all)
    BY <1>3
  <2> HIDE DEF t
  <2> QED BY <2>1 DEF Tape
<1>7. /\ \A k \in DOMAIN ands : a[k] \subseteq all
      /\ \A k \in DOMAIN ands : b[k] \subseteq all
  BY <1>1, <1>4
<1> HIDE DEF T, t, a, b, all, ands
<1>8. tt = [w \in HashWires |-> IF On(w) THEN [t[w] EXCEPT ![1] = a[Place(w)]] ELSE t[w]]
  BY <1>6, Zenon DEF WithComponent
<1> HIDE DEF tt
<1>9. DOMAIN tt = HashWires
  BY <1>8
<1>10. T = [w \in HashWires |-> IF On(w) THEN [tt[w] EXCEPT ![2] = b[Place(w)]] ELSE tt[w]]
  BY <1>5, <1>9, Zenon DEF WithComponent
<1>11. ASSUME NEW w \in HashWires PROVE T[w][1] \subseteq all /\ T[w][2] \subseteq all
  <2>1. t[w][1] \subseteq all /\ t[w][2] \subseteq all
    BY <1>6 DEF Narrow
  <2>2. CASE On(w)
    <3> DEFINE k == Place(w)
    <3>1. k \in DOMAIN ands
      BY <2>2
    <3>2. T[w] = [tt[w] EXCEPT ![2] = b[k]] /\ tt[w] = [t[w] EXCEPT ![1] = a[k]]
      BY <1>8, <1>10, <2>2
    <3>3. a[k] \subseteq all /\ b[k] \subseteq all
      BY <1>7, <3>1
    <3> HIDE DEF k
    <3>4. t[w] = <<t[w][1], t[w][2]>>
      BY <1>6, Zenon DEF Tape
    <3>5. tt[w] = <<a[k], t[w][2]>>
      BY <3>2, <3>4
    <3>6. T[w] = <<a[k], b[k]>>
      BY <3>2, <3>5
    <3> QED BY <3>3, <3>6
  <2>3. CASE ~On(w)
    <3>1. T[w] = t[w]
      BY <1>8, <1>10, <2>3
    <3> QED BY <2>1, <3>1
  <2> QED BY <2>2, <2>3
<1> QED BY <1>11 DEF Narrow, T, all

(* Tapes and values keep to the lanes of the hash they are at.             *)
Slim(g, h) ==
    /\ h <= Hashes => \A p \in Parties : Narrow(g.tape[p], HashWires, All(h))
    /\ \A p \in Parties : Narrow(g.x[p], Entries, All(h))
    /\ g.draws \in Nat

(* The lanes of a hash are those of the block's words at most; the walk    *)
(* has one lane, and a level of the expansion twice as many as the last.   *)
LEMMA LanesGrow ==
    ASSUME NEW h \in 1..Hashes
    PROVE  /\ LanesIn(h) \in Nat \ {0}
           /\ InWalk(h) => LanesIn(h + 1) = LanesIn(h)
           /\ ~InWalk(h) => LanesIn(h + 1) = 2 * LanesIn(h)
<1>1. /\ Width \in Nat /\ H \in 1..Width /\ Width <= ValueBits
      /\ Hashes = Width /\ Edges = Width - H /\ ValueBits \in Nat \ {0} /\ TopBit = 2 * ValueBits
  BY ChainSizes, SizeFacts, HashOffsets DEF ValueBits, TopBit, Edges
<1>2. LanesIn(h) \in Nat \ {0}
  <2>1. h \in 1..(Hashes + 1)
    BY <1>1
  <2> QED BY <2>1, HashPlaces
<1>3. ASSUME InWalk(h) PROVE LanesIn(h + 1) = LanesIn(h)
  <2>1. LanesIn(h) = 1
    BY <1>3 DEF LanesIn
  <2>2. CASE InWalk(h + 1)
    BY <2>1, <2>2 DEF LanesIn
  <2>3. CASE ~InWalk(h + 1)
    <3>1. (h + 1) - Edges - 1 = 0
      BY <1>1, <1>3, <2>3 DEF InWalk
    <3>2. LanesIn(h + 1) = 2^((h + 1) - Edges - 1)
      BY <2>3 DEF LanesIn
    <3> QED BY <2>1, <3>1, <3>2, Doubles
  <2> QED BY <2>2, <2>3
<1>4. ASSUME ~InWalk(h) PROVE LanesIn(h + 1) = 2 * LanesIn(h)
  <2> DEFINE n == h - Edges - 1
  <2>1. ~InWalk(h + 1) /\ n \in 0..TopBit /\ (h + 1) - Edges - 1 = n + 1
    BY <1>1, <1>4 DEF InWalk
  <2>2. LanesIn(h) = 2^n
    BY <1>4 DEF LanesIn
  <2>3. LanesIn(h + 1) = 2^(n + 1)
    <3>1. LanesIn(h + 1) = 2^((h + 1) - Edges - 1)
      BY <2>1 DEF LanesIn
    <3> HIDE DEF n
    <3> QED BY <2>1, <3>1
  <2> HIDE DEF n
  <2> QED BY <2>1, <2>2, <2>3, Doubles
<1> QED BY <1>2, <1>3, <1>4

(* Words have the lanes they are for, and more lanes if they are for more. *)
LEMMA LanesCover ==
    ASSUME NEW n \in Nat, NEW m \in Nat, n <= m
    PROVE  0..(n - 1) \subseteq Lanes(n) /\ Lanes(n) \subseteq Lanes(m)
<1> DEFINE L == LaneWidth
           i == n + L - 1
           j == m + L - 1
           q == i \div L
           k == j \div L
<1>1. L \in Nat \ {0} /\ i \in Nat /\ j \in Nat /\ i <= j
  BY ChainSizes
<1>2. Lanes(n) = 0..(L * q - 1) /\ Lanes(m) = 0..(L * k - 1)
  BY DEF Lanes
<1>3. n = i - (L - 1)
  BY <1>1
<1> HIDE DEF L, i, j
<1>4. /\ q \in Nat /\ i % L \in 0..(L - 1) /\ i = L * q + (i % L)
      /\ k \in Nat /\ j % L \in 0..(L - 1) /\ j = L * k + (j % L)
  BY <1>1, Z3
<1> DEFINE r == i % L
           s == j % L
<1>5. r \in 0..(L - 1) /\ s \in 0..(L - 1) /\ i = L * q + r /\ j = L * k + s
  BY <1>4
<1> HIDE DEF q, k, r, s
<1>6. L * q \in Int /\ L * k \in Int
  BY <1>1, <1>4
<1>7. L * q <= L * k
  <2>1. CASE q <= k
    BY <1>1, <1>4, <2>1, Z3
  <2>2. CASE ~(q <= k)
    <3>1. L * q >= L * k + L
      <4>1. k + 1 <= q
        BY <1>4, <2>2
      <4>2. L * (k + 1) <= L * q /\ L * (k + 1) = L * k + L
        BY <1>1, <1>4, <4>1, Z3
      <4> QED BY <1>6, <4>2
    <3> QED BY <1>1, <1>5, <1>6, <3>1
  <2> QED BY <2>1, <2>2
<1>8. n <= L * q
  BY <1>1, <1>3, <1>5, <1>6
<1>9. \A l \in 0..(n - 1) : l \in 0..(L * q - 1)
  BY <1>6, <1>8
<1>10. \A l \in 0..(L * q - 1) : l \in 0..(L * k - 1)
  BY <1>6, <1>7
<1> QED BY <1>2, <1>9, <1>10

(* A round keeps to the lanes, and the last one of a hash to the next's.   *)
LEMMA SlimNext ==
    ASSUME NEW g, Fits(g), NEW h \in 1..Hashes, NEW f \in 0..(Depth - 1), Slim(g, h)
    PROVE  /\ f + 1 < Depth => Slim(Together(g, h, f), h)
           /\ f + 1 = Depth => Slim(Together(g, h, f), h + 1)
<1> DEFINE G == Together(g, h, f)
<1>0. G.draws \in Nat
  <2>1. Len(Sched.ands[f]) \in Nat /\ g.draws \in Nat
    <3>1. f \in 0..Sched.depth
      BY SizeFacts DEF Depth
    <3> QED BY <3>1, ScheduledGates DEF Slim
  <2>2. G.draws = g.draws + Len(Sched.ands[f])
    BY DEF Together
  <2> HIDE DEF G
  <2> QED BY <2>1, <2>2
<1>1. /\ \A p \in Parties : Narrow(g.tape[p], HashWires, All(h))
      /\ \A p \in Parties : Narrow(g.x[p], Entries, All(h))
  <2>1. h <= Hashes
    BY SizeFacts
  <2> QED BY <2>1 DEF Slim
<1>2. ASSUME NEW p \in Parties
      PROVE  Tape(TapeIn(g, p, h, f), HashWires) /\ Narrow(TapeIn(g, p, h, f), HashWires, All(h))
  BY <1>1, TapeInFits, TapeInNarrow
<1>3. ASSUME f + 1 < Depth PROVE Slim(G, h)
  <2>1. G.x = g.x /\ \A p \in Parties : G.tape[p] = TapeIn(g, p, h, f)
    BY <1>3 DEF Together
  <2> HIDE DEF G
  <2> QED BY <1>0, <1>1, <1>2, <2>1 DEF Slim
<1>4. ASSUME f + 1 = Depth PROVE Slim(G, h + 1)
  <2>1. ~(f + 1 < Depth)
    BY <1>4, SizeFacts
  <2>2. /\ \A p \in Parties : G.x[p] = ValueIn(g, p, h, f)
        /\ \A p \in Parties : G.tape[p] = Begun(p, ValueIn(g, p, h, f), h + 1)
    BY <2>1 DEF Together
  <2> HIDE DEF G
  <2>3. ASSUME NEW p \in Parties
        PROVE  Narrow(ValueIn(g, p, h, f), Entries, All(h + 1)) /\ DOMAIN ValueIn(g, p, h, f) = Entries
    <3> DEFINE gates == Sched.locals[Depth]
               n == Len(gates)
               T == TapeIn(g, p, h, f)
               u == LocalGates(p, gates, T, All(h))
               d == Extract(u)
               v == ValueIn(g, p, h, f)
    <3>1. Depth \in 0..Sched.depth
      BY SizeFacts DEF Depth
    <3>2. /\ n \in Nat /\ DOMAIN gates = 1..n
          /\ \A i \in 1..n : IsGate(HashCircuit, gates[i])
      BY <3>1, ScheduledGates
    <3>3. \A i \in 1..n : gates[i].left \in HashWires /\ gates[i].right \in HashWires
      BY <3>2 DEF HashWires, IsGate
    <3>4. Tape(T, HashWires) /\ Narrow(T, HashWires, All(h))
      BY <1>2
    <3> HIDE DEF n, gates, T
    <3>5. Narrow(u, HashWires, All(h))
      <4>1. DOMAIN T = HashWires
        BY <3>4 DEF Tape
      <4> QED BY <3>2, <3>3, <3>4, <4>1, LocalNarrow
    <3>6. v = AfterHash(g.x[p], d, h)
      BY DEF ValueIn, gates, T
    <3>7. Tape(v, Entries)
      BY ValueInFits
    <3>8. DOMAIN v = Entries
      <4> HIDE DEF v
      <4> QED BY <3>7 DEF Tape
    <3> HIDE DEF u
    <3>9. Narrow(d, Entries, All(h))
      <4>1. \A m \in Entries : OutputOffset(HashCircuit, 0) + WireOf(m, MsgBytes) \in HashWires
        BY DigestWires
      <4> QED BY <3>5, <4>1 DEF Extract, Narrow
    <3>10. CASE InWalk(h)
      <4>1. v = d
        BY <3>6, <3>10 DEF AfterHash
      <4>2. All(h + 1) = All(h)
        BY <3>10, LanesGrow DEF All
      <4> QED BY <3>8, <3>9, <4>1, <4>2
    <3>11. CASE ~InWalk(h)
      <4> DEFINE k == LanesIn(h)
                 a == g.x[p]
                 S == 0..(k - 1)
                 R == 0..(2 * k - 1)
      <4>1. k \in Nat /\ LanesIn(h + 1) = 2 * k
        BY <3>11, LanesGrow
      <4>2. v = Interleaved(a, d, k)
        BY <3>6, <3>11 DEF AfterHash
      <4>3. R \subseteq All(h + 1)
        <5>1. 2 * k \in Nat
          BY <4>1
        <5> DEFINE K == 2 * k
        <5> HIDE DEF K, k
        <5>2. 0..(K - 1) \subseteq Lanes(K)
          BY <5>1, LanesCover DEF K
        <5> QED BY <4>1, <5>2 DEF All, K
      <4>4. ASSUME NEW A, NEW B PROVE Merged(A, B, S) \subseteq R
        BY <4>1 DEF Merged
      <4> HIDE DEF v, d, a, k
      <4>5. v = [m \in Entries |-> [i \in 1..2 |-> Merged(a[m][i], d[m][i], S)]]
        BY <4>2 DEF Interleaved
      <4> HIDE DEF S, R
      <4>6. ASSUME NEW m \in Entries PROVE v[m][1] \subseteq All(h + 1) /\ v[m][2] \subseteq All(h + 1)
        <5>1. v[m][1] = Merged(a[m][1], d[m][1], S) /\ v[m][2] = Merged(a[m][2], d[m][2], S)
          <6>1. v[m] = [i \in 1..2 |-> Merged(a[m][i], d[m][i], S)]
            BY <4>5
          <6> QED BY <6>1
        <5> QED BY <4>3, <4>4, <5>1
      <4>7. Narrow(v, Entries, All(h + 1))
        BY <4>6 DEF Narrow
      <4> QED BY <3>8, <4>7 DEF v
    <3> QED BY <3>10, <3>11
  <2>4. ASSUME h + 1 <= Hashes, NEW p \in Parties PROVE Narrow(G.tape[p], HashWires, All(h + 1))
    <3> DEFINE v == ValueIn(g, p, h, f)
    <3>1. DOMAIN v = Entries /\ Narrow(v, Entries, All(h + 1)) /\ G.tape[p] = Begun(p, v, h + 1)
      BY <2>2, <2>3
    <3> HIDE DEF v
    <3> QED BY <3>1, BegunNarrow
  <2>5. ASSUME NEW p \in Parties PROVE Narrow(G.x[p], Entries, All(h + 1))
    BY <2>2, <2>3
  <2> QED BY <1>0, <2>4, <2>5 DEF Slim
<1> QED BY <1>3, <1>4

(* The dealer's shares have one lane, and so has the first hash.           *)
LEMMA StartSlim == Slim(Start, 1)
<1>1. All(1) = Lanes(1)
  <2>1. LanesIn(1) = 1
    <3>1. CASE InWalk(1)
      BY <3>1 DEF LanesIn
    <3>2. CASE ~InWalk(1)
      <4>1. 1 - Edges - 1 = 0
        BY <3>2, ChainSizes DEF InWalk, Edges
      <4>2. LanesIn(1) = 2^(1 - Edges - 1)
        BY <3>2 DEF LanesIn
      <4> QED BY <4>1, <4>2, Doubles
    <3> QED BY <3>1, <3>2
  <2> QED BY <2>1 DEF All
<1>2. ASSUME NEW p \in Parties PROVE Narrow(Dealt[p], Entries, Lanes(1)) /\ DOMAIN Dealt[p] = Entries
  <2>1. ASSUME NEW m \in Entries PROVE Dealt[p][m][1] \subseteq Lanes(1) /\ Dealt[p][m][2] \subseteq Lanes(1)
    <3> DEFINE a == random.deal[m][1] \cap Lanes(1)
               b == random.deal[m][2] \cap Lanes(1)
               s == IF m \in seed THEN {0} ELSE {}
               c == s ## a ## b
    <3>1. Dealt[p][m] = Replicated(<<a, b, c>>)[p]
      BY DEF Dealt, ShareWord
    <3>2. s \subseteq Lanes(1)
      <4>1. 0..(1 - 1) \subseteq Lanes(1)
        BY LanesCover
      <4>2. 0 \in 0..(1 - 1)
        OBVIOUS
      <4> QED BY <4>1, <4>2
    <3>3. a \subseteq Lanes(1) /\ b \subseteq Lanes(1)
      OBVIOUS
    <3> HIDE DEF a, b, s
    <3>4. c \subseteq Lanes(1)
      <4>1. \A l \in c : l \in s \/ l \in a \/ l \in b
        BY InSymDiff
      <4> QED BY <3>2, <3>3, <4>1
    <3> HIDE DEF c
    <3>5. Dealt[p][m][1] \in {a, b, c} /\ Dealt[p][m][2] \in {a, b, c}
      <4>1. p = 0 \/ p = 1 \/ p = 2
        BY DEF Parties
      <4> QED BY <3>1, <4>1 DEF Replicated, Parties, NextOf
    <3> QED BY <3>3, <3>4, <3>5
  <2> QED BY <2>1 DEF Narrow, Dealt
<1>3. /\ \A p \in Parties : Start.x[p] = Dealt[p]
      /\ \A p \in Parties : Start.tape[p] = Begun(p, Dealt[p], 1)
  BY DEF Start
<1>4. ASSUME NEW p \in Parties
      PROVE  Narrow(Start.tape[p], HashWires, All(1)) /\ Narrow(Start.x[p], Entries, All(1))
  <2>1. Narrow(Begun(p, Dealt[p], 1), HashWires, All(1))
    <3> DEFINE v == Dealt[p]
    <3>1. DOMAIN v = Entries /\ Narrow(v, Entries, All(1))
      BY <1>1, <1>2
    <3> HIDE DEF v
    <3> QED BY <3>1, BegunNarrow DEF v
  <2> QED BY <1>1, <1>2, <1>3, <2>1
<1>5. Start.draws \in Nat
  BY DEF Start
<1> QED BY <1>4, <1>5 DEF Slim

(* So has every hash of the course the lanes it is for.                    *)
LEMMA CourseSlim ==
    ASSUME NEW c, Course(c, LastRound)
    PROVE  \A n \in 0..LastRound : Slim(c[n], HashIn(n))
<1> DEFINE S == {n \in 0..LastRound : Slim(c[n], HashIn(n))}
<1>0. LastRound \in Nat /\ Depth \in Nat \ {0} /\ Hashes \in Nat \ {0}
  BY RoundBounds, SizeFacts
<1>1. 0 \in S
  <2>1. c[0] = Start
    BY DEF Course
  <2>2. HashIn(0) = 1
    <3>1. Round(1, 0) = 0 * Depth + 0 /\ 0 \in 0..(Depth - 1)
      BY <1>0 DEF Round
    <3>2. Round(1, 0) = 0
      BY <1>0, <3>1
    <3>3. HashIn(Round(1, 0)) = 1
      BY <3>1, RoundParts
    <3> QED BY <3>2, <3>3
  <2> QED BY <1>0, <2>1, <2>2, StartSlim
<1>2. ASSUME NEW n \in 0..(LastRound - 1), n \in S PROVE n + 1 \in S
  <2> DEFINE h == HashIn(n)
             f == PhaseIn(n)
  <2>1. h \in 1..Hashes /\ f \in 0..(Depth - 1) /\ Round(h, f) = n /\ h \in Nat \ {0}
    <3>1. h \in 1..Hashes /\ f \in 0..(Depth - 1) /\ Round(h, f) = n
      BY RoundWithin
    <3> HIDE DEF h, f
    <3> QED BY <3>1
  <2>2. c[n + 1] = Together(c[n], h, f)
    BY DEF Course
  <2>3. Fits(c[n]) /\ Slim(c[n], h)
    <3>1. n \in 0..LastRound
      BY <1>0
    <3> QED BY <1>0, <1>2, <3>1, CourseFits
  <2> HIDE DEF h, f
  <2>4. /\ f + 1 < Depth => Slim(c[n + 1], h)
        /\ f + 1 = Depth => Slim(c[n + 1], h + 1)
    BY <2>1, <2>2, <2>3, SlimNext
  <2>5. CASE f + 1 < Depth
    <3>1. f + 1 \in 0..(Depth - 1) /\ Round(h, f + 1) = n + 1
      BY <1>0, <2>1, <2>5, RoundNext
    <3>2. HashIn(n + 1) = h
      BY <2>1, <3>1, RoundParts
    <3> QED BY <1>0, <2>4, <2>5, <3>2
  <2>6. CASE ~(f + 1 < Depth)
    <3>1. f + 1 = Depth
      BY <1>0, <2>1, <2>6
    <3>2. Round(h + 1, 0) = n + 1 /\ h + 1 \in Nat \ {0} /\ 0 \in 0..(Depth - 1)
      BY <1>0, <2>1, <3>1, RoundNext
    <3>3. HashIn(n + 1) = h + 1
      BY <3>2, RoundParts
    <3> QED BY <1>0, <2>4, <3>1, <3>3
  <2> QED BY <2>5, <2>6
<1> HIDE DEF S
<1>3. \A n \in 0..LastRound : n \in S
  BY <1>0, <1>1, <1>2, UpTo
<1> QED BY <1>3 DEF S

(* Every hash's lanes are among those of the block's words.                *)
LEMMA AllInBlock ==
    ASSUME NEW h \in 1..(Hashes + 1)
    PROVE  All(h) \subseteq Lanes(LaneCount)
<1>1. /\ Width \in Nat /\ H \in 1..Width /\ Width <= ValueBits
      /\ Hashes = Width /\ Edges = Width - H /\ ValueBits \in Nat \ {0} /\ TopBit = 2 * ValueBits
  BY ChainSizes, SizeFacts, HashOffsets DEF ValueBits, TopBit, Edges
<1>2. LaneCount \in Nat \ {0} /\ \A n \in 0..H : 2^n \in Nat \ {0} /\ 2^n <= LaneCount
  <2>1. \A n \in 0..TopBit : 2^n \in Nat \ {0}
    BY Doubles
  <2>2. H \in 0..TopBit
    BY <1>1
  <2>3. ASSUME NEW n \in 0..H PROVE 2^n <= 2^H
    <3>1. n \in 0..TopBit
      BY <1>1, <2>2
    <3>2. CASE n < H
      <4>1. 2^n < 2^H
        BY <2>2, <3>1, <3>2, DoublesGrow
      <4>2. 2^n \in Nat /\ 2^H \in Nat
        BY <2>1, <2>2, <3>1
      <4> QED BY <4>1, <4>2
    <3>3. CASE n = H
      BY <2>1, <2>2, <3>3
    <3>4. n < H \/ n = H
      BY <2>2
    <3> QED BY <3>2, <3>3, <3>4
  <2>4. \A n \in 0..H : n \in 0..TopBit
    BY <1>1, <2>2
  <2> QED BY <2>1, <2>2, <2>3, <2>4 DEF LaneCount
<1>3. LanesIn(h) \in Nat /\ LanesIn(h) <= LaneCount
  <2>1. CASE InWalk(h)
    BY <1>2, <2>1 DEF LanesIn
  <2>2. CASE ~InWalk(h)
    <3>1. h - Edges - 1 \in 0..H
      BY <1>1, <2>2 DEF InWalk
    <3> QED BY <1>2, <2>2, <3>1 DEF LanesIn
  <2> QED BY <2>1, <2>2
<1> QED BY <1>2, <1>3, LanesCover DEF All

(* A value on the course has words of the block.                           *)
IsBlock(v) == \A m \in Entries : v[m] \in (SUBSET Lanes(LaneCount)) \X (SUBSET Lanes(LaneCount))

(* What a party holds that has not aborted has words of the block, and its *)
(* tape all the wires.                                                     *)
LEMMA HeldTypes ==
    ASSUME IInv, NEW p \in Parties
    PROVE  /\ at[p] # "aborted" => IsBlock(x[p])
           /\ at[p] \in {"send", "read"} => DOMAIN tape[p] = HashWires
           /\ at[p] # "aborted" => draws[p] \in Nat
<1>1. PICK c : Follows(c)
  BY DEF IInv, CourseInv
<1> DEFINE n == RoundOf(p)
           g == c[n]
<1>2. Depth \in Nat \ {0} /\ Hashes \in Nat \ {0} /\ LastRound \in Nat
  BY SizeFacts, RoundBounds
<1>3. ASSUME at[p] # "aborted"
      PROVE  n \in 0..LastRound /\ HashIn(n) = hash[p] /\ hash[p] \in 1..(Hashes + 1) /\ PhaseIn(n) = phase[p]
  <2>1. hash[p] \in 1..(Hashes + 1) /\ phase[p] \in 0..(Depth - 1)
    BY DEF IInv, PlacesInv
  <2>2. HashIn(n) = hash[p] /\ PhaseIn(n) = phase[p]
    <3>1. hash[p] \in Nat \ {0}
      BY <1>2, <2>1
    <3> QED BY <2>1, <3>1, RoundParts DEF RoundOf
  <2>3. at[p] = "done" \/ hash[p] \in 1..Hashes
    BY <1>3 DEF IInv, PlacesInv
  <2>4. CASE at[p] = "done"
    <3>1. n = LastRound
      BY <2>4 DEF IInv, PlacesInv, RoundOf, LastRound
    <3> HIDE DEF n
    <3> QED BY <1>2, <2>1, <2>2, <3>1
  <2>5. CASE hash[p] \in 1..Hashes
    <3>1. n \in 0..(LastRound - 1)
      BY <2>1, <2>5, RoundBounds DEF RoundOf
    <3> HIDE DEF n
    <3> QED BY <1>2, <2>1, <2>2, <3>1
  <2> QED BY <2>3, <2>4, <2>5
<1>4. ASSUME at[p] # "aborted" PROVE Fits(g) /\ Slim(g, hash[p])
  <2>1. Course(c, LastRound)
    BY <1>1 DEF Follows
  <2> HIDE DEF n
  <2> QED BY <1>2, <1>3, <1>4, <2>1, CourseFits, CourseSlim
<1>5. OnCourse(c, p)
  BY <1>1 DEF Follows
<1>6. ASSUME at[p] # "aborted" PROVE IsBlock(x[p])
  <2>1. x[p] = g.x[p]
    BY <1>5, <1>6 DEF OnCourse
  <2>2. Tape(g.x[p], Entries) /\ Narrow(g.x[p], Entries, All(hash[p]))
    BY <1>4, <1>6 DEF Fits, Slim
  <2>3. All(hash[p]) \subseteq Lanes(LaneCount)
    BY <1>3, <1>6, AllInBlock
  <2> DEFINE v == g.x[p]
             L == Lanes(LaneCount)
  <2> HIDE DEF g, L
  <2>4. \A m \in Entries : v[m] = <<v[m][1], v[m][2]>>
    BY <2>2, Zenon DEF Tape
  <2>5. \A m \in Entries : v[m][1] \subseteq L /\ v[m][2] \subseteq L
    BY <2>2, <2>3 DEF Narrow, L
  <2> HIDE DEF v
  <2>6. \A m \in Entries : v[m] \in (SUBSET L) \X (SUBSET L)
    BY <2>4, <2>5
  <2> QED BY <2>1, <2>6 DEF IsBlock, v, L
<1>7. ASSUME at[p] \in {"send", "read"} PROVE DOMAIN tape[p] = HashWires
  <2> DEFINE h == hash[p]
             f == phase[p]
  <2>1. h \in 1..Hashes /\ f \in 0..(Depth - 1) /\ f \in 0..Sched.depth
    BY <1>2, <1>7 DEF IInv, PlacesInv, Depth
  <2>2. /\ Tape(g.tape[p], HashWires) /\ Fitting(g.tape[p], g.tape[NextOf(p)], HashWires)
        /\ Tape(g.tape[NextOf(p)], HashWires)
    BY <1>4, <1>7, RingFacts DEF Fits
  <2>3. CASE at[p] = "send"
    <3>1. tape[p] = g.tape[p]
      BY <1>5, <2>3 DEF OnCourse
    <3> QED BY <2>2, <3>1 DEF Tape
  <2>4. CASE at[p] = "read"
    <3> DEFINE gates == Sched.locals[f]
               k == Len(gates)
               t == g.tape[p]
               u == LocalsOf(p, t, h, f)
    <3>1. tape[p] = FirstsIn(p, t, g.draws, h, f)
      BY <1>5, <2>4 DEF OnCourse
    <3>2. /\ k \in Nat /\ DOMAIN gates = 1..k
          /\ \A i \in 1..k : IsGate(HashCircuit, gates[i])
      BY <2>1, ScheduledGates
    <3>3. \A i \in 1..k : gates[i].left \in HashWires /\ gates[i].right \in HashWires
      BY <3>2 DEF HashWires, IsGate
    <3>4. Tape(t, HashWires) /\ Fitting(t, g.tape[NextOf(p)], HashWires)
      BY <2>2
    <3> HIDE DEF k, gates, t
    <3>5. Tape(LocalGates(p, gates, t, All(h)), HashWires)
      BY <2>2, <3>2, <3>3, <3>4, LocalGatesFit
    <3>6. DOMAIN u = HashWires
      <4>1. Tape(u, HashWires)
        BY <3>5 DEF LocalsOf, gates
      <4> HIDE DEF u
      <4> QED BY <4>1 DEF Tape
    <3> HIDE DEF u
    <3>7. tape[p] = WithComponent(u, Sched.ands[f], 1, ProductsOf(p, t, g.draws, h, f))
      BY <3>1 DEF FirstsIn, u
    <3> QED BY <3>6, <3>7 DEF WithComponent
  <2> QED BY <1>7, <2>3, <2>4
<1>8. ASSUME at[p] # "aborted" PROVE draws[p] \in Nat
  <2>1. g.draws \in Nat
    BY <1>4, <1>8 DEF Slim
  <2>2. CASE at[p] \in {"send", "done"}
    <3>1. draws[p] = g.draws
      BY <1>5, <2>2 DEF OnCourse
    <3> QED BY <2>1, <3>1
  <2>3. CASE at[p] = "read"
    <3>1. phase[p] \in 0..Sched.depth
      BY <1>2 DEF IInv, PlacesInv, Depth
    <3>2. Len(Sched.ands[phase[p]]) \in Nat
      BY <3>1, ScheduledGates
    <3>3. draws[p] = g.draws + Len(Sched.ands[phase[p]])
      BY <1>5, <2>3 DEF OnCourse
    <3> HIDE DEF g
    <3> QED BY <2>1, <3>2, <3>3
  <2> QED BY <1>8, <2>2, <2>3 DEF IInv, PlacesInv
<1> QED BY <1>6, <1>7, <1>8

(* What a party holds that has not aborted has its type.                   *)
HeldInv ==
    \A p \in Parties :
        /\ at[p] # "aborted" => IsBlock(x[p]) /\ draws[p] \in Nat
        /\ at[p] \in {"send", "read"} => DOMAIN tape[p] = HashWires

(* So it is at any time.                                                   *)
LEMMA HeldKept == Spec => []HeldInv
<1>1. IInv => HeldInv
  BY HeldTypes, Zenon DEF HeldInv
<1> QED BY <1>1, CourseFollowed, PTL

(* What TypeOK says beyond the places: of the wires not in use, and of     *)
(* parties that have ended.                                                *)
RestInv ==
    /\ DOMAIN queued = Links /\ reset \subseteq SUBSET Parties
    /\ \A p \in Parties :
        /\ IsBlock(x[p]) /\ draws[p] \in Nat
        /\ at[p] \in {"done", "aborted"} => tape[p] = << >>
    /\ deaths \in 0..MaxDeaths /\ lies \in 0..MaxLies /\ liars \subseteq Parties

(* It holds at the start.                                                  *)
LEMMA InitRest == Init => RestInv
<1> SUFFICES ASSUME Init PROVE RestInv
  OBVIOUS
<1>1. IInv
  BY InitIInv
<1>2. ASSUME NEW p \in Parties
      PROVE  /\ IsBlock(x[p]) /\ draws[p] \in Nat /\ at[p] = "send"
  <2>1. at[p] = "send"
    BY DEF Init
  <2> QED BY <1>1, <2>1, HeldTypes
<1>3. DOMAIN queued = Links /\ reset = {} /\ deaths = 0 /\ lies = 0 /\ liars = {}
  BY DEF Init, NetInit
<1> QED BY <1>2, <1>3, ChainFaults DEF RestInv

(* What a party that moves leaves alone of the rest.                       *)
LEMMA PartyRest ==
    ASSUME PlacesInv, NEW p \in Parties, Step(p) \/ Dies(p)
    PROVE  /\ UNCHANGED <<queued, lies, liars>> \/ (DOMAIN queued' = Links /\ UNCHANGED <<lies, liars>>)
           /\ UNCHANGED reset
           /\ deaths' = deaths \/ (deaths < MaxDeaths /\ deaths' = deaths + 1)
           /\ at'[p] = "aborted" => x'[p] = x[p] /\ draws'[p] = draws[p]
           /\ at'[p] \in {"done", "aborted"} => tape'[p] = << >>
           /\ \A q \in Parties \ {p} : draws'[q] = draws[q] /\ tape'[q] = tape[q]
<1>1. /\ DOMAIN at = Parties /\ DOMAIN x = Parties /\ DOMAIN tape = Parties /\ DOMAIN draws = Parties
      /\ transport = "channel" /\ transport # "tcp"
  BY DEF PlacesInv
<1>2. CASE SendProducts(p)
  <2>1. UNCHANGED <<queued, reset, deaths, adapter>>
    BY <1>1, <1>2 DEF SendProducts, Transmit
  <2>2. at'[p] = "read"
    BY <1>1, <1>2 DEF SendProducts
  <2>3. \A q \in Parties \ {p} : draws'[q] = draws[q] /\ tape'[q] = tape[q]
    BY <1>1, <1>2 DEF SendProducts
  <2> QED BY <2>1, <2>2, <2>3 DEF adapter
<1>3. CASE TakeSeconds(p)
  <2> DEFINE t == WithComponent(tape[p], Ands(p), 2, Incoming(NextOf(p), p).words)
             value == AfterHash(x[p], Extract(Locals(p, Sched.depth, t)), hash[p])
             next == Begun(p, value, hash[p] + 1)
  <2>1. /\ UNCHANGED <<deaths, adapter, draws, reset>>
        /\ \/ at' = [at EXCEPT ![p] = "send"] /\ UNCHANGED queued
              /\ \/ tape' = [tape EXCEPT ![p] = t]
                 \/ tape' = [tape EXCEPT ![p] = next]
           \/ at' = [at EXCEPT ![p] = "done"] /\ tape' = [tape EXCEPT ![p] = << >>] /\ DOMAIN queued' = Links
    BY <1>1, <1>3 DEF TakeSeconds, Read, Leave
  <2> HIDE DEF t, next
  <2>2. /\ at'[p] # "aborted" /\ (at'[p] = "done" => tape'[p] = << >>)
        /\ \A q \in Parties \ {p} : tape'[q] = tape[q]
    BY <1>1, <2>1
  <2> QED BY <2>1, <2>2 DEF adapter
<1>4. CASE Cascade(p) \/ Dies(p)
  <2>1. /\ UNCHANGED <<x, draws, adapter, reset>> /\ DOMAIN queued' = Links
        /\ tape' = [tape EXCEPT ![p] = << >>]
        /\ deaths' = deaths \/ (deaths < MaxDeaths /\ deaths' = deaths + 1)
    BY <1>1, <1>4 DEF Cascade, Dies, Aborts, Leave
  <2> QED BY <1>1, <2>1 DEF adapter
<1> QED BY <1>2, <1>3, <1>4 DEF Step

(* The adapter's rounds count lies, and name the parties that told them.   *)
LEMMA AskedRest ==
    ASSUME Publish \/ Release
    PROVE  \/ UNCHANGED <<liars, lies>>
           \/ lies < MaxLies /\ lies' = lies + 1 /\ liars' \subseteq Parties
BY DEF Publish, Release, Asked

(* Every step keeps it.                                                    *)
LEMMA StepRest == IInv /\ RestInv /\ [Next]_vars /\ HeldInv' => RestInv'
<1> SUFFICES ASSUME IInv, RestInv, [Next]_vars, HeldInv' PROVE RestInv'
  OBVIOUS
<1>1. CASE UNCHANGED <<netVars, seed, random, party, deaths, right>>
  <2>1. UNCHANGED <<queued, reset, x, draws, at, tape, deaths>>
    BY <1>1 DEF netVars, party
  <2>2. \/ UNCHANGED <<liars, lies>>
        \/ lies < MaxLies /\ lies' = lies + 1 /\ liars' \subseteq Parties
    <3>1. CASE UNCHANGED vars
      BY <3>1 DEF vars, adapter
    <3>2. CASE Publish \/ Release
      BY <3>2, AskedRest
    <3>3. ASSUME NEW p \in Parties, Step(p) \/ Dies(p) PROVE UNCHANGED <<liars, lies>>
      BY <3>3, PartyRest DEF IInv
    <3> QED BY <3>1, <3>2, <3>3 DEF Next
  <2>3. lies' \in 0..MaxLies /\ liars' \subseteq Parties
    BY <2>2, ChainFaults DEF RestInv
  <2>4. ASSUME NEW p \in Parties
        PROVE  /\ IsBlock(x'[p]) /\ draws'[p] \in Nat
               /\ at'[p] \in {"done", "aborted"} => tape'[p] = << >>
    BY <2>1 DEF RestInv
  <2> QED BY <2>1, <2>3, <2>4 DEF RestInv, IsBlock
<1>2. ASSUME NEW p \in Parties, Step(p) \/ Dies(p) PROVE RestInv'
  <2>1. PlacesInv
    BY DEF IInv
  <2>2. /\ UNCHANGED reset /\ UNCHANGED <<lies, liars>> /\ DOMAIN queued' = Links
        /\ deaths' = deaths \/ (deaths < MaxDeaths /\ deaths' = deaths + 1)
        /\ at'[p] = "aborted" => x'[p] = x[p] /\ draws'[p] = draws[p]
        /\ at'[p] \in {"done", "aborted"} => tape'[p] = << >>
        /\ \A q \in Parties \ {p} : draws'[q] = draws[q] /\ tape'[q] = tape[q]
    BY <1>2, <2>1, PartyRest DEF RestInv
  <2>3. \A q \in Parties \ {p} : at'[q] = at[q] /\ x'[q] = x[q]
    BY <1>2, <2>1, PartyMoves
  <2>4. ASSUME NEW q \in Parties
        PROVE  /\ IsBlock(x'[q]) /\ draws'[q] \in Nat
               /\ at'[q] \in {"done", "aborted"} => tape'[q] = << >>
    <3>1. CASE q # p
      <4>1. x'[q] = x[q] /\ draws'[q] = draws[q] /\ at'[q] = at[q] /\ tape'[q] = tape[q]
        BY <2>2, <2>3, <3>1
      <4> QED BY <4>1 DEF RestInv
    <3>2. CASE q = p /\ at'[p] = "aborted"
      <4>1. IsBlock(x[p]) /\ draws[p] \in Nat
        BY DEF RestInv
      <4> QED BY <2>2, <3>2, <4>1
    <3>3. CASE q = p /\ at'[p] # "aborted"
      <4>1. IsBlock(x[p])' /\ draws'[p] \in Nat
        BY <3>3 DEF HeldInv
      <4> QED BY <2>2, <3>3, <4>1 DEF IsBlock
    <3> QED BY <3>1, <3>2, <3>3
  <2>5. deaths' \in 0..MaxDeaths
    BY <2>2, ChainFaults DEF RestInv
  <2> QED BY <2>2, <2>4, <2>5 DEF RestInv, IsBlock
<1>3. CASE UNCHANGED vars
  BY <1>1, <1>3 DEF vars
<1>4. CASE Publish \/ Release
  BY <1>1, <1>4, PublishIdle, ReleaseIdle
<1> QED BY <1>2, <1>3, <1>4 DEF Next

(* It holds throughout.                                                    *)
LEMMA RestKept == Spec => []RestInv
BY InitRest, StepRest, CourseFollowed, HeldKept, SpecSafety, PTL

(* The hash circuit has wires.                                             *)
LEMMA WiresExist == HashWires # {}
<1>1. OutputOffset(HashCircuit, 0) + WireOf(0, MsgBytes) \in HashWires
  <2>1. 0 \in Entries
    BY ValuesFormed DEF Entries
  <2> QED BY <2>1, DigestWires
<1> QED BY <1>1

(* Every variable has its type: words keep to the lanes of the block       *)
(* (Lanes, bit_words of engine.rs), a tape is a tape until its party       *)
(* returns, and nothing is released that was not published.                *)
THEOREM ChainTypeOK == Spec => []TypeOK
<1>1. IInv /\ HeldInv /\ RestInv /\ AdapterInv => TypeOK
  <2> SUFFICES ASSUME IInv, HeldInv, RestInv, AdapterInv PROVE TypeOK
    OBVIOUS
  <2>1. NetTypeOK
    BY DEF IInv, PlacesInv, RestInv, NetTypeOK
  <2>2. /\ at \in [Parties -> {"send", "read", "done", "aborted"}]
        /\ hash \in [Parties -> 1..(Hashes + 1)]
        /\ phase \in [Parties -> 0..(Sched.depth - 1)]
    BY DEF IInv, PlacesInv, Depth
  <2>3. ASSUME NEW p \in Parties
        PROVE  /\ \A m \in Entries : x[p][m] \in (SUBSET Lanes(LaneCount)) \X (SUBSET Lanes(LaneCount))
               /\ at[p] \in {"send", "read"} <=> DOMAIN tape[p] = Wires(HashCircuit)
               /\ draws[p] \in Nat
    <3>1. \A m \in Entries : x[p][m] \in (SUBSET Lanes(LaneCount)) \X (SUBSET Lanes(LaneCount))
      BY DEF RestInv, IsBlock
    <3>2. ASSUME at[p] \in {"send", "read"} PROVE DOMAIN tape[p] = Wires(HashCircuit)
      BY <3>2 DEF HeldInv, HashWires
    <3>3. ASSUME ~(at[p] \in {"send", "read"}) PROVE DOMAIN tape[p] # Wires(HashCircuit)
      <4>1. tape[p] = << >>
        BY <2>2, <3>3 DEF RestInv
      <4>2. DOMAIN tape[p] = {}
        BY <4>1
      <4> QED BY <4>2, WiresExist DEF HashWires
    <3> QED BY <3>1, <3>2, <3>3 DEF RestInv
  <2>4. deaths \in 0..MaxDeaths /\ lies \in 0..MaxLies /\ liars \subseteq Parties
    BY DEF RestInv
  <2>5. DOMAIN released \subseteq DOMAIN masked
    BY DEF AdapterInv
  <2> QED BY <2>1, <2>2, <2>3, <2>4, <2>5 DEF TypeOK
<1> QED BY <1>1, CourseFollowed, HeldKept, RestKept, AdapterInvariant, PTL
=============================================================================
