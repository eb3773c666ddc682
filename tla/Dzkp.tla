-------------------------------- MODULE Dzkp --------------------------------
(***************************************************************************)
(* The distributed zero-knowledge backend of the engine (dzkp.rs): three   *)
(* parties evaluate a circuit as the semi-honest backend does, log what    *)
(* they multiplied, and then each proves to the two others that it sent    *)
(* the right products; only then are outputs opened.  The party that       *)
(* proves, its left verifier (previous) and its right verifier (next) take *)
(* different steps and exchange messages over different wires.             *)
(*                                                                         *)
(* One step of a party reads the messages it waits for, computes, and      *)
(* sends everything up to its next read: within a process nobody can tell  *)
(* the sends of one step apart from sends one after the other.  One item   *)
(* that party 1 puts on its wires may arrive changed (cheat_bit, net.rs).  *)
(***************************************************************************)
EXTENDS RingNet, Circuit, Gf

CONSTANTS
    B,                  \* values per block: 8 in the code
    LaneWidth,          \* lanes of a word: 64
    Multiplier,         \* the circuit
    Lambda(_, _, _),    \* expand_lambda: seed, prover and bit -> element
    Inputs,             \* the words the inputs may have
    Randomness,         \* [zero, coin, prng, deal]: streams by key or party
    MaxFlips            \* how many items arrive changed: 0 or 1

ASSUME DzkpSizes == B \in Nat \ {0, 1} /\ LaneWidth \in Nat \ {0} /\ MaxFlips \in 0..1

(* A circuit that has something to prove: verify returns at once when      *)
(* nothing was multiplied (dzkp.rs:125), and that is left out.             *)
ASSUME MultiplierFormed ==
    Formed(Multiplier) /\ \E i \in DOMAIN Multiplier.gates : Multiplier.gates[i].op = "and"

VARIABLES
    random,             \* chosen at the start
    right,              \* what the circuit is to compute (history)
    me,                 \* the state of each party
    verified,           \* parties whose eval_circuit has returned
    opened,             \* party -> the output words it has opened
    flips               \* items changed so far

vars == <<netVars, random, right, me, verified, opened, flips>>

AllLanes == 0..(LaneWidth - 1)
Sched == Schedule(Multiplier)
Outputs == [i \in 1..Total(Multiplier.outputs) |-> OutputOffset(Multiplier, 0) + i - 1]

(* "Outputs are the highest wires" (bristol.rs:6).                         *)
ASSUME OutputsAreWires == \A i \in DOMAIN Outputs : Outputs[i] \in Wires(Multiplier)

ProofPoints == (2 * B) + 1
BasePoints(n) == n + 1
BaseProofPoints(n) == (2 * BasePoints(n)) - 1

(* The field is large enough for the points of a proof.                    *)
ASSUME PointsDiffer == \A i, j \in 1..ProofPoints : Numeral(i) = Numeral(j) => i = j

(* lagrange_at, tabled.                                                    *)
Weights == Tabled([n \in 2..ProofPoints |-> Tabled([x \in Elements |-> Tabled(LagrangeAt(n, x))])])

-----------------------------------------------------------------------------
(* Roles in the instance that k proves.                                    *)
IsProver(p, k) == p = k
IsLeft(p, k) == p = PrevOf(k)
IsRight(p, k) == p = NextOf(k)

(* The neighbour a verifier has its proof from.                            *)
ProofFrom(p, k) == IF IsLeft(p, k) THEN NextOf(p) ELSE PrevOf(p)

(* The verifiers reach each other past the prover.                         *)
OtherVerifier(p, k) == IF IsLeft(p, k) THEN PrevOf(p) ELSE NextOf(p)

Forbidden(n) == {Numeral(j) : j \in 1..n}

-----------------------------------------------------------------------------
(* The statement.  The log has an entry per AND and word; bit g is lane    *)
(* g % LaneWidth of entry g / LaneWidth.                                   *)

(* Mutant of Bits: the last entry is left out. *)
BitsButLast(log) == LaneWidth * (Len(log) - 1)

Bits(log) == LaneWidth * Len(log)
BitOf(column, g) == (g - 1) % LaneWidth \in column[((g - 1) \div LaneWidth) + 1]
Column(log, field, i) == [k \in DOMAIN log |-> log[k][field][i]]

(* u: lambda at the bits of the prover's first components, which are the   *)
(* left verifier's second ones; v: the bits of the prover's second         *)
(* components, crossed.  i is the component a party finds them in.         *)
Interlaced(weight, odd, even) ==
    [e \in 1..(2 * Len(weight)) |->
        LET g == (e + 1) \div 2
        IN IF BitOf(IF e % 2 = 1 THEN odd ELSE even, g) THEN weight[g] ELSE Zero]

VectorU(log, lambda, i) == Interlaced(lambda, Column(log, "x", i), Column(log, "y", i))
VectorV(log, i) ==
    Interlaced([g \in 1..Bits(log) |-> One], Column(log, "y", i), Column(log, "x", i))

SumAt(lambda, column) == XorOver([g \in DOMAIN lambda |-> IF BitOf(column, g) THEN lambda[g] ELSE Zero])

(* Mutant of TargetLeft: what was received is left out. *)
TargetLeftBlind(log, lambda) ==
    SumAt(lambda, [k \in DOMAIN log |-> (log[k].x[2] \cap log[k].y[2]) ## log[k].f[2]])

(* The targets: what the verifiers know of the prover's message.           *)
TargetLeft(log, lambda) ==
    SumAt(lambda, [k \in DOMAIN log |-> log[k].in ## (log[k].x[2] \cap log[k].y[2]) ## log[k].f[2]])
TargetRight(log, lambda) == SumAt(lambda, Column(log, "f", 1))

(* Blocks of n values (the last one padded with zeros), each taken as a    *)
(* polynomial and evaluated at x; and the products of two vectors' blocks, *)
(* summed, at so many points.                                              *)
Blocks(len, n) == (len + n - 1) \div n
Padded(w, i) == IF i <= Len(w) THEN w[i] ELSE Zero
Folded(w, n, x) ==
    [l \in 1..Blocks(Len(w), n) |->
        XorOver([j \in 1..n |-> Weights[n][x][j] \otimes Padded(w, (l - 1) * n + j)])]
ProductAt(u, v, n, points) ==
    [j \in 1..points |-> Dot(Folded(u, n, Numeral(j)), Folded(v, n, Numeral(j)))]

At(values, x) == Dot(Weights[Len(values)][x], values)

-----------------------------------------------------------------------------
(* Messages.  The tag names the place a message belongs to; the code sends *)
(* no such tag.                                                            *)
Tag(kind, s) == <<kind, s.phase, s.prover, s.round, s.coins>>
Message(kind, s, body) == [tag |-> Tag(kind, s), body |-> body]
Silence == [q \in Parties |-> << >>]
Say(q, m) == [Silence EXCEPT ![q] = <<m>>]
Also(first, then) == [q \in Parties |-> first[q] \o then[q]]

(* open_double: second components to the previous, first to the next.      *)
Double(p, kind, s, pairs) ==
    Also(Say(PrevOf(p), Message(kind, s, [i \in DOMAIN pairs |-> pairs[i][2]])),
         Say(NextOf(p), Message(kind, s, [i \in DOMAIN pairs |-> pairs[i][1]])))

CoinPairs(p, s) == <<Halves(random.coin, p, s.coins)>>
CoinShares(p, kind, s) == Double(p, kind, s, CoinPairs(p, s))

(* What a party waits for, in the order it reads.                          *)
Awaited(p) ==
    LET s == me[p]
    IN CASE s.at = "level" -> <<NextOf(p)>>
         [] s.at \in {"seed", "coin", "open"} -> <<NextOf(p), PrevOf(p)>>
         [] s.at = "proof" -> <<ProofFrom(p, s.prover)>>
         [] s.at \in {"residual", "evals"} -> <<OtherVerifier(p, s.prover)>>
         [] OTHER -> << >>
Body(p, i) == Incoming(Awaited(p)[i], p).body

Ended(p) == me[p].at \in {"done", "aborted"}
Arrived(p, i) == \A j \in 1..i : Readable(Awaited(p)[j], p)
CanRead(p) == Arrived(p, Len(Awaited(p)))

-----------------------------------------------------------------------------
(* What a party does next: its new state, and what it says.                *)
Then(s, said) == [s |-> s, said |-> said]

(* A phase of eval_circuit up to its send; what is multiplied is logged.   *)
Multiplied(p, s) ==
    LET t == LocalGates(p, Sched.locals[s.phase], s.tape, AllLanes)
        ands == Sched.ands[s.phase]
        halves(k) == Halves(random.zero, p, s.draws + k)
        products == [k \in DOMAIN ands |-> Product(ands[k], t, halves(k)[1] ## halves(k)[2])]
        entries == [k \in DOMAIN ands |->
                       [x |-> t[ands[k].left], y |-> t[ands[k].right], f |-> halves(k), in |-> {}]]
        new == [s EXCEPT !.at = "level", !.tape = WithComponent(t, ands, 1, products),
                         !.log = @ \o entries, !.draws = @ + Len(ands)]
    IN Then(new, Say(PrevOf(p), Message("level", new, products)))

(* Of n blocks or one: the proof of a round, split between the verifiers.  *)
Masks(p, s, n) == [j \in 1..n |-> Gf64(random.prng[p][s.prng + j])]
Hidden(h, masks) == [j \in DOMAIN h |-> h[j] ## masks[j]]
IsBase(s) == s.len <= B

Proof(p, s) ==
    LET masks == Masks(p, s, ProofPoints)
        h == ProductAt(s.u, s.v, B, ProofPoints)
    IN [left |-> masks, right |-> Hidden(h, masks), drawn |-> ProofPoints]

(* The last proof: a random coordinate more in each vector.                *)
BaseProof(p, s) ==
    LET drawn == 3 + BaseProofPoints(s.len)
        r == Masks(p, s, drawn)
        masks == SubSeq(r, 4, drawn)
        h == ProductAt(Append(s.u, r[1]), Append(s.v, r[2]), BasePoints(s.len), BaseProofPoints(s.len))
    IN [left |-> <<r[1], r[3]>> \o masks,
        right |-> <<r[2], (r[1] \otimes r[2]) ## r[3]>> \o Hidden(h, masks), drawn |-> drawn]

StartRound(p, s) ==
    LET proof == IF IsBase(s) THEN BaseProof(p, s) ELSE Proof(p, s)
    IN IF IsProver(p, s.prover)
         THEN Then([s EXCEPT !.at = "coin", !.prng = @ + proof.drawn],
                   Also(Also(Say(PrevOf(p), Message("proof", s, proof.left)),
                             Say(NextOf(p), Message("proof", s, proof.right))),
                        CoinShares(p, "coin", s)))
         ELSE Then([s EXCEPT !.at = "proof"], Silence)

StartInstance(p, s, k) ==
    LET lambda == [g \in 1..Bits(s.log) |-> Gf64(Lambda(s.seed, k, g))]
        new == [s EXCEPT !.prover = k, !.round = 1, !.len = 2 * Bits(s.log),
                    !.u = IF IsRight(p, k) THEN << >>
                          ELSE VectorU(s.log, lambda, IF IsProver(p, k) THEN 1 ELSE 2),
                    !.v = IF IsLeft(p, k) THEN << >>
                          ELSE VectorV(s.log, IF IsProver(p, k) THEN 2 ELSE 1),
                    !.tau = IF IsLeft(p, k) THEN TargetLeft(s.log, lambda)
                            ELSE IF IsRight(p, k) THEN TargetRight(s.log, lambda) ELSE Zero]
    IN StartRound(p, new)

LastProver == 2

(* Mutant of Cleared: the log stays for the next circuit. *)
ClearedLater(log) == log

Cleared(log) == << >>

(* After the last instance eval_circuit returns, and the outputs are       *)
(* opened (open_words).                                                    *)
NextInstance(p, s) ==
    LET pairs == [i \in DOMAIN Outputs |-> s.tape[Outputs[i]]]
        new == [s EXCEPT !.at = "open", !.log = Cleared(@), !.u = << >>, !.v = << >>, !.pi = << >>,
                         !.tau = Zero, !.mine = << >>, !.len = 0]
    IN IF s.prover < LastProver THEN StartInstance(p, s, s.prover + 1)
                                ELSE Then(new, Double(p, "open", new, pairs))

-----------------------------------------------------------------------------
InputTape(p, words) ==
    [w \in Wires(Multiplier) |->
        IF w + 1 \in DOMAIN words
          THEN ShareWord(words[w + 1], random.deal[w + 1][1], random.deal[w + 1][2])[p]
          ELSE NoPair]

Init ==
    /\ NetInit({"channel"})
    /\ random \in Randomness
    /\ \E inputs \in Inputs :
        /\ right = EvalClear(Multiplier, inputs, AllLanes)
        /\ me = [p \in Parties |->
                    [at |-> "start", phase |-> 0, prover |-> 0, round |-> 0, coins |-> 1, draws |-> 0,
                     prng |-> 0, tape |-> InputTape(p, FlattenSeq(inputs)), log |-> << >>,
                     seed |-> Zero, u |-> << >>, v |-> << >>, len |-> 0, tau |-> Zero,
                     pi |-> << >>, mine |-> << >>]]
    /\ verified = {}
    /\ opened = [p \in Parties |-> << >>]
    /\ flips = 0

(* Messages as they go out, or with a bit of one of party 1's changed.     *)
Items(said) ==
    UNION {UNION {{<<q, i, j>> : j \in DOMAIN said[q][i].body} : i \in DOMAIN said[q]} : q \in Parties}
Outgoing(p, said) ==
    {[said |-> said, flips |-> flips]} \cup
    {[said |-> [said EXCEPT ![c[1]][c[2]].body[c[3]] = @ ## {0}], flips |-> flips + 1] :
        c \in IF p = 1 /\ flips < MaxFlips THEN Items(said) ELSE {}}

(* A party that returns drops its wires; what it has said can be read.     *)
Leaves(p, said) ==
    /\ gone' = gone \cup {p}
    /\ wire' = [l \in Links |-> IF l[2] = p THEN << >>
                                ELSE IF l[1] = p THEN wire[l] \o said[l[2]] ELSE wire[l]]
    /\ UNCHANGED <<transport, queued, reset>>

Aborts(p, said) ==
    /\ Leaves(p, said)
    /\ me' = [me EXCEPT ![p] = [@ EXCEPT !.at = "aborted"]]
    /\ UNCHANGED <<random, right, verified, opened, flips>>

(* What was awaited is read, and the party goes on.  If a neighbour it     *)
(* sends to has gone, it aborts: the previous one is sent to first.        *)
Goes(p, next) ==
    LET partial == IF PrevOf(p) \in gone \/ next.said[PrevOf(p)] = << >> THEN Silence
                   ELSE Say(PrevOf(p), next.said[PrevOf(p)][1])
    IN IF \E q \in gone : next.said[q] # << >>
         THEN Aborts(p, partial)
         ELSE /\ \E o \in Outgoing(p, next.said) :
                    /\ flips' = o.flips
                    /\ wire' = [l \in Links |->
                         IF l[1] = p THEN wire[l] \o o.said[l[2]]
                         ELSE IF l[2] = p /\ \E i \in DOMAIN Awaited(p) : Awaited(p)[i] = l[1]
                                THEN Tail(wire[l]) ELSE wire[l]]
              /\ me' = [me EXCEPT ![p] = next.s]
              /\ verified' = IF next.s.at = "open" THEN verified \cup {p} ELSE verified
              /\ UNCHANGED <<transport, queued, gone, reset, random, right, opened>>

Waits(p, stage) == me[p].at = stage /\ CanRead(p)

Begin(p) == Waits(p, "start") /\ Goes(p, Multiplied(p, me[p]))

(* The rest of a phase; after the last one the coin for the seed.          *)
LevelTaken(p, s, inb) ==
    LET ands == Sched.ands[s.phase]
        first == Len(s.log) - Len(ands)
        logged == [i \in DOMAIN s.log |->
                      IF i > first THEN [s.log[i] EXCEPT !.in = inb[i - first]] ELSE s.log[i]]
        t == WithComponent(s.tape, ands, 2, inb)
        up == [s EXCEPT !.phase = @ + 1, !.log = logged, !.tape = t]
        end == [up EXCEPT !.at = "seed",
                          !.tape = LocalGates(p, Sched.locals[Sched.depth], t, AllLanes)]
    IN IF up.phase < Sched.depth THEN Multiplied(p, up)
                                 ELSE Then(end, CoinShares(p, "seed", end))
TakeLevel(p) == Waits(p, "level") /\ Goes(p, LevelTaken(p, me[p], Body(p, 1)))

(* Mutant of Confirmed: one holder is believed. *)
ConfirmedByNext(fromNext, fromPrev) == TRUE

(* open_double: the missing component must be the same from both holders.  *)
Confirmed(fromNext, fromPrev) == fromNext = fromPrev
DoubleFails(p, stage) == Waits(p, stage) /\ ~Confirmed(Body(p, 1), Body(p, 2)) /\ Aborts(p, Silence)
Agreed(p, stage) == Waits(p, stage) /\ Confirmed(Body(p, 1), Body(p, 2))
OpenedValue(p, pairs) == [i \in DOMAIN pairs |-> pairs[i][1] ## pairs[i][2] ## Body(p, 1)[i]]
Coin(p) == Gf64(OpenedValue(p, CoinPairs(p, me[p]))[1])

SeedTaken(p, s, coin) == StartInstance(p, [s EXCEPT !.seed = coin, !.coins = @ + 1], 0)
TakeSeed(p) == Agreed(p, "seed") /\ Goes(p, SeedTaken(p, me[p], Coin(p)))

(* A verifier adds up what the proof says of its data points, and tells    *)
(* the other one what is left of the target.                               *)
ProofTaken(p, s, body) ==
    LET base == IsBase(s)
        pi == IF base THEN SubSeq(body, 3, Len(body)) ELSE body
        more(vec) == IF base /\ vec # << >> THEN Append(vec, body[1]) ELSE vec
        delta == s.tau ## XorOver([j \in 1..(IF base THEN BasePoints(s.len) ELSE B) |-> pi[j]])
                       ## (IF base THEN body[2] ELSE Zero)
        new == [s EXCEPT !.at = "residual", !.pi = pi, !.mine = <<delta>>,
                         !.u = more(@), !.v = more(@)]
    IN Then(new, Say(OtherVerifier(p, s.prover), Message("residual", new, <<delta>>)))
TakeProof(p) == Waits(p, "proof") /\ Goes(p, ProofTaken(p, me[p], Body(p, 1)))

SumsToZero(p) == me[p].mine[1] ## Body(p, 1)[1] = Zero

ResidualTaken(p, s) ==
    LET new == [s EXCEPT !.at = "coin", !.mine = << >>]
    IN Then(new, CoinShares(p, "coin", new))
TakeResidual(p) == Waits(p, "residual") /\ SumsToZero(p) /\ Goes(p, ResidualTaken(p, me[p]))

(* Mutant of MustRedraw: only the verifiers draw again. *)
MustRedrawVerifier(p, s, rho) == ~IsProver(p, s.prover) /\
    rho \in Forbidden(IF IsBase(s) THEN BaseProofPoints(s.len) ELSE ProofPoints)

(* Mutant of MustRedraw: any point will do. *)
NeverRedraw(p, s, rho) == FALSE

(* coin_field: a coin among the points of the proof is drawn again.        *)
MustRedraw(p, s, rho) ==
    rho \in Forbidden(IF IsBase(s) THEN BaseProofPoints(s.len) ELSE ProofPoints)

CoinAgain(p, s) ==
    LET new == [s EXCEPT !.coins = @ + 1]
    IN Then(new, CoinShares(p, "coin", new))
Redraw(p) ==
    Agreed(p, "coin") /\ MustRedraw(p, me[p], Coin(p)) /\ Goes(p, CoinAgain(p, me[p]))

Usable(p) == Agreed(p, "coin") /\ ~MustRedraw(p, me[p], Coin(p))

(* The coin folds vectors and target.                                      *)
FoldCoinTaken(p, s, coin) ==
    LET new == [s EXCEPT !.coins = @ + 1, !.round = @ + 1, !.len = Blocks(@, B), !.pi = << >>,
                         !.u = Folded(@, B, coin), !.v = Folded(@, B, coin),
                         !.tau = IF IsProver(p, s.prover) THEN Zero ELSE At(s.pi, coin)]
    IN StartRound(p, new)
TakeFoldCoin(p) == Usable(p) /\ ~IsBase(me[p]) /\ Goes(p, FoldCoinTaken(p, me[p], Coin(p)))

(* In the end the verifiers open their blinded values at the coin; the     *)
(* prover only keeps in step with the coins.                               *)
Drawn(s) == [s EXCEPT !.coins = @ + 1]
BaseCoinTaken(p, s, coin) ==
    LET mine == <<At(IF IsLeft(p, s.prover) THEN s.u ELSE s.v, coin), At(s.pi, coin)>>
        new == [Drawn(s) EXCEPT !.at = "evals", !.mine = mine]
    IN IF IsProver(p, s.prover) THEN NextInstance(p, Drawn(s))
       ELSE Then(new, Say(OtherVerifier(p, s.prover), Message("evals", new, mine)))
TakeBaseCoin(p) == Usable(p) /\ IsBase(me[p]) /\ Goes(p, BaseCoinTaken(p, me[p], Coin(p)))

ProductHolds(p) ==
    me[p].mine[1] \otimes Body(p, 1)[1] = me[p].mine[2] ## Body(p, 1)[2]

EvalsTaken(p, s) == NextInstance(p, [s EXCEPT !.mine = << >>])
TakeEvals(p) == Waits(p, "evals") /\ ProductHolds(p) /\ Goes(p, EvalsTaken(p, me[p]))

CheckFails(p) ==
    \/ DoubleFails(p, "seed") \/ DoubleFails(p, "coin") \/ DoubleFails(p, "open")
    \/ Waits(p, "residual") /\ ~SumsToZero(p) /\ Aborts(p, Silence)
    \/ Waits(p, "evals") /\ ~ProductHolds(p) /\ Aborts(p, Silence)

TakeOpen(p) ==
    /\ Agreed(p, "open")
    /\ opened' = [opened EXCEPT ![p] =
                     OpenedValue(p, [i \in DOMAIN Outputs |-> me[p].tape[Outputs[i]]])]
    /\ me' = [me EXCEPT ![p].at = "done"]
    /\ Leaves(p, Silence)
    /\ UNCHANGED <<random, right, verified, flips>>

(* A read fails when the peer has gone and said no more.                   *)
CannotRead(p) ==
    \E i \in DOMAIN Awaited(p) : Arrived(p, i - 1) /\ ReadFails(Awaited(p)[i], p)
Cascade(p) == ~Ended(p) /\ CannotRead(p) /\ Aborts(p, Silence)

Step(p) ==
    \/ Begin(p) \/ TakeLevel(p) \/ TakeSeed(p) \/ TakeProof(p) \/ TakeResidual(p) \/ Redraw(p)
    \/ TakeFoldCoin(p) \/ TakeBaseCoin(p) \/ TakeEvals(p) \/ CheckFails(p) \/ TakeOpen(p)
    \/ Cascade(p)
Next == \E p \in Parties : Step(p)

(* Weak fairness of each thread's steps, with ENABLED written out.         *)
CanStep(p) == ~Ended(p) /\ (CanRead(p) \/ CannotRead(p))
FairStep(p) == []<>(~CanStep(p)) \/ []<><<Step(p)>>_vars

Spec == Init /\ [][Next]_vars /\ \A p \in Parties : FairStep(p)

-----------------------------------------------------------------------------
TypeOK ==
    /\ NetTypeOK
    /\ verified \subseteq Parties /\ flips \in 0..MaxFlips
    /\ \A p \in Parties :
        LET s == me[p]
        IN /\ s.at \in {"start", "level", "seed", "proof", "residual", "coin", "evals", "open",
                        "done", "aborted"}
           /\ s.phase \in 0..Sched.depth /\ s.prover \in 0..LastProver
           /\ s.tau \in Elements /\ s.seed \in Elements
           /\ s.at \in {"open", "done"} => p \in verified /\ s.log = << >>
           /\ s.at = "proof" => Len(s.u) + Len(s.v) = s.len

(* The parties take different steps in an instance and nothing in a        *)
(* message says what it is: whatever a party reads next is what it takes   *)
(* it for (run_instance, dzkp.rs:136).                                     *)
InStep ==
    \A p \in Parties : ~Ended(p) =>
        \A i \in DOMAIN Awaited(p) :
            Arrived(p, i) => Incoming(Awaited(p)[i], p).tag = Tag(me[p].at, me[p])

(* What a party opens is what the circuit computes, whatever one party     *)
(* sends ("Openings themselves are double-verified", dzkp.rs:47).          *)
OpenedRight == \A p \in Parties : me[p].at = "done" => opened[p] = right

(* A changed item makes the evaluation or the opening fail ("One flipped   *)
(* bit anywhere in party 1's outgoing stream aborts", tests/dzkp.rs).      *)
CorruptionAborts ==
    flips > 0 /\ (\A p \in Parties : Ended(p)) => \E p \in Parties : me[p].at = "aborted"

(* Honest proofs are accepted: the targets, the folding and the last       *)
(* product agree, padding and redrawn coins included (dzkp.rs:252, 334,    *)
(* 353).                                                                   *)
OnlyCorruptionAborts == flips = 0 => \A p \in Parties : me[p].at # "aborted"

(* Whoever returns from eval_circuit holds part of one sharing of the      *)
(* right outputs: "nothing derived from this circuit can be opened until   *)
(* every party's messages have been proven correct" (dzkp.rs:481).         *)
Returns(p) ==
    IF p \in verified
      THEN [status |-> "returned", pairs |-> [i \in DOMAIN Outputs |-> me[p].tape[Outputs[i]]]]
      ELSE [status |-> IF me[p].at = "aborted" THEN "aborted" ELSE "pending"]
Shared == INSTANCE SharedResult WITH right <- right, out <- [p \in Parties |-> Returns(p)]
ImplementsSharedResult == Shared!Spec

(* Nobody waits for ever: everyone has opened the outputs or aborted.      *)
Terminates == <>(\A p \in Parties : Ended(p))
=============================================================================
