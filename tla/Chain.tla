------------------------------- MODULE Chain -------------------------------
(***************************************************************************)
(* The engine's shachain (engine/src/chain.rs, sha256.rs, shachain.rs) on  *)
(* the semi-honest backend (engine.rs): three parties walk from a shared   *)
(* seed to the root of the first block and expand it level by level, each  *)
(* hash a joint evaluation of the hash circuit over the wires of RingNet,  *)
(* each party at its own pace.  Then the adapter publishes the leaves      *)
(* masked and releases them, highest lane first.                           *)
(*                                                                         *)
(* The parties are threads of one process.  The hash circuit is a          *)
(* parameter: sha256.txt is not part of the repository.                    *)
(***************************************************************************)
EXTENDS RingNet, Circuit

CONSTANTS
    Width,              \* bits of an index: 48 in the code
    H,                  \* depth of a block
    ByteBits, MsgBytes, \* bits of a byte and bytes of a value: 8 and 32
    LaneWidth,          \* lanes of a word: 64
    HashCircuit, IV,    \* the circuit, and the entries set in its start state
    Seeds,              \* values a channel may have for its seed
    Randomness,         \* [stream, deal, pad]: the parties' streams, the
                        \* dealer's words and the mask summands by key
    MaxDeaths,          \* how many party threads may die
    MaxLies             \* how many answers to the adapter are lies

Entries == 0..(ByteBits * MsgBytes - 1)
BlockBytes == 2 * MsgBytes
Lanes(n) == 0..(LaneWidth * ((n + LaneWidth - 1) \div LaneWidth) - 1)

ASSUME ChainSizes ==
    /\ Width \in Nat /\ H \in 1..Width /\ Width <= ByteBits * MsgBytes
    /\ LaneWidth \in Nat \ {0}
    /\ HashCircuit.inputs = <<2 * ByteBits * MsgBytes, ByteBits * MsgBytes>>
    /\ HashCircuit.outputs = <<ByteBits * MsgBytes>>

(* The file sha256.txt: wires for a block and a start state, and ANDs.     *)
ASSUME HashCircuitFormed ==
    /\ Formed(HashCircuit)
    /\ 3 * ByteBits * MsgBytes <= HashCircuit.wires
    /\ \E i \in DOMAIN HashCircuit.gates : HashCircuit.gates[i].op = "and"

(* A byte has bits, the padding of a message has bytes of its own, and the *)
(* start state and a seed are values.                                      *)
ASSUME ValuesFormed ==
    /\ ByteBits \in Nat \ {0} /\ MsgBytes \in Nat \ {0, 1}
    /\ IV \subseteq Entries /\ Seeds \subseteq SUBSET Entries

ASSUME ChainFaults == MaxDeaths \in Nat /\ MaxLies \in Nat

(* What the proofs need to know of powers of two, as far as they are used. *)
ASSUME PowersOfTwo == 2^0 = 1 /\ \A n \in 0..(ByteBits * BlockBytes) : 2^(n + 1) = 2 * 2^n

VARIABLES
    seed, random,       \* chosen at the start
    at,                 \* "send", "read", "done" or "aborted"
    hash, phase,        \* which hash a party is in, and which round of it
    x, tape,            \* its current shared value, and its tape
    draws,              \* zero shares it has drawn
    deaths,
    right,              \* the leaves the block is to hold (history)
    masked, released,   \* lane -> what the adapter has published, released
    liars, lies         \* who has lied to the adapter, and how often

party == <<at, hash, phase, x, tape, draws>>
adapter == <<masked, released, liars, lies>>
vars == <<netVars, seed, random, party, deaths, right, adapter>>

Sched == Schedule(HashCircuit)
LaneCount == 2^H
RootIndex == 2^Width - LaneCount

-----------------------------------------------------------------------------
(* The reference (scripts/ref.py, BOLT #3): a value is the set of its      *)
(* entries that are one, entry ByteBits * byte + bit; wire j of an input   *)
(* is bit j of that input read as a big-endian integer.                    *)
BigEndian(v, bytes) ==
    SumSet({2^((ByteBits * (bytes - 1 - (m \div ByteBits))) + (m % ByteBits)) : m \in v})
ClearBits(v, bytes) ==
    [j \in 1..(ByteBits * bytes) |->
        IF (BigEndian(v, bytes) \div 2^(j - 1)) % 2 = 1 THEN {0} ELSE {}]

(* SHA-256 padding of a one-value message: a one bit, zeros, the length.   *)
Padding == {ByteBits * MsgBytes + ByteBits - 1, ByteBits * (BlockBytes - 2)}

ClearHash(v) ==
    LET digest == EvalClear(HashCircuit,
                            <<ClearBits(v \cup Padding, BlockBytes), ClearBits(IV, MsgBytes)>>, {0})
    IN CHOOSE w \in SUBSET Entries : ClearBits(w, MsgBytes) = digest

(* generate_from_seed: each set bit of the index, from the highest down,   *)
(* flipped and hashed.                                                     *)
GenerateFromSeed(s, index) ==
    LET after[b \in 0..Width] ==
          IF b = Width THEN s
          ELSE LET v == after[b + 1]
               IN IF (index \div 2^b) % 2 = 1 THEN ClearHash(v ## {b}) ELSE v
    IN after[0]

Leaves(s) ==
    LET leaf == [l \in 0..(LaneCount - 1) |-> GenerateFromSeed(s, RootIndex + l)]
    IN [m \in Entries |-> {l \in DOMAIN leaf : m \in leaf[l]}]

-----------------------------------------------------------------------------
(* One hash on a party's tape (sha256.rs).                                 *)

(* The entry of a value of so many bytes that wire w of an input carries.  *)
EntryOn(w, bytes) == (ByteBits * (bytes - 1 - (w \div ByteBits))) + (w % ByteBits)
WireOf(m, bytes) == EntryOn(m, bytes)

(* build_tape: the message on the low bytes of the block; padding and      *)
(* start state are public.                                                 *)
BuildTape(p, v, all) ==
    LET state0 == InputOffset(HashCircuit, 1)
        public(m, set) == PublicPair(p, IF m \in set THEN all ELSE {})
        block(w) == LET m == EntryOn(w, BlockBytes)
                    IN IF m \in Entries THEN v[m] ELSE public(m, Padding)
    IN [w \in Wires(HashCircuit) |->
            IF w < state0 THEN block(w)
            ELSE IF w < state0 + Cardinality(Entries)
                   THEN public(EntryOn(w - state0, MsgBytes), IV)
                   ELSE NoPair]

Extract(t) == [m \in Entries |-> t[OutputOffset(HashCircuit, 0) + WireOf(m, MsgBytes)]]

-----------------------------------------------------------------------------
(* The walk and the expansion (prepare_first_block).                       *)

Edges == Width - H
InWalk(k) == k <= Edges
Hashes == Edges + H

(* walk_edges_party: edge k flips the k-th bit from the top. *)
WalkBit(k) == Width - k

(* The bit flipped before hash k, and the lanes hash k is for.             *)
FlipBit(k) == IF InWalk(k) THEN WalkBit(k) ELSE H - (k - Edges)
LanesIn(k) == IF InWalk(k) THEN 1 ELSE 2^(k - Edges - 1)
All(k) == Lanes(LanesIn(k))

Flipped(p, v, k) == [v EXCEPT ![FlipBit(k)] = PairXor(@, PublicPair(p, All(k)))]

(* Mutant of Merged: the unused lanes of the last word come along. *)
MergedWords(left, rightOnes, lanes) ==
    {2 * l : l \in left} \cup {2 * l + 1 : l \in rightOnes}

(* interleave: left children in even lanes, right ones in odd.             *)
Merged(left, rightOnes, lanes) ==
    {2 * l : l \in left \cap lanes} \cup {2 * l + 1 : l \in rightOnes \cap lanes}

Interleaved(a, b, n) ==
    [m \in Entries |-> [i \in 1..2 |-> Merged(a[m][i], b[m][i], 0..(n - 1))]]

AfterHash(v, digest, k) == IF InWalk(k) THEN digest ELSE Interleaved(v, digest, LanesIn(k))

Begun(p, v, k) == BuildTape(p, Flipped(p, v, k), All(k))

-----------------------------------------------------------------------------
Init ==
    /\ NetInit({"channel"})
    /\ seed \in Seeds /\ random \in Randomness
    /\ LET dealt(m) == ShareWord(IF m \in seed THEN {0} ELSE {},
                                 random.deal[m][1] \cap Lanes(1), random.deal[m][2] \cap Lanes(1))
       IN x = [p \in Parties |-> [m \in Entries |-> dealt(m)[p]]]
    /\ tape = [p \in Parties |-> Begun(p, x[p], 1)]
    /\ at = [p \in Parties |-> "send"]
    /\ hash = [p \in Parties |-> 1] /\ phase = [p \in Parties |-> 0]
    /\ draws = [p \in Parties |-> 0]
    /\ deaths = 0
    /\ right = Leaves(seed)
    /\ masked = << >> /\ released = << >>
    /\ liars = {} /\ lies = 0

Tag(p) == <<hash[p], phase[p]>>
Ands(p) == Sched.ands[phase[p]]
Locals(p, r, t) == LocalGates(p, Sched.locals[r], t, All(hash[p]))

(* One phase up to the send of reshare_prev.                               *)
SendProducts(p) ==
    LET t == Locals(p, phase[p], tape[p])
        products == [k \in DOMAIN Ands(p) |->
                        Product(Ands(p)[k], t, ZeroWord(random.stream, p, draws[p] + k)
                                                  \cap All(hash[p]))]
    IN /\ at[p] = "send" /\ SendMayPass(PrevOf(p))
       /\ tape' = [tape EXCEPT ![p] = WithComponent(t, Ands(p), 1, products)]
       /\ draws' = [draws EXCEPT ![p] = @ + Len(Ands(p))]
       /\ Transmit(p, PrevOf(p), [tag |-> Tag(p), words |-> products])
       /\ at' = [at EXCEPT ![p] = "read"]
       /\ UNCHANGED <<seed, random, hash, phase, x, deaths, right, adapter>>

(* The rest of the phase.  The last phase has no ANDs: the digest is taken *)
(* from the tape, and the next hash begins or the party returns.           *)
TakeSeconds(p) ==
    LET t == WithComponent(tape[p], Ands(p), 2, Incoming(NextOf(p), p).words)
        value == AfterHash(x[p], Extract(Locals(p, Sched.depth, t)), hash[p])
        goesOn == /\ tape' = [tape EXCEPT ![p] = t]
                  /\ phase' = [phase EXCEPT ![p] = @ + 1]
                  /\ at' = [at EXCEPT ![p] = "send"]
                  /\ Read(NextOf(p), p)
                  /\ UNCHANGED <<hash, x>>
        hashed == /\ x' = [x EXCEPT ![p] = value]
                  /\ phase' = [phase EXCEPT ![p] = 0]
                  /\ hash' = [hash EXCEPT ![p] = @ + 1]
        begins == /\ tape' = [tape EXCEPT ![p] = Begun(p, value, hash[p] + 1)]
                  /\ at' = [at EXCEPT ![p] = "send"]
                  /\ Read(NextOf(p), p)
        returns == /\ tape' = [tape EXCEPT ![p] = << >>]
                   /\ at' = [at EXCEPT ![p] = "done"]
                   /\ Leave(p)
    IN /\ at[p] = "read" /\ Readable(NextOf(p), p)
       /\ \/ phase[p] + 1 < Sched.depth /\ goesOn
          \/ phase[p] + 1 = Sched.depth /\ hash[p] < Hashes /\ hashed /\ begins
          \/ phase[p] + 1 = Sched.depth /\ hash[p] = Hashes /\ hashed /\ returns
       /\ UNCHANGED <<seed, random, draws, deaths, right, adapter>>

(* A party whose peer has gone returns an error, and drops its wires.      *)
Aborts(p) ==
    /\ Leave(p)
    /\ at' = [at EXCEPT ![p] = "aborted"]
    /\ tape' = [tape EXCEPT ![p] = << >>]
    /\ UNCHANGED <<seed, random, hash, phase, x, draws, right, adapter>>

Cascade(p) ==
    /\ \/ at[p] = "send" /\ SendMayFail(PrevOf(p))
       \/ at[p] = "read" /\ ReadFails(NextOf(p), p)
    /\ Aborts(p)
    /\ UNCHANGED deaths

Dies(p) ==
    /\ at[p] \in {"send", "read"} /\ deaths < MaxDeaths
    /\ Aborts(p)
    /\ deaths' = deaths + 1

-----------------------------------------------------------------------------
(* The adapter, once the three threads have returned a block: each leaf is *)
(* published masked and then released, the highest lane first.             *)

Handled == DOMAIN released
LaneNow == LaneCount - 1 - Cardinality(Handled)
Components(p, l) == [i \in 1..2 |-> {m \in Entries : l \in x[p][m][i]}]
Summands(p, vid) == Halves(random.pad, p, vid)
MaskedPair(p, l) == PairXor(Components(p, l), Summands(p, RootIndex + l))

(* One round of messages: the parties' pairs, of which a lying party's is  *)
(* another.  The adapter combines them, or refuses and can ask again.      *)
Lies == ({{}, {0}} \X {{}, {0}}) \ {NoPair}
Used(pairs, Use(_)) ==
    /\ IF Consistent(pairs) THEN Use(Reconstructed(pairs)) ELSE UNCHANGED <<masked, released>>
    /\ UNCHANGED <<netVars, seed, random, party, deaths, right>>

Asked(honest, Use(_)) ==
    \/ Used(honest, Use) /\ UNCHANGED <<liars, lies>>
    \/ /\ lies < MaxLies /\ lies' = lies + 1
       /\ \E by \in Parties, e \in Lies :
            /\ liars \subseteq {by} /\ liars' = {by}
            /\ Used([honest EXCEPT ![by] = PairXor(@, e)], Use)

Ready == \A p \in Parties : at[p] = "done"

Publish ==
    LET publishes(v) == masked' = Recorded(masked, LaneNow, v) /\ UNCHANGED released
    IN /\ Ready /\ LaneNow \in 0..(LaneCount - 1) \ DOMAIN masked
       /\ Asked([p \in Parties |-> MaskedPair(p, LaneNow)], publishes)

(* open_release: the summands come off the published value.                *)
Opened(value, mask) == value ## mask

Release ==
    LET releases(v) == /\ released' = Recorded(released, LaneNow, Opened(masked[LaneNow], v))
                       /\ UNCHANGED masked
    IN /\ Ready /\ LaneNow \in DOMAIN masked
       /\ Asked([p \in Parties |-> Summands(p, RootIndex + LaneNow)], releases)

Step(p) == SendProducts(p) \/ TakeSeconds(p) \/ Cascade(p)
Next == Publish \/ Release \/ \E p \in Parties : Step(p) \/ Dies(p)

(* Weak fairness of each thread's steps, with ENABLED written out: TLC     *)
(* would evaluate the circuit anew for every reference to a wire.          *)
CanStep(p) ==
    \/ at[p] = "send"
    \/ at[p] = "read" /\ (Readable(NextOf(p), p) \/ ReadFails(NextOf(p), p))
FairStep(p) == []<>(~CanStep(p)) \/ []<><<Step(p)>>_vars

Spec == Init /\ [][Next]_vars
             /\ \A p \in Parties : FairStep(p)
             /\ WF_vars(Publish) /\ WF_vars(Release)

-----------------------------------------------------------------------------
TypeOK ==
    /\ NetTypeOK
    /\ at \in [Parties -> {"send", "read", "done", "aborted"}]
    /\ hash \in [Parties -> 1..(Hashes + 1)]
    /\ phase \in [Parties -> 0..(Sched.depth - 1)]
    /\ \A p \in Parties :
        /\ \A m \in Entries : x[p][m] \in (SUBSET Lanes(LaneCount)) \X (SUBSET Lanes(LaneCount))
        /\ at[p] \in {"send", "read"} <=> DOMAIN tape[p] = Wires(HashCircuit)
        /\ draws[p] \in Nat
    /\ deaths \in 0..MaxDeaths /\ lies \in 0..MaxLies /\ liars \subseteq Parties
    /\ DOMAIN released \subseteq DOMAIN masked

(* A neighbour may be a phase or a hash ahead, and nothing in a message    *)
(* says which round it is of.  What a party reads next is always of the    *)
(* round it is in (eval_circuit, engine.rs:176).                           *)
InStep ==
    \A p \in Parties :
        at[p] = "read" /\ Readable(NextOf(p), p) => Incoming(NextOf(p), p).tag = Tag(p)

(* Zero shares cancel only if all parties draw in lockstep ("All parties   *)
(* must draw in lockstep", rep3.rs:54): whoever is in the same place has   *)
(* drawn as much, and the two copies of every component of the frontier    *)
(* are the same.                                                           *)
Lockstep ==
    \A p \in Parties :
        LET q == NextOf(p)
        IN hash[p] = hash[q] /\ phase[p] = phase[q] /\ at[p] = at[q] /\ at[p] # "aborted" =>
              draws[p] = draws[q] /\ \A m \in Entries : x[p][m][2] = x[q][m][1]

(* A released leaf is the one BOLT #3 derives, through walk, expansion,    *)
(* masking and release, whatever one lying party answers (chain.rs:145,    *)
(* "A wrong summand is caught by its honest co-holder's copy").            *)
ReleasedRight == \A l \in DOMAIN released : released[l] = {m \in Entries : l \in right[m]}

(* The block is what an evaluation backend promises of its results: one    *)
(* sharing of the right leaves, held by whoever has returned.              *)
Shared == INSTANCE SharedResult WITH
    right <- right,
    out <- [p \in Parties |-> CASE at[p] = "done"    -> [status |-> "returned", pairs |-> x[p]]
                                [] at[p] = "aborted" -> [status |-> "aborted"]
                                [] OTHER             -> [status |-> "pending"]]
ImplementsSharedResult == Shared!Spec

(* Nobody waits for ever: each party returns, and after a block every leaf *)
(* is released in the end, refused answers and all.                        *)
Finished ==
    /\ \A p \in Parties : at[p] \in {"done", "aborted"}
    /\ (\A p \in Parties : at[p] = "done") => DOMAIN released = 0..(LaneCount - 1)
Terminates == <>Finished
=============================================================================
