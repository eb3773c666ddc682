-------------------------------- MODULE Mal --------------------------------
(***************************************************************************)
(* The malicious backend of the engine (engine/src/mal.rs): three parties  *)
(* evaluate circuits with Beaver triples that were cut, bucketed and       *)
(* sacrificed, over the wires of RingNet, and hand the result over as the  *)
(* party binary does (engine/src/bin/party.rs) or the session's caller.    *)
(*                                                                         *)
(* Within a process one item that party 1 puts on its wires may arrive     *)
(* changed: the hook cheat_bit of net.rs.  Shares are errors: 0 is what    *)
(* the undisturbed run has, 1 is anything else, and Either stands for what *)
(* depends on data the model leaves out: it may be both.  Xor adds errors. *)
(* A circuit is a chain of ANDs, one per level, on one word; local gates   *)
(* keep errors as they are.  Only second components can be wrong in a      *)
(* triple: the first ones are computed locally.                            *)
(***************************************************************************)
EXTENDS RingNet, FiniteSets

CONSTANTS
    Transports,
    Evals,          \* circuits evaluated one after the other
    Levels,         \* AND levels of a circuit, that is, triples it needs
    MinBatch, Bucket, Cut,      \* min_batch, bucket size, triples opened
    Opening,        \* whether threads open their outputs before they return
    MaxFlips        \* how many items arrive changed: 0, or 1 with cheat_bit set

ASSUME TransportsAssumption == Transports \subseteq {"channel", "tcp"}
ASSUME SizesAssumption == /\ Evals \in Nat \ {0} /\ Levels \in Nat \ {0}
                          /\ MinBatch \in Nat \ {0} /\ Cut \in Nat
                          /\ Bucket \in Nat /\ Bucket >= 2
ASSUME MaxFlipsAssumption == MaxFlips \in 0..1 /\ Opening \in BOOLEAN

VARIABLES
    at, sub,        \* round the party is in, and where in it
    level, done,    \* AND level, and circuits evaluated
    count,          \* survivors this refill is for
    triples,        \* second-component errors of the generated products
    astray,         \* the party shuffled by another coin than the others
    zeros,          \* errors of the sharings the sacrifice checks
    heard,          \* what the previous party said in this exchange
    log,            \* errors of the values opened since the last view check
    pool,           \* errors of the verified triples in stock
    z,              \* errors of the value the circuit has got to
    shown,          \* error of the output the party has opened (history)
    flips           \* items changed so far

local == <<level, done, count, triples, astray, zeros, log, pool, z, shown>>
vars == <<netVars, at, sub, heard, flips, local>>

Either == 2
Errors == {0, 1, Either}
Xor(a, b) == IF Either \in {a, b} THEN Either ELSE (a + b) % 2
Vectors(n) == [1..n -> Errors]
All(n, e) == [i \in 1..n |-> e]
NoVector == << >>
Clear == <<0, 0>>

Generating == {"triples", "coin", "cut", "pairs"}
Exchanges == {"zero", "views", "check", "shown"}
Resharing == Generating \cup {"level", "open"}
Rounds == Resharing \cup Exchanges \cup {"hand"}
Ended(p) == at[p] \in {"done", "aborted"}

MaxOf(a, b) == IF a >= b THEN a ELSE b
Generated(p) == count[p] * Bucket + Cut

(* Mutant of Pairs: one pair per bucket number, not per partner. *)
PairsPerHead(p) == 1..count[p]

(* Of the generated triples, shuffled by the coin, the first are opened,   *)
(* the others fill the buckets.  The coin is uniform and the changed item  *)
(* arbitrary, so the shuffle can be left out.  Pair k of the sacrifice:    *)
(* the head of its bucket and one partner.                                 *)
Pairs(p) == 1..(count[p] * (Bucket - 1))
HeadOf(b) == Cut + (b - 1) * Bucket + 1
BucketOf(k) == (k - 1) \div (Bucket - 1) + 1
PartnerOf(k) == HeadOf(BucketOf(k)) + ((k - 1) % (Bucket - 1)) + 1

(* ensure: a circuit starts with a refill when the stock is too small. *)
FirstRound(stock) == IF stock < Levels THEN "triples" ELSE "level"
Target(stock) == MaxOf(Levels - stock, MinBatch)

Init ==
    /\ NetInit(Transports)
    /\ at = [p \in Parties |-> FirstRound(0)]
    /\ sub = [p \in Parties |-> "send"]
    /\ level = [p \in Parties |-> 1] /\ done = [p \in Parties |-> 0]
    /\ count = [p \in Parties |-> Target(0)]
    /\ triples = [p \in Parties |-> NoVector]
    /\ astray = [p \in Parties |-> FALSE]
    /\ zeros = [p \in Parties |-> NoVector]
    /\ heard = [p \in Parties |-> NoVector]
    /\ log = [p \in Parties |-> NoVector]
    /\ pool = [p \in Parties |-> NoVector]
    /\ z = [p \in Parties |-> Clear]
    /\ shown = [p \in Parties |-> 0]
    /\ flips = 0

-----------------------------------------------------------------------------
(* Messages.  The tag names the round a message was sent in; the code      *)
(* sends no such tag.  Words carry their errors; a hash carries what was   *)
(* hashed, and whether it was changed on the way.                          *)

Tag(p) == <<done[p], at[p], IF at[p] = "level" THEN level[p] ELSE 0>>
Words(p, errors) == [tag |-> Tag(p), body |-> errors, changed |-> FALSE]
HashOf(p, errors) == Words(p, errors)

ChangedWords(m) == {[m EXCEPT !.body[i] = Xor(@, 1)] : i \in DOMAIN m.body}
ChangedHash(m) == {[m EXCEPT !.changed = TRUE]}

(* m goes onto p's wire to q; of party 1's messages one may be changed.  *)
Send(p, q, m, changes) ==
    \/ /\ Transmit(p, q, m)
       /\ UNCHANGED flips
    \/ /\ p = 1 /\ transport = "channel" /\ flips < MaxFlips
       /\ flips' = flips + 1
       /\ \E changed \in changes : Transmit(p, q, changed)

(* What a party puts into a round: its second components, or, if it went   *)
(* astray, those of other triples.                                         *)
CutShares(p) == [i \in 1..(3 * Cut) |-> IF i % 3 = 0 THEN triples[p][i \div 3] ELSE 0]
Seconds(p) ==
    CASE at[p] = "triples" -> All(Generated(p), 0)
      [] at[p] = "coin"    -> <<0>>
      [] at[p] = "cut"     -> IF astray[p] THEN All(3 * Cut, Either) ELSE CutShares(p)
      [] at[p] = "pairs"   -> All(2 * Cardinality(Pairs(p)), IF astray[p] THEN Either ELSE 0)
      [] at[p] = "level"   -> <<z[p][2], 0>>
      [] at[p] = "open"    -> <<z[p][2]>>

(* reshare_prev: everything is sent before anything is read. *)
SendShares(p) ==
    /\ at[p] \in Resharing /\ sub[p] = "send"
    /\ SendMayPass(PrevOf(p))
    /\ LET m == Words(p, Seconds(p)) IN Send(p, PrevOf(p), m, ChangedWords(m))
    /\ sub' = [sub EXCEPT ![p] = "fromNext"]
    /\ UNCHANGED <<at, heard, local>>

(* exchange_both: the claimed third components, or the log. *)
Claimed(p) == [k \in DOMAIN zeros[p] |-> Xor(zeros[p][k][1], zeros[p][k][2])]
Said(p) == IF at[p] = "zero" THEN Claimed(p) ELSE log[p]

(* A hash goes to the previous party, then to the next. *)
SendHash(p) ==
    /\ at[p] \in Exchanges
    /\ LET m == HashOf(p, Said(p)) IN
         \/ /\ sub[p] = "send"
            /\ SendMayPass(PrevOf(p))
            /\ Send(p, PrevOf(p), m, ChangedHash(m))
            /\ sub' = [sub EXCEPT ![p] = "sendNext"]
         \/ /\ sub[p] = "sendNext"
            /\ SendMayPass(NextOf(p))
            /\ Send(p, NextOf(p), m, ChangedHash(m))
            /\ sub' = [sub EXCEPT ![p] = "fromPrev"]
    /\ UNCHANGED <<at, heard, local>>

HearPrev(p) ==
    /\ at[p] \in Exchanges /\ sub[p] = "fromPrev"
    /\ Readable(PrevOf(p), p)
    /\ heard' = [heard EXCEPT ![p] = Incoming(PrevOf(p), p)]
    /\ Read(PrevOf(p), p)
    /\ sub' = [sub EXCEPT ![p] = "fromNext"]
    /\ UNCHANGED <<at, flips, local>>

-----------------------------------------------------------------------------
(* The steps of a party. *)

(* Party p has the message it was waiting for in this round. *)
Gets(p, round) ==
    /\ at[p] = round /\ sub[p] = "fromNext"
    /\ Readable(NextOf(p), p)
Inbound(p) == Incoming(NextOf(p), p).body

GoesTo(p, round) ==
    /\ at' = [at EXCEPT ![p] = round]
    /\ sub' = [sub EXCEPT ![p] = "send"]
Opened(p, errors) == log' = [log EXCEPT ![p] = @ \o errors]

(* Ends: the party returns, with its result or an error, and drops its     *)
(* wires.                                                                  *)
Ends(p, how) ==
    /\ at' = [at EXCEPT ![p] = how]
    /\ sub' = [sub EXCEPT ![p] = "send"]
    /\ heard' = [heard EXCEPT ![p] = NoVector]
    /\ Leave(p)
    /\ UNCHANGED flips

TakeTriples(p) ==
    /\ Gets(p, "triples")
    /\ triples' = [triples EXCEPT ![p] = Inbound(p)]
    /\ GoesTo(p, "coin")
    /\ Read(NextOf(p), p)
    /\ UNCHANGED <<heard, flips, level, done, count, astray, zeros, log, pool, z, shown>>

(* A wrong coin shuffles the party's triples in another way than everyone  *)
(* else's.                                                                 *)
TakeCoin(p) ==
    /\ Gets(p, "coin")
    /\ Opened(p, Inbound(p))
    /\ astray' = [astray EXCEPT ![p] = @ \/ Inbound(p)[1] = 1]
    /\ GoesTo(p, "cut")
    /\ Read(NextOf(p), p)
    /\ UNCHANGED <<heard, flips, level, done, count, triples, zeros, pool, z, shown>>

(* The cut: c must be a & b.  When only c is wrong the check fails; when a *)
(* or b is, it depends on the data.                                        *)
CutValues(p) ==
    [i \in 1..(3 * Cut) |-> IF astray[p] THEN Either ELSE Xor(Inbound(p)[i], CutShares(p)[i])]
Opens(p, i) == <<CutValues(p)[3 * i - 2], CutValues(p)[3 * i - 1], CutValues(p)[3 * i]>>

TakeCut(p) ==
    /\ Gets(p, "cut")
    /\ \A i \in 1..Cut : Opens(p, i) # <<0, 0, 1>>
    /\ Opened(p, CutValues(p))
    /\ GoesTo(p, "pairs")
    /\ Read(NextOf(p), p)
    /\ UNCHANGED <<heard, flips, level, done, count, triples, astray, zeros, pool, z, shown>>

CutFails(p) ==
    /\ Gets(p, "cut")
    /\ \E i \in 1..Cut : Opens(p, i) # <<0, 0, 0>>
    /\ Ends(p, "aborted")
    /\ UNCHANGED local

(* The sacrifice: rho and sigma of every pair are opened, and what must be *)
(* zero is computed from them.                                             *)
TakePairs(p) ==
    /\ Gets(p, "pairs")
    /\ LET errors == IF astray[p] THEN All(Len(Inbound(p)), Either) ELSE Inbound(p)
           known(k) == errors[2 * k] = 0 /\ errors[2 * k - 1] = 0
           kept(k) == <<0, Xor(triples[p][HeadOf(BucketOf(k))], triples[p][PartnerOf(k)])>>
       IN /\ Opened(p, errors)
          /\ zeros' = [zeros EXCEPT ![p] =
                [k \in Pairs(p) |-> IF known(k) THEN kept(k) ELSE <<Either, Either>>]]
    /\ GoesTo(p, "zero")
    /\ Read(NextOf(p), p)
    /\ UNCHANGED <<heard, flips, level, done, count, triples, astray, pool, z, shown>>

(* What m hashes and what it is compared with may be the same, or differ.  *)
SameFor(m, errors) ==
    ~m.changed /\ \A i \in DOMAIN errors : Xor(m.body[i], errors[i]) # 1
DiffersFor(m, errors) ==
    m.changed \/ \E i \in DOMAIN errors : Xor(m.body[i], errors[i]) # 0

(* check_zero_batch: the previous party's claim names our second           *)
(* components, the next party's our first.                                 *)
Column(p, i) == [k \in Pairs(p) |-> zeros[p][k][i]]
FromNext(p) == Incoming(NextOf(p), p)

ZeroChecked(p) ==
    /\ Gets(p, "zero")
    /\ SameFor(heard[p], Column(p, 2)) /\ SameFor(FromNext(p), Column(p, 1))
    /\ heard' = [heard EXCEPT ![p] = NoVector]
    /\ GoesTo(p, "views")
    /\ Read(NextOf(p), p)
    /\ UNCHANGED <<flips, local>>

ZeroFails(p) ==
    /\ Gets(p, "zero")
    /\ DiffersFor(heard[p], Column(p, 2)) \/ DiffersFor(FromNext(p), Column(p, 1))
    /\ Ends(p, "aborted")
    /\ UNCHANGED local

(* Mutant of ViewsAgree: the previous party's hash is ignored. *)
ViewsAgreeWithNext(p) == SameFor(FromNext(p), log[p])

(* view_check: all logs hash to the same. *)
ViewsAgree(p) == SameFor(heard[p], log[p]) /\ SameFor(FromNext(p), log[p])
ViewsDiffer(p) == DiffersFor(heard[p], log[p]) \/ DiffersFor(FromNext(p), log[p])

(* Mutant of Survivors: partners are kept too. *)
WholeBuckets(p) == [i \in 1..(count[p] * Bucket) |-> triples[p][Cut + i]]

(* After the views agree the heads of the buckets go into stock. *)
Survivors(p) == [b \in 1..count[p] |-> triples[p][HeadOf(b)]]

Refilled(p) ==
    /\ Gets(p, "views")
    /\ ViewsAgree(p)
    /\ pool' = [pool EXCEPT ![p] = @ \o Survivors(p)]
    /\ log' = [log EXCEPT ![p] = NoVector]
    /\ triples' = [triples EXCEPT ![p] = NoVector]
    /\ zeros' = [zeros EXCEPT ![p] = NoVector]
    /\ heard' = [heard EXCEPT ![p] = NoVector]
    /\ GoesTo(p, FirstRound(Len(pool[p]) + count[p]))
    /\ count' = [count EXCEPT ![p] = 0]
    /\ Read(NextOf(p), p)
    /\ UNCHANGED <<flips, level, done, astray, z, shown>>

ViewsFail(p) ==
    /\ \E round \in {"views", "check", "shown"} : Gets(p, round)
    /\ ViewsDiffer(p)
    /\ Ends(p, "aborted")
    /\ UNCHANGED local

(* One AND level: d and e are opened, the product follows from the triple. *)
TakeLevel(p) ==
    /\ Gets(p, "level")
    /\ LET d == Xor(Xor(z[p][1], z[p][2]), Inbound(p)[1])
           e == Inbound(p)[2]
           triple == pool[p][Len(pool[p])]
       IN /\ Opened(p, <<d, e>>)
          /\ z' = [z EXCEPT ![p] = IF d = 0 /\ e = 0 THEN <<0, triple>> ELSE <<Either, Either>>]
    /\ pool' = [pool EXCEPT ![p] = SubSeq(@, 1, Len(@) - 1)]
    /\ IF level[p] < Levels
         THEN level' = [level EXCEPT ![p] = @ + 1] /\ GoesTo(p, "level")
         ELSE level' = [level EXCEPT ![p] = 1] /\ GoesTo(p, "check")
    /\ Read(NextOf(p), p)
    /\ UNCHANGED <<heard, flips, done, count, triples, astray, zeros, shown>>

(* The circuit is evaluated once the views agree.  A process goes on with  *)
(* the next one, and at the end hands its components over; a thread        *)
(* returns, or opens its output first.                                     *)
Evaluated(p) ==
    /\ Gets(p, "check")
    /\ ViewsAgree(p)
    /\ done' = [done EXCEPT ![p] = @ + 1]
    /\ log' = [log EXCEPT ![p] = NoVector]
    /\ IF transport = "tcp"
         THEN /\ heard' = [heard EXCEPT ![p] = NoVector]
              /\ UNCHANGED flips
              /\ Read(NextOf(p), p)
              /\ IF done[p] + 1 < Evals
                   THEN /\ GoesTo(p, FirstRound(Len(pool[p])))
                        /\ count' = [count EXCEPT ![p] = Target(Len(pool[p]))]
                   ELSE GoesTo(p, "hand") /\ UNCHANGED count
       ELSE IF Opening
         THEN /\ GoesTo(p, "open")
              /\ heard' = [heard EXCEPT ![p] = NoVector]
              /\ Read(NextOf(p), p)
              /\ UNCHANGED <<count, flips>>
         ELSE Ends(p, "done") /\ UNCHANGED count
    /\ UNCHANGED <<level, triples, astray, zeros, pool, z, shown>>

(* open_words: opened like everything else, and checked at once.           *)
TakeOpen(p) ==
    /\ Gets(p, "open")
    /\ LET value == Xor(Xor(z[p][1], z[p][2]), Inbound(p)[1])
       IN Opened(p, <<value>>) /\ shown' = [shown EXCEPT ![p] = value]
    /\ GoesTo(p, "shown")
    /\ Read(NextOf(p), p)
    /\ UNCHANGED <<heard, flips, level, done, count, triples, astray, zeros, pool, z>>

OpensWords(p) ==
    /\ Gets(p, "shown")
    /\ ViewsAgree(p)
    /\ log' = [log EXCEPT ![p] = NoVector]
    /\ Ends(p, "done")
    /\ UNCHANGED <<level, done, count, triples, astray, zeros, pool, z, shown>>

(* All threads of a session's evaluation have returned without an error:   *)
(* the next evaluation gets new wires.                                     *)
NextEvaluation ==
    /\ Trio
    /\ \A p \in Parties : at[p] = "done" /\ done[p] < Evals
    /\ at' = [p \in Parties |-> FirstRound(Len(pool[p]))]
    /\ sub' = [p \in Parties |-> "send"]
    /\ count' = [p \in Parties |-> Target(Len(pool[p]))]
    /\ UNCHANGED <<heard, flips, level, done, triples, astray, zeros, log, pool, z, shown>>

(* Parties 1 and 2 hand both components to party 0 and exit; it compares   *)
(* every copy with its own and with each other.                            *)
HandOver(p) ==
    /\ at[p] = "hand" /\ sub[p] = "send" /\ p # 0
    /\ SendMayPass(0)
    /\ LET m == Words(p, z[p]) IN Send(p, 0, m, ChangedWords(m))
    /\ sub' = [sub EXCEPT ![p] = "exit"]
    /\ UNCHANGED <<at, heard, local>>

Exit(p) ==
    /\ sub[p] = "exit"
    /\ Ends(p, "done")
    /\ UNCHANGED local

CopiesAgree(from1, from2) ==
    from1[1] = z[0][2] /\ from1[2] = from2[1] /\ from2[2] = z[0][1]

Reconstruct ==
    /\ at[0] = "hand" /\ sub[0] = "send"
    /\ Readable(1, 0) /\ Readable(2, 0)
    /\ Ends(0, IF CopiesAgree(Incoming(1, 0).body, Incoming(2, 0).body) THEN "done" ELSE "aborted")
    /\ UNCHANGED local

-----------------------------------------------------------------------------
(* A neighbour is gone: the party aborts in its turn, which is how an      *)
(* abort travels round the ring.                                           *)
Awaited(p) ==
    IF at[p] = "hand" /\ p = 0 THEN IF Readable(1, 0) THEN {1, 2} ELSE {1}
    ELSE CASE sub[p] = "fromNext" -> {NextOf(p)}
           [] sub[p] = "fromPrev" -> {PrevOf(p)}
           [] OTHER               -> {}

Cascade(p) ==
    /\ ~Ended(p)
    /\ \E q \in Awaited(p) : ReadFails(q, p)
    /\ Ends(p, "aborted")
    /\ UNCHANGED local

SendsTo(p) ==
    CASE sub[p] = "sendNext"                   -> {NextOf(p)}
      [] sub[p] = "send" /\ at[p] # "hand"     -> {PrevOf(p)}
      [] sub[p] = "send" /\ at[p] = "hand"     -> {0} \ {p}
      [] OTHER                                 -> {}

SendFails(p) ==
    /\ ~Ended(p)
    /\ \E q \in SendsTo(p) : SendMayFail(q)
    /\ Ends(p, "aborted")
    /\ UNCHANGED local

PartyStep(p) ==
    \/ SendShares(p) \/ SendHash(p) \/ HearPrev(p)
    \/ TakeTriples(p) \/ TakeCoin(p) \/ TakeCut(p) \/ CutFails(p)
    \/ TakePairs(p) \/ ZeroChecked(p) \/ ZeroFails(p)
    \/ Refilled(p) \/ ViewsFail(p) \/ TakeLevel(p) \/ Evaluated(p)
    \/ TakeOpen(p) \/ OpensWords(p)
    \/ HandOver(p) \/ Exit(p)
    \/ Cascade(p) \/ SendFails(p)

Writer(l) == Write(l) /\ UNCHANGED <<at, sub, heard, flips, local>>

Next ==
    \/ \E p \in Parties : PartyStep(p)
    \/ Reconstruct \/ NextEvaluation
    \/ \E l \in Links : Writer(l)

(* The threads of the parties run, a session's caller goes on after each   *)
(* evaluation, and the writer threads write.                               *)
Fairness ==
    /\ \A p \in Parties : WF_vars(PartyStep(p))
    /\ WF_vars(Reconstruct) /\ WF_vars(NextEvaluation)
    /\ \A l \in Links : WF_vars(Writer(l))

Spec == Init /\ [][Next]_vars /\ Fairness

-----------------------------------------------------------------------------
StockLimit == Levels - 1 + MaxOf(Levels, MinBatch)

(* Types; the stock of triples never exceeds what one refill adds to a     *)
(* stock that was too small.                                               *)
TypeOK ==
    /\ NetTypeOK
    /\ at \in [Parties -> Rounds \cup {"done", "aborted"}]
    /\ sub \in [Parties -> {"send", "sendNext", "fromPrev", "fromNext", "exit"}]
    /\ level \in [Parties -> 1..Levels] /\ done \in [Parties -> 0..Evals]
    /\ count \in [Parties -> 0..MaxOf(Levels, MinBatch)]
    /\ astray \in [Parties -> BOOLEAN]
    /\ \A p \in Parties :
         /\ triples[p] \in {NoVector} \cup Vectors(Generated(p))
         /\ pool[p] \in Seq(Errors) /\ Len(pool[p]) <= StockLimit
         /\ log[p] \in Seq(Errors)
    /\ z \in [Parties -> Errors \X Errors] /\ shown \in [Parties -> Errors]
    /\ flips \in 0..MaxFlips

(* A party that has passed the checks of a refill has only right triples   *)
(* in stock, one that has passed the check of a circuit has the right      *)
(* output, and one that returns from an opening the right word, whatever   *)
(* the others are doing (mal.rs: "a corrupt minority can stop the          *)
(* computation but not skew it").                                          *)
Checked(p) == done[p] > 0 /\ (at[p] \in Generating \cup {"open", "shown", "hand", "done"}
                               \/ (at[p] = "level" /\ level[p] = 1))
VerifiedRight ==
    \A p \in Parties :
        /\ \A i \in DOMAIN pool[p] : pool[p][i] = 0
        /\ Checked(p) => z[p] = Clear
        /\ at[p] = "done" => shown[p] = 0

(* A changed item, wherever it is, makes the evaluation it is part of fail *)
(* (tests/malicious.rs, any_corrupted_bit_aborts).                         *)
CorruptionAborts == flips > 0 => \E p \in Parties : at[p] # "done"

(* What a party finds on the wire it reads was sent in the round it is in: *)
(* the messages carry no round, and neighbours run ahead of each other.    *)
InStep ==
    \A p \in Parties : \A q \in Awaited(p) :
        Readable(q, p) => Incoming(q, p).tag = Tag(p)

(* Within a process nobody aborts without a changed item: a party that     *)
(* returns and drops its wires, or is a round ahead, disturbs no other     *)
(* (run_parties, engine.rs:275).                                           *)
OnlyCorruptionAborts ==
    transport = "channel" /\ flips = 0 => \A p \in Parties : at[p] # "aborted"

(* The same of three processes: "every process says so and exits cleanly"  *)
(* (tests/tcp.rs:4).                                                       *)
ExitsCleanly == flips = 0 => \A p \in Parties : at[p] # "aborted"

(* "The coin comes only now, after every triple message is sent"           *)
(* (mal.rs:170).                                                           *)
CoinAfterTriples ==
    \A p, q \in Parties :
        at[p] = "coin" /\ sub[p] = "fromNext" => ~(at[q] = "triples" /\ sub[q] = "send")

(* Nobody waits for ever: all evaluations are done, or everyone has ended  *)
(* because somebody aborted.                                               *)
Finished ==
    /\ \A p \in Parties : Ended(p)
    /\ \/ \E p \in Parties : at[p] = "aborted"
       \/ \A p \in Parties : done[p] = Evals
Terminates == <>Finished
=============================================================================
