----------------------------- MODULE MalProofs -----------------------------
(***************************************************************************)
(* The malicious backend of the engine: its parties stay in step, and no   *)
(* changed item gets past its checks, whatever the sizes and the order in  *)
(* which the parties run.                                                  *)
(***************************************************************************)
EXTENDS MalInv, FiniteSetTheorems, TLAPS

-----------------------------------------------------------------------------
(* The stock of triples. *)

(* The larger of two numbers.                                              *)
LEMMA MaxFacts ==
    ASSUME NEW a \in Int, NEW b \in Int
    PROVE  MaxOf(a, b) \in {a, b} /\ MaxOf(a, b) >= a /\ MaxOf(a, b) >= b
BY DEF MaxOf

(* A refill makes at least min_batch triples, and no more than a batch.    *)
LEMMA BatchFacts ==
    /\ Levels \in Nat \ {0} /\ Evals \in Nat \ {0} /\ Batch \in Nat /\ Batch >= Levels
    /\ Batch \in {Levels, MinBatch} /\ MinBatch \in Nat \ {0} /\ Batch >= MinBatch
    /\ \A s \in Nat : Target(s) \in 1..Batch /\ Target(s) >= Levels - s
<1>1. /\ Levels \in Nat \ {0} /\ Evals \in Nat \ {0} /\ MinBatch \in Nat \ {0}
  BY SizesAssumption
<1>2. Batch \in {Levels, MinBatch} /\ Batch >= Levels /\ Batch >= MinBatch
  BY <1>1, MaxFacts DEF Batch
<1>3. ASSUME NEW s \in Nat PROVE Target(s) \in 1..Batch /\ Target(s) >= Levels - s
  <2>1. Target(s) \in {Levels - s, MinBatch} /\ Target(s) >= Levels - s /\ Target(s) >= MinBatch
    BY <1>1, MaxFacts DEF Target
  <2> QED BY <1>1, <1>2, <2>1
<1> QED BY <1>1, <1>2, <1>3

(* Remainders are unique.                                                  *)
LEMMA Remainder ==
    ASSUME NEW b \in Nat \ {0}, NEW q \in Int, NEW r \in 0..(b - 1)
    PROVE  (b * q + r) % b = r
BY Z3

(* The closed form of the stock is a remainder.                            *)
LEMMA StockFacts ==
    ASSUME NEW e \in Nat
    PROVE  StockAt(e) \in Nat /\ StockAt(e) < Batch /\ CountIn(e) \in 1..Batch
<1>1. Batch \in Nat \ {0} /\ e * Levels \in Nat
  BY BatchFacts
<1>2. (-(e * Levels)) % Batch \in 0..(Batch - 1)
  BY <1>1
<1>3. StockAt(e) \in Nat /\ StockAt(e) < Batch
  BY <1>1, <1>2 DEF StockAt
<1> QED BY <1>3, BatchFacts DEF CountIn

(* An evaluation takes a triple per level from the stock it starts with;   *)
(* what is left is the stock of the next one.                              *)
LEMMA StockNext ==
    ASSUME NEW e \in Nat
    PROVE  Filled(e) \in Nat /\ Filled(e) >= Levels /\ StockAt(e + 1) = Filled(e) - Levels
<1> DEFINE s == StockAt(e)
           L == Levels
           B == Batch
           n == Filled(e) - L
<1>1. s \in Nat /\ s < B /\ B \in Nat \ {0} /\ L \in Nat \ {0} /\ B >= L
  BY StockFacts, BatchFacts
<1>2. PICK q \in Int : -(e * L) = B * q + s
  <2>1. e * L \in Int
    BY <1>1
  <2> DEFINE m == -(e * L)
  <2>2. m \in Int
    BY <2>1
  <2> HIDE DEF m
  <2> HIDE DEF B
  <2>3. m = B * (m \div B) + (m % B) /\ m \div B \in Int
    BY <1>1, <2>2, Z3
  <2>4. s = m % B
    BY DEF m, s, B, StockAt
  <2> QED BY <2>3, <2>4 DEF m
<1>3. -((e + 1) * L) = B * q + (s - L)
  <2>1. (e + 1) * L = e * L + L /\ e * L \in Int /\ B * q \in Int
    BY <1>1, Z3
  <2> QED BY <1>1, <1>2, <2>1
<1>4. CASE s < L
  <2>1. Filled(e) = s + Target(s)
    BY <1>4 DEF Filled, Refills, CountIn
  <2>2. Target(s) \in {L - s, MinBatch} /\ Target(s) >= L - s /\ Target(s) >= MinBatch
    BY <1>1, MaxFacts, BatchFacts DEF Target
  <2>3. CASE B = L
    <3>1. s = 0
      <4>1. -(e * L) = B * (-e) + 0
        BY <1>1, <2>3, Z3
      <4>2. (B * (-e) + 0) % B = 0
        BY <1>1, Remainder
      <4> QED BY <2>3, <4>1, <4>2 DEF StockAt
    <3>2. Target(s) = L
      BY <1>1, <2>2, <2>3, <3>1, BatchFacts, SMTT(30)
    <3>3. -((e + 1) * L) = B * (-(e + 1)) + 0
      BY <1>1, <2>3, Z3
    <3>4. (B * (-(e + 1)) + 0) % B = 0
      BY <1>1, Remainder
    <3>5. StockAt(e + 1) = 0
      BY <2>3, <3>3, <3>4 DEF StockAt
    <3> QED BY <1>1, <2>1, <3>1, <3>2, <3>5
  <2>4. CASE B # L
    <3>1. B = MinBatch /\ B > L
      BY <1>1, <2>4, BatchFacts
    <3>2. Target(s) = B
      BY <1>1, <2>2, <3>1
    <3>3. s + B - L \in 0..(B - 1)
      BY <1>1, <1>4, <3>1
    <3>4. -((e + 1) * L) = B * (q - 1) + (s + B - L)
      <4>1. B * (q - 1) = B * q - B /\ B * q \in Int
        BY <1>1, Z3
      <4> QED BY <1>1, <1>3, <4>1
    <3>5. (B * (q - 1) + (s + B - L)) % B = s + B - L
      <4> DEFINE r == s + B - L
                 k == q - 1
      <4>1. r \in 0..(B - 1) /\ k \in Int
        BY <3>3
      <4> HIDE DEF r, k
      <4>2. (B * k + r) % B = r
        BY <1>1, <4>1, Remainder
      <4> QED BY <4>2 DEF r, k
    <3>6. StockAt(e + 1) = s + B - L
      BY <3>4, <3>5 DEF StockAt
    <3> QED BY <1>1, <2>1, <3>2, <3>3, <3>6
  <2> QED BY <2>3, <2>4
<1>5. CASE ~(s < L)
  <2>1. Filled(e) = s
    BY <1>1, <1>5 DEF Filled, Refills
  <2>2. s - L \in 0..(B - 1)
    BY <1>1, <1>5
  <2>3. (B * q + (s - L)) % B = s - L
    BY <1>1, <2>2, Remainder
  <2>4. StockAt(e + 1) = s - L
    BY <1>3, <2>3 DEF StockAt
  <2> QED BY <1>1, <1>5, <2>1, <2>4
<1> QED BY <1>4, <1>5

(* The stock never exceeds what one refill adds to one that was too small. *)
LEMMA StockBounds ==
    ASSUME NEW e \in Nat
    PROVE  StockAt(e) <= StockLimit /\ Filled(e) <= StockLimit
<1>1. /\ StockAt(e) \in Nat /\ StockAt(e) < Batch /\ CountIn(e) \in 1..Batch
      /\ Levels \in Nat \ {0} /\ Batch \in Nat
  BY StockFacts, BatchFacts
<1>2. StockLimit = Levels - 1 + Batch
  BY DEF StockLimit, Batch
<1> QED BY <1>1, <1>2 DEF Filled, Refills

(* Before the first evaluation there is no stock.                          *)
LEMMA StockAtStart == StockAt(0) = 0
<1>1. Batch \in Nat \ {0} /\ Levels \in Nat
  BY BatchFacts
<1>2. -(0 * Levels) = Batch * 0 + 0
  BY <1>1
<1> QED BY <1>1, <1>2, Remainder DEF StockAt

-----------------------------------------------------------------------------
(* Rounds and the links on which their messages go. *)

(* Neighbours on the ring.                                                 *)
LEMMA RingFacts ==
    \A p \in Parties : /\ NextOf(p) \in Parties /\ PrevOf(p) \in Parties
                       /\ NextOf(PrevOf(p)) = p /\ PrevOf(NextOf(p)) = p
                       /\ NextOf(p) # p /\ PrevOf(p) # p /\ NextOf(p) # PrevOf(p)
                       /\ Parties = {p, NextOf(p), PrevOf(p)}
                       /\ PrevOf(PrevOf(p)) = NextOf(p) /\ NextOf(NextOf(p)) = PrevOf(p)
BY DEF Parties, NextOf, PrevOf

(* Two different parties have a link.                                      *)
LEMMA LinkFacts ==
    ASSUME NEW q \in Parties, NEW p \in Parties, q # p
    PROVE  <<q, p>> \in Links
BY DEF Links

Proper(t) == t[1] \in Int /\ t[3] \in Nat

(* The order of the rounds.                                                *)
LEMMA OrderFacts ==
    ASSUME NEW t, NEW u, NEW v, Proper(t), Proper(u), Proper(v)
    PROVE  /\ NotAfter(t, t) /\ ~Before(t, t)
           /\ Before(t, u) => NotAfter(t, u) /\ ~NotAfter(u, t)
           /\ Before(t, u) /\ NotAfter(u, v) => Before(t, v)
           /\ NotAfter(t, u) /\ Before(u, v) => Before(t, v)
           /\ NotAfter(t, u) /\ NotAfter(u, v) => NotAfter(t, v)
<1>1. Levels \in Nat
  BY BatchFacts
<1>2. Rank(t) \in Int /\ Rank(u) \in Int /\ Rank(v) \in Int
  <2>1. ASSUME NEW s, Proper(s) PROVE Rank(s) \in Int
    BY <1>1, <2>1 DEF Rank, Proper
  <2> QED BY <2>1
<1> QED BY <1>2 DEF Proper, Before, NotAfter

(* Where a party can be that has not aborted.                              *)
Stages ==
    {t \in (0..Evals) \X (Rounds \cup {"done"}) \X (0..Levels) : (t[2] = "level") <=> (t[3] > 0)}

(* Stages and tags have their form.                                        *)
LEMMA StageFacts ==
    ASSUME NEW t \in Stages
    PROVE  /\ Proper(t) /\ t = <<t[1], t[2], t[3]>>
           /\ t[1] \in 0..Evals /\ t[2] \in Rounds \cup {"done"} /\ t[3] \in 0..Levels
           /\ t[2] # "level" => t[3] = 0
           /\ t[2] = "level" => t[3] \in 1..Levels
           /\ t[2] # "done" => t \in Tags
BY BatchFacts DEF Stages, Proper, Tags

(* A tag is a stage.                                                       *)
LEMMA TagIsStage ==
    ASSUME NEW t \in Tags
    PROVE  t \in Stages
BY DEF Stages, Tags

(* The first round of an evaluation is a stage.                            *)
LEMMA FirstFacts ==
    ASSUME NEW e \in 0..Evals
    PROVE  /\ First(e) \in Stages /\ First(e)[1] = e
           /\ First(e)[2] = FirstRound(StockAt(e)) /\ First(e)[2] \in {"triples", "level"}
           /\ First(e)[3] = IF First(e)[2] = "level" THEN 1 ELSE 0
BY BatchFacts DEF First, Stages, FirstRound, Refills, Rounds, Resharing, Generating

(* Rounds follow each other: the next one is a stage, and comes later.     *)
LEMMA AfterFacts ==
    ASSUME NEW t \in Tags, t[2] \in RefillRounds \cup {"level", "check"} => t[1] < Evals
    PROVE  /\ After(t) \in Stages
           /\ transport = "channel" /\ t[2] # "hand" => Before(t, After(t)) /\ After(t)[2] # "hand"
<1>1. /\ Levels \in Nat \ {0} /\ Evals \in Nat \ {0}
  BY BatchFacts
<1>2. /\ t[1] \in 0..Evals /\ t[2] \in Rounds /\ t[3] \in 0..Levels
      /\ t[2] # "level" => t[3] = 0
      /\ t[2] = "level" => t[3] \in 1..Levels
      /\ t \in Stages /\ t \in (0..Evals) \X Rounds \X (0..Levels)
  BY <1>1, TagIsStage, StageFacts DEF Tags
<1>3. CASE t[2] = "check"
  <2>1. t[1] + 1 \in 0..Evals
    BY <1>1, <1>2, <1>3 DEF RefillRounds
  <2>2. CASE transport = "tcp" /\ t[1] + 1 < Evals
    BY <1>3, <2>1, <2>2, FirstFacts DEF After
  <2>3. CASE transport = "tcp" /\ ~(t[1] + 1 < Evals)
    BY <1>1, <1>3, <2>1, <2>3 DEF After, Stages, Rounds
  <2>4. CASE transport # "tcp"
    <3>1. After(t) \in Stages /\ After(t)[2] # "hand" /\ After(t)[1] = t[1] + 1
      BY <1>1, <1>3, <2>1, <2>4 DEF After, Stages, Rounds, Resharing, Exchanges
    <3> QED BY <1>2, <3>1 DEF Before
  <2> QED BY <2>2, <2>3, <2>4
<1>4. CASE t[2] = "level"
  <2>1. After(t) = IF t[3] < Levels THEN <<t[1], "level", t[3] + 1>> ELSE <<t[1], "check", 0>>
    BY <1>4 DEF After
  <2>2. After(t) \in Stages
    BY <1>1, <1>2, <1>4, <2>1 DEF Stages, Rounds, Resharing, Exchanges
  <2>3. Before(t, After(t)) /\ After(t)[2] # "hand"
    BY <1>1, <1>2, <1>4, <2>1 DEF Before, Rank
  <2> QED BY <2>2, <2>3
<1>5. CASE t[2] \notin {"check", "level"}
  <2>1. After(t) \in Stages
    BY <1>1, <1>2, <1>5 DEF After, Stages, Rounds, Resharing, Exchanges, Generating
  <2>2. ASSUME t[2] # "hand" PROVE Before(t, After(t)) /\ After(t)[2] # "hand"
    <3> DEFINE u == After(t)
    <3>1. /\ u[1] = t[1]
          /\ t[2] \in Generating \cup {"zero", "views", "open", "shown"}
          /\ u[2] = CASE t[2] = "triples" -> "coin" [] t[2] = "coin" -> "cut" [] t[2] = "cut" -> "pairs"
                     [] t[2] = "pairs" -> "zero" [] t[2] = "zero" -> "views" [] t[2] = "views" -> "level"
                     [] t[2] = "open" -> "shown" [] t[2] = "shown" -> "done"
          /\ u[3] = IF t[2] = "views" THEN 1 ELSE 0
      BY <1>1, <1>2, <1>5, <2>2 DEF After, Rounds, Resharing, Exchanges, Generating
    <3> HIDE DEF u
    <3>2. Rank(t) < Rank(u)
      BY <1>1, <3>1 DEF Rank, Generating
    <3>3. u[2] # "hand"
      BY <3>1 DEF Generating
    <3> QED BY <1>2, <3>1, <3>2, <3>3 DEF Before, u
  <2> QED BY <2>1, <2>2
<1> QED BY <1>3, <1>4, <1>5

(* The next exchange is a stage, and not before the round itself.          *)
LEMMA ExchangeFacts ==
    ASSUME NEW t \in Stages
    PROVE  /\ NextExchange(t) \in Stages /\ NextExchange(t)[2] \in Exchanges \cup {"hand", "done"}
           /\ NextExchange(t)[2] # "done" => t[2] # "done"
           /\ t[2] # "hand" => NextExchange(t)[2] # "hand"
           /\ NotAfter(t, NextExchange(t))
<1>1. /\ t[1] \in 0..Evals /\ t[2] \in Rounds \cup {"done"} /\ t[3] \in 0..Levels /\ Proper(t)
      /\ t[2] # "level" => t[3] = 0
      /\ t[2] = "level" => t[3] \in 1..Levels
      /\ Levels \in Nat \ {0} /\ Evals \in Nat
  BY StageFacts, BatchFacts
<1>2. CASE t[2] \in Generating
  <2>1. NextExchange(t) = <<t[1], "zero", 0>>
    BY <1>2 DEF NextExchange, Generating
  <2> QED BY <1>1, <1>2, <2>1 DEF Stages, Rounds, Exchanges, Generating, NotAfter, Rank
<1>3. CASE t[2] = "level"
  <2>1. NextExchange(t) = <<t[1], "check", 0>>
    BY <1>3 DEF NextExchange, Generating
  <2> QED BY <1>1, <1>3, <2>1 DEF Stages, Rounds, Exchanges, NotAfter, Rank
<1>4. CASE t[2] = "open"
  <2>1. NextExchange(t) = <<t[1], "shown", 0>>
    BY <1>4 DEF NextExchange, Generating
  <2> QED BY <1>1, <1>4, <2>1 DEF Stages, Rounds, Exchanges, NotAfter, Rank
<1>5. CASE t[2] \notin Generating \cup {"level", "open"}
  <2>1. NextExchange(t) = t
    BY <1>5 DEF NextExchange
  <2>2. t[2] \in Exchanges \cup {"hand", "done"}
    BY <1>1, <1>5 DEF Rounds, Resharing
  <2>3. NotAfter(t, t)
    BY <1>1, OrderFacts
  <2> QED BY <2>1, <2>2, <2>3 DEF Exchanges
<1> QED BY <1>2, <1>3, <1>4, <1>5

Goes(t) == t[2] \in RefillRounds \cup {"level", "check"} => t[1] < Evals

(* What is due on a link, in a round and after it.                         *)
LEMMA DueFacts ==
    ASSUME NEW q \in Parties, NEW p \in Parties, NEW t \in Stages
    PROVE  /\ Due(q, p, t) \in Stages
           /\ t[2] # "hand" => Due(q, p, t)[2] # "hand"
           /\ t \in Tags /\ Goes(t) => Following(q, p, t) \in Stages
           /\ transport = "channel" /\ t \in Tags /\ Goes(t) /\ t[2] # "hand"
              /\ (p = PrevOf(q) \/ t[2] \in Exchanges)
                => Before(t, Following(q, p, t)) /\ Following(q, p, t)[2] # "hand"
<1>1. Due(q, p, t) \in Stages /\ (t[2] # "hand" => Due(q, p, t)[2] # "hand")
  BY ExchangeFacts DEF Due
<1>2. ASSUME t \in Tags, Goes(t) PROVE After(t) \in Stages /\ Following(q, p, t) \in Stages
  BY <1>2, AfterFacts, ExchangeFacts DEF Following, Due, Goes
<1>3. ASSUME transport = "channel", t \in Tags, Goes(t), t[2] # "hand",
             p = PrevOf(q) \/ t[2] \in Exchanges
      PROVE  Before(t, Following(q, p, t)) /\ Following(q, p, t)[2] # "hand"
  <2>1. After(t) \in Stages /\ Before(t, After(t)) /\ After(t)[2] # "hand"
    BY <1>3, AfterFacts DEF Goes
  <2>2. /\ NotAfter(After(t), NextExchange(After(t))) /\ NextExchange(After(t)) \in Stages
        /\ NextExchange(After(t))[2] # "hand"
    BY <2>1, ExchangeFacts
  <2>3. Before(t, NextExchange(After(t)))
    BY <2>1, <2>2, OrderFacts, StageFacts
  <2> QED BY <2>1, <2>2, <2>3 DEF Following, Due
<1> QED BY <1>1, <1>2, <1>3

(* A round of reshares leads to the exchange it is before.                 *)
LEMMA SkipFacts ==
    ASSUME NEW t \in Tags
    PROVE  /\ t[2] \in Resharing => NextExchange(After(t)) = NextExchange(t)
           /\ t[2] = "hand" => After(t) = t /\ NextExchange(t) = t
<1>1. /\ Levels \in Nat \ {0} /\ t[1] \in 0..Evals /\ t[2] \in Rounds
      /\ t[2] = "level" => t[3] \in 1..Levels
  BY BatchFacts, TagIsStage, StageFacts DEF Tags
<1>2. CASE t[2] = "level"
  <2>1. After(t) = IF t[3] < Levels THEN <<t[1], "level", t[3] + 1>> ELSE <<t[1], "check", 0>>
    BY <1>2 DEF After
  <2> QED BY <1>1, <1>2, <2>1 DEF NextExchange, Generating
<1>3. CASE t[2] \in Generating
  BY <1>1, <1>3 DEF After, NextExchange, Generating
<1>4. CASE t[2] \in {"open", "hand"}
  BY <1>1, <1>4 DEF After, NextExchange, Generating, Resharing
<1>5. CASE t[2] \notin {"level", "open", "hand"} \cup Generating
  BY <1>1, <1>5 DEF Resharing
<1> QED BY <1>2, <1>3, <1>4, <1>5

-----------------------------------------------------------------------------
(* Where a party is. *)

(* The round a party is in.                                                *)
LEMMA TagFacts ==
    ASSUME SyncInv, NEW p \in Parties, at[p] # "aborted"
    PROVE  /\ Tag(p) \in Stages /\ Goes(Tag(p))
           /\ Tag(p)[1] = done[p] /\ Tag(p)[2] = at[p] /\ done[p] \in 0..Evals
           /\ Tag(p)[3] = IF at[p] = "level" THEN level[p] ELSE 0
           /\ at[p] # "done" => Tag(p) \in Tags
           /\ at[p] \in Rounds \cup {"done"} /\ sub[p] \in SubsIn(at[p])
<1>1. /\ at[p] \in Rounds \cup {"done"} /\ level[p] \in 1..Levels /\ done[p] \in 0..Evals
      /\ PlaceInv(p)
  BY DEF SyncInv, TypeOK
<1>2. Tag(p) = <<done[p], at[p], IF at[p] = "level" THEN level[p] ELSE 0>>
  BY DEF Tag
<1>3. Tag(p) \in Stages
  BY <1>1, <1>2, BatchFacts DEF Stages
<1>4. at[p] # "done" => Tag(p) \in Tags
  BY <1>2, <1>3, StageFacts
<1> QED BY <1>1, <1>2, <1>3, <1>4 DEF PlaceInv, Goes

(* Which steps a round has.                                                *)
LEMMA SubFacts ==
    ASSUME SyncInv, NEW p \in Parties
    PROVE  /\ at[p] \in Resharing => sub[p] \in {"send", "fromNext"}
           /\ at[p] \in Exchanges => sub[p] \in {"send", "sendNext", "fromPrev", "fromNext"}
           /\ at[p] = "hand" => sub[p] \in {"send", "exit"}
           /\ Ended(p) => sub[p] = "send"
           /\ sub[p] = "fromNext" => at[p] \in Resharing \cup Exchanges
           /\ sub[p] \in {"sendNext", "fromPrev"} => at[p] \in Exchanges
           /\ sub[p] = "exit" => at[p] = "hand"
<1>1. sub[p] \in SubsIn(at[p]) /\ at[p] \in Rounds \cup {"done", "aborted"}
  BY DEF SyncInv, TypeOK, PlaceInv
<1>2. /\ Resharing \cap Exchanges = {} /\ "hand" \notin Resharing \cup Exchanges
      /\ "done" \notin Resharing \cup Exchanges /\ "aborted" \notin Resharing \cup Exchanges
      /\ Rounds = Resharing \cup Exchanges \cup {"hand"}
  BY DEF Rounds, Resharing, Exchanges, Generating
<1>3. CASE at[p] \in Resharing
  BY <1>1, <1>2, <1>3 DEF SubsIn, Ended
<1>4. CASE at[p] \in Exchanges
  BY <1>1, <1>2, <1>4 DEF SubsIn, Ended
<1>5. CASE at[p] \notin Resharing \cup Exchanges
  BY <1>1, <1>2, <1>5 DEF SubsIn, Ended
<1> QED BY <1>3, <1>4, <1>5

(* What comes next on a link.                                              *)
LEMMA ToFacts ==
    ASSUME SyncInv, NEW q \in Parties, NEW p \in Parties
    PROVE  /\ at[q] # "aborted" => ToSend(q, p) \in Stages
           /\ at[p] # "aborted" => ToRead(p, q) \in Stages
<1>1. ASSUME at[q] # "aborted" PROVE ToSend(q, p) \in Stages
  <2>1. Tag(q) \in Stages /\ Goes(Tag(q)) /\ (at[q] # "done" => Tag(q) \in Tags)
    BY <1>1, TagFacts
  <2>2. HasSent(q, p) => at[q] # "done"
    BY SubFacts DEF HasSent, Ended
  <2> QED BY <2>1, <2>2, DueFacts DEF ToSend
<1>2. ASSUME at[p] # "aborted" PROVE ToRead(p, q) \in Stages
  <2>1. Tag(p) \in Stages /\ Goes(Tag(p)) /\ (at[p] # "done" => Tag(p) \in Tags)
    BY <1>2, TagFacts
  <2>2. HasRead(p, q) => at[p] # "done"
    BY SubFacts DEF HasRead, Ended
  <2> QED BY <2>1, <2>2, DueFacts DEF ToRead
<1> QED BY <1>1, <1>2

-----------------------------------------------------------------------------
(* A link, and what a step does to it. *)

(* What is on its way.                                                     *)
LEMMA MsgsFacts ==
    ASSUME OrderInv, NEW q \in Parties, NEW p \in Parties, q # p
    PROVE  /\ <<q, p>> \in Links
           /\ wire[<<q, p>>] \in Seq(Messages) /\ queued[<<q, p>>] \in Seq(Messages)
           /\ Msgs(q, p) \in Seq(Messages)
           /\ \A i \in 1..Len(Msgs(q, p)) : /\ Msgs(q, p)[i].tag \in Tags
                                            /\ Msgs(q, p)[i] \in MessagesIn(Msgs(q, p)[i].tag)
           /\ LinkInv(q, p)
           /\ transport = "channel" => queued[<<q, p>>] = << >> /\ Msgs(q, p) = wire[<<q, p>>]
<1>1. <<q, p>> \in Links
  BY LinkFacts
<1>2. wire[<<q, p>>] \in Seq(Messages) /\ queued[<<q, p>>] \in Seq(Messages)
  BY <1>1 DEF OrderInv
<1>3. Msgs(q, p) \in Seq(Messages)
  BY <1>2 DEF Msgs
<1>4. /\ \A i \in DOMAIN Msgs(q, p) : Msgs(q, p)[i] \in MessagesIn(Msgs(q, p)[i].tag)
      /\ LinkInv(q, p)
  BY DEF OrderInv
<1>5. ASSUME transport = "channel"
      PROVE  queued[<<q, p>>] = << >> /\ Msgs(q, p) = wire[<<q, p>>]
  <2>1. queued[<<q, p>>] = << >>
    BY <1>1, <1>5 DEF OrderInv
  <2> QED BY <1>2, <2>1 DEF Msgs
<1>6. \A m \in Messages : m.tag \in Tags
  BY DEF Messages
<1> HIDE DEF OrderInv
<1> QED BY <1>1, <1>2, <1>3, <1>4, <1>5, <1>6

(* The next round does not depend on the step.                             *)
LEMMA CourseKept ==
    ASSUME transport' = transport
    PROVE  \A q, p, t : Following(q, p, t)' = Following(q, p, t)
<1>1. \A t : After(t)' = After(t)
  BY DEF After
<1> QED BY <1>1 DEF Following

(* Nothing is sent on the link and nothing is read from it; messages that  *)
(* were waiting to be written may be lost with their sender.               *)
LEMMA LinkKept ==
    ASSUME OrderInv, NEW q \in Parties, NEW p \in Parties, q # p, transport' = transport,
           Ended(p) => Ended(p)',
           Complete(q)' => Complete(q), Complete(p)' => Complete(p),
           ~Ended(p)' => \/ Msgs(q, p)' = Msgs(q, p)
                         \/ /\ ~Complete(q)'
                            /\ \E n \in 0..Len(Msgs(q, p)) : Msgs(q, p)' = SubSeq(Msgs(q, p), 1, n),
           ~Ended(p)' \/ Complete(p)' => ToRead(p, q)' = ToRead(p, q),
           Complete(q)' => ToSend(q, p)' = ToSend(q, p)
    PROVE  LinkInv(q, p)'
<1> PICK u : u = Msgs(q, p)'
  OBVIOUS
<1> DEFINE w == Msgs(q, p)
<1>1. /\ \A t : Following(q, p, t)' = Following(q, p, t)
  BY CourseKept
<1>2. LinkInv(q, p) /\ w \in Seq(Messages)
  BY MsgsFacts
<1>3. ASSUME ~Ended(p)'
      PROVE  /\ u # << >> => u[1].tag = ToRead(p, q)'
             /\ \A i \in 1..(Len(u) - 1) : u[i + 1].tag = Following(q, p, u[i].tag)'
             /\ Complete(q)' => ToSend(q, p)' = IF u = << >> THEN ToRead(p, q)'
                                                ELSE Following(q, p, u[Len(u)].tag)'
             /\ transport' = "channel" /\ Complete(q)' =>
                    \A i \in 1..Len(u) : Before(u[i].tag, ToSend(q, p)')
  <2>1. /\ w # << >> => w[1].tag = ToRead(p, q)
        /\ \A i \in 1..(Len(w) - 1) : w[i + 1].tag = Following(q, p, w[i].tag)
        /\ Complete(q) => ToSend(q, p) = IF w = << >> THEN ToRead(p, q)
                                           ELSE Following(q, p, w[Len(w)].tag)
        /\ transport = "channel" /\ Complete(q) =>
              \A i \in 1..Len(w) : Before(w[i].tag, ToSend(q, p))
    BY <1>2, <1>3 DEF LinkInv
  <2>2. CASE u = w
    <3> HIDE DEF w
    <3> QED BY <1>1, <1>3, <2>1, <2>2
  <2>3. CASE ~Complete(q)' /\ \E n \in 0..Len(w) : u = SubSeq(w, 1, n)
    <3>1. PICK n \in 0..Len(w) : u = SubSeq(w, 1, n)
      BY <2>3
    <3> HIDE DEF w
    <3>2. Len(u) = n /\ \A i \in 1..n : u[i] = w[i]
      BY <1>2, <3>1
    <3>3. u # << >> => n >= 1 /\ w # << >>
      BY <1>2, <3>1, <3>2
    <3>4. u # << >> => u[1].tag = ToRead(p, q)'
      BY <1>3, <2>1, <3>2, <3>3
    <3>5. ASSUME NEW i \in 1..(Len(u) - 1) PROVE u[i + 1].tag = Following(q, p, u[i].tag)'
      <4>1. i \in 1..n /\ i + 1 \in 1..n /\ i \in 1..(Len(w) - 1)
        BY <1>2, <3>2
      <4>2. w[i + 1].tag = Following(q, p, w[i].tag)
        BY <2>1, <4>1
      <4> QED BY <1>1, <3>2, <4>1, <4>2
    <3> QED BY <2>3, <3>4, <3>5
  <2> QED BY <1>3, <2>2, <2>3
<1>4. transport' = "channel" /\ Complete(q)' /\ Complete(p)' => NotAfter(ToRead(p, q)', ToSend(q, p)')
  BY <1>2 DEF LinkInv
<1> QED BY <1>3, <1>4 DEF LinkInv

(* The message that is due is sent on the link.                            *)
LEMMA LinkSent ==
    ASSUME OrderInv, NEW q \in Parties, NEW p \in Parties, q # p, transport' = transport,
           Ended(p)' = Ended(p), Complete(p)' = Complete(p), Complete(q), Complete(q)',
           ToSend(q, p) \in Stages, Complete(p) => ToRead(p, q) \in Stages,
           Before(ToSend(q, p), ToSend(q, p)') \/ transport = "tcp", ToSend(q, p)' \in Stages,
           NEW m, m.tag = ToSend(q, p), m \in Messages,
           ~Ended(p) => Msgs(q, p)' = Append(Msgs(q, p), m),
           ToSend(q, p)' = Following(q, p, ToSend(q, p)),
           ToRead(p, q)' = ToRead(p, q)
    PROVE  LinkInv(q, p)'
<1> PICK u : u = Msgs(q, p)'
  OBVIOUS
<1> DEFINE w == Msgs(q, p)
           n == Len(w)
<1>1. /\ \A t : Following(q, p, t)' = Following(q, p, t)
  BY CourseKept
<1>2. /\ LinkInv(q, p) /\ w \in Seq(Messages) /\ n \in Nat
      /\ \A i \in 1..n : w[i].tag \in Stages
  <2>1. /\ LinkInv(q, p) /\ w \in Seq(Messages)
        /\ \A i \in 1..n : w[i].tag \in Tags
    BY MsgsFacts
  <2> HIDE DEF w
  <2> QED BY <2>1, TagIsStage
<1>3. ASSUME ~Ended(p)'
      PROVE  /\ u # << >> => u[1].tag = ToRead(p, q)'
             /\ \A i \in 1..(Len(u) - 1) : u[i + 1].tag = Following(q, p, u[i].tag)'
             /\ Complete(q)' => ToSend(q, p)' = IF u = << >> THEN ToRead(p, q)'
                                                ELSE Following(q, p, u[Len(u)].tag)'
             /\ transport' = "channel" /\ Complete(q)' =>
                    \A i \in 1..Len(u) : Before(u[i].tag, ToSend(q, p)')
  <2>1. /\ w # << >> => w[1].tag = ToRead(p, q)
        /\ \A i \in 1..(Len(w) - 1) : w[i + 1].tag = Following(q, p, w[i].tag)
        /\ ToSend(q, p) = IF w = << >> THEN ToRead(p, q)
                                           ELSE Following(q, p, w[Len(w)].tag)
        /\ transport = "channel" => \A i \in 1..Len(w) : Before(w[i].tag, ToSend(q, p))
    BY <1>2, <1>3 DEF LinkInv
  <2>2. /\ u = Append(w, m) /\ Len(u) = n + 1 /\ u # << >>
        /\ u[n + 1] = m /\ \A i \in 1..n : u[i] = w[i]
    BY <1>2, <1>3
  <2> HIDE DEF w
  <2>3. w = << >> <=> n = 0
    BY <1>2 DEF n
  <2> HIDE DEF n
  <2>4. u[1].tag = ToRead(p, q)'
    BY <1>2, <2>1, <2>2, <2>3
  <2>5. ASSUME NEW i \in 1..(Len(u) - 1) PROVE u[i + 1].tag = Following(q, p, u[i].tag)'
    <3>1. i \in 1..n
      BY <1>2, <2>2
    <3>2. CASE i = n
      BY <1>1, <1>2, <2>1, <2>2, <2>3, <3>1, <3>2 DEF n
    <3>3. CASE i # n
      <4>1. i \in 1..(n - 1) /\ i + 1 \in 1..n
        BY <1>2, <3>1, <3>3
      <4>2. w[i + 1].tag = Following(q, p, w[i].tag)
        BY <2>1, <4>1 DEF n
      <4> QED BY <1>1, <2>2, <3>1, <4>1, <4>2
    <3> QED BY <3>2, <3>3
  <2>6. ToSend(q, p)' = Following(q, p, u[Len(u)].tag)'
    BY <1>1, <2>2
  <2>7. ASSUME transport = "channel", NEW i \in 1..Len(u) PROVE Before(u[i].tag, ToSend(q, p)')
    <3>1. CASE i = n + 1
      BY <2>2, <2>7, <3>1
    <3>2. CASE i # n + 1
      <4>1. i \in 1..n
        BY <1>2, <2>2, <3>2
      <4>2. Before(w[i].tag, ToSend(q, p)) /\ Before(ToSend(q, p), ToSend(q, p)')
        BY <2>1, <2>7, <4>1 DEF n
      <4> QED BY <1>2, <2>2, <4>1, <4>2, OrderFacts, StageFacts
    <3> QED BY <3>1, <3>2
  <2> QED BY <2>2, <2>4, <2>5, <2>6, <2>7
<1>4. transport' = "channel" /\ Complete(q)' /\ Complete(p)' => NotAfter(ToRead(p, q)', ToSend(q, p)')
  <2> SUFFICES ASSUME transport = "channel", Complete(p) PROVE NotAfter(ToRead(p, q), ToSend(q, p)')
    OBVIOUS
  <2>1. NotAfter(ToRead(p, q), ToSend(q, p))
    BY <1>2 DEF LinkInv
  <2> QED BY <2>1, OrderFacts, StageFacts
<1> QED BY <1>3, <1>4 DEF LinkInv

(* The first message on the link is read.                                  *)
LEMMA LinkRead ==
    ASSUME OrderInv, NEW q \in Parties, NEW p \in Parties, q # p, transport' = transport,
           ~Ended(p), Msgs(q, p) # << >>, Complete(q)' = Complete(q), Complete(q) => ToSend(q, p) \in Stages,
           ~Ended(p)' => Msgs(q, p)' = Tail(Msgs(q, p)),
           ToRead(p, q)' = Following(q, p, ToRead(p, q)),
           Complete(q) => ToSend(q, p)' = ToSend(q, p)
    PROVE  LinkInv(q, p)'
<1> PICK u : u = Msgs(q, p)'
  OBVIOUS
<1> DEFINE w == Msgs(q, p)
           n == Len(w)
<1>1. /\ \A t : Following(q, p, t)' = Following(q, p, t)
  BY CourseKept
<1>2. /\ LinkInv(q, p) /\ w \in Seq(Messages) /\ n \in Nat
      /\ \A i \in 1..n : w[i].tag \in Stages
  <2>1. /\ LinkInv(q, p) /\ w \in Seq(Messages)
        /\ \A i \in 1..n : w[i].tag \in Tags
    BY MsgsFacts
  <2> HIDE DEF w
  <2> QED BY <2>1, TagIsStage
<1>3. /\ w[1].tag = ToRead(p, q)
      /\ \A i \in 1..(Len(w) - 1) : w[i + 1].tag = Following(q, p, w[i].tag)
      /\ Complete(q) => ToSend(q, p) = Following(q, p, w[Len(w)].tag)
      /\ transport = "channel" /\ Complete(q) =>
            \A i \in 1..Len(w) : Before(w[i].tag, ToSend(q, p))
  BY <1>2 DEF LinkInv
<1> HIDE DEF w
<1>4. n >= 1 /\ Tail(w) \in Seq(Messages) /\ Len(Tail(w)) = n - 1 /\ \A i \in 1..(n - 1) : Tail(w)[i] = w[i + 1]
  BY <1>2 DEF w
<1>5. n >= 2 => w[2].tag = ToRead(p, q)'
  <2>1. n >= 2 => 1 \in 1..(Len(w) - 1)
    BY <1>2
  <2> QED BY <1>3, <2>1
<1>6. ASSUME ~Ended(p)'
      PROVE  /\ u # << >> => u[1].tag = ToRead(p, q)'
             /\ \A i \in 1..(Len(u) - 1) : u[i + 1].tag = Following(q, p, u[i].tag)'
             /\ Complete(q)' => ToSend(q, p)' = IF u = << >> THEN ToRead(p, q)'
                                                ELSE Following(q, p, u[Len(u)].tag)'
             /\ transport' = "channel" /\ Complete(q)' =>
                    \A i \in 1..Len(u) : Before(u[i].tag, ToSend(q, p)')
  <2>1. u = Tail(w)
    BY <1>6 DEF w
  <2>2. Len(u) = n - 1 /\ u \in Seq(Messages) /\ \A i \in 1..(n - 1) : u[i] = w[i + 1]
    BY <1>4, <2>1
  <2>3. u = << >> <=> n = 1
    BY <1>2, <1>4, <2>2
  <2> HIDE DEF n
  <2>4. u # << >> => u[1].tag = ToRead(p, q)'
    <3> SUFFICES ASSUME u # << >> PROVE u[1].tag = ToRead(p, q)'
      OBVIOUS
    <3>1. n >= 2 /\ 1 \in 1..(n - 1)
      BY <1>2, <1>4, <2>3
    <3> QED BY <1>5, <2>2, <3>1
  <2>5. ASSUME NEW i \in 1..(Len(u) - 1) PROVE u[i + 1].tag = Following(q, p, u[i].tag)'
    <3>1. i \in 1..(n - 1) /\ i + 1 \in 1..(n - 1)
      BY <1>2, <2>2
    <3>2. w[(i + 1) + 1].tag = Following(q, p, w[i + 1].tag)
      BY <1>3, <3>1 DEF n
    <3> QED BY <1>1, <2>2, <3>1, <3>2
  <2>6. ASSUME Complete(q)
        PROVE  ToSend(q, p)' = IF u = << >> THEN ToRead(p, q)' ELSE Following(q, p, u[Len(u)].tag)'
    <3>1. ToSend(q, p)' = Following(q, p, w[n].tag)
      BY <1>3, <2>6 DEF n
    <3>2. CASE n = 1
      BY <1>3, <2>3, <3>1, <3>2
    <3>3. CASE n # 1
      <4>1. n - 1 \in 1..(n - 1)
        BY <1>2, <1>4, <3>3
      <4>2. u[n - 1] = w[(n - 1) + 1] /\ (n - 1) + 1 = n
        BY <1>2, <2>2, <4>1
      <4> QED BY <1>1, <2>2, <2>3, <3>1, <3>3, <4>2
    <3> QED BY <3>2, <3>3
  <2>7. ASSUME transport = "channel", Complete(q), NEW i \in 1..Len(u) PROVE Before(u[i].tag, ToSend(q, p)')
    <3>1. i \in 1..(n - 1) /\ i + 1 \in 1..n
      BY <1>2, <2>2
    <3> QED BY <1>3, <2>2, <2>7, <3>1 DEF n
  <2> QED BY <2>4, <2>5, <2>6, <2>7
<1>7. transport' = "channel" /\ Complete(q)' /\ Complete(p)' => NotAfter(ToRead(p, q)', ToSend(q, p)')
  <2> SUFFICES ASSUME transport = "channel", Complete(q) PROVE NotAfter(ToRead(p, q)', ToSend(q, p))
    OBVIOUS
  <2>1. CASE n = 1
    <3>1. ToRead(p, q)' = ToSend(q, p)
      BY <1>3, <2>1
    <3> QED BY <3>1, OrderFacts, StageFacts
  <2>2. CASE n # 1
    <3>1. n >= 2 /\ 2 \in 1..n
      BY <1>2, <1>4, <2>2
    <3>2. Before(w[2].tag, ToSend(q, p)) /\ w[2].tag \in Stages /\ w[2].tag = ToRead(p, q)'
      BY <1>2, <1>3, <1>5, <3>1
    <3> QED BY <3>2, OrderFacts, StageFacts
  <2> QED BY <2>1, <2>2
<1> QED BY <1>6, <1>7 DEF LinkInv

-----------------------------------------------------------------------------
(* What a step of one party does to the links. *)

(* A party that stays where it is.                                         *)
LEMMA PlaceKept ==
    ASSUME transport' = transport, NEW x, at'[x] = at[x], done'[x] = done[x],
           level'[x] = level[x], sub'[x] = sub[x]
    PROVE  /\ Tag(x)' = Tag(x) /\ Ended(x)' = Ended(x) /\ Complete(x)' = Complete(x)
           /\ \A y : ToSend(x, y)' = ToSend(x, y) /\ ToRead(x, y)' = ToRead(x, y)
<1>1. \A q, p, t : Following(q, p, t)' = Following(q, p, t)
  BY CourseKept
<1>2. Tag(x)' = Tag(x) /\ Ended(x)' = Ended(x) /\ Complete(x)' = Complete(x)
  BY DEF Tag, Ended, Complete
<1>3. \A y : HasSent(x, y)' = HasSent(x, y) /\ HasRead(x, y)' = HasRead(x, y)
  BY DEF HasSent, HasRead
<1> QED BY <1>1, <1>2, <1>3 DEF ToSend, ToRead

(* Adding to two sequences in a row.                                       *)
LEMMA AppendFacts ==
    ASSUME NEW S, NEW s \in Seq(S), NEW t \in Seq(S), NEW m \in S
    PROVE  /\ Append(s, m) \in Seq(S)
           /\ s \o Append(t, m) = Append(s \o t, m)
           /\ Append(s, m) \o << >> = Append(s \o << >>, m)
OBVIOUS

(* What an item added at the end of a link is to the messages on it.       *)
LEMMA TransmitFacts ==
    ASSUME OrderInv, transport \in {"channel", "tcp"}, NEW p \in Parties, NEW q \in Parties, q # p,
           NEW m \in Messages, m \in MessagesIn(m.tag), Transmit(p, q, m)
    PROVE  /\ wire' \in [Links -> Seq(Messages)] /\ queued' \in [Links -> Seq(Messages)]
           /\ transport' = transport /\ gone' = gone /\ reset' = reset
           /\ transport = "channel" => queued' = queued
           /\ Msgs(p, q)' = Append(Msgs(p, q), m)
           /\ \A a, b \in Parties : a # b /\ <<a, b>> # <<p, q>> => Msgs(a, b)' = Msgs(a, b)
           /\ \A a, b \in Parties : a # b => \A i \in DOMAIN Msgs(a, b)' :
                    Msgs(a, b)'[i] \in MessagesIn(Msgs(a, b)'[i].tag)
<1> DEFINE l == <<p, q>>
<1>1. l \in Links /\ wire \in [Links -> Seq(Messages)] /\ queued \in [Links -> Seq(Messages)]
  BY LinkFacts DEF OrderInv
<1>2. transport' = transport /\ gone' = gone /\ reset' = reset
  BY DEF Transmit
<1>3. \/ queued' = [queued EXCEPT ![l] = Append(@, m)] /\ wire' = wire /\ transport = "tcp"
      \/ wire' = [wire EXCEPT ![l] = Append(@, m)] /\ queued' = queued
  BY DEF Transmit, Extended
<1>4. /\ wire[l] \in Seq(Messages) /\ queued[l] \in Seq(Messages)
      /\ Append(wire[l], m) \in Seq(Messages) /\ Append(queued[l], m) \in Seq(Messages)
  BY <1>1, AppendFacts
<1> HIDE DEF l
<1>5. wire' \in [Links -> Seq(Messages)] /\ queued' \in [Links -> Seq(Messages)]
  BY <1>1, <1>3, <1>4
<1>6. Msgs(p, q)' = Append(Msgs(p, q), m)
  <2>1. \/ wire'[l] = wire[l] /\ queued'[l] = Append(queued[l], m)
        \/ wire'[l] = Append(wire[l], m) /\ queued'[l] = queued[l] /\ queued[l] = << >>
    <3>1. transport # "tcp" => queued[l] = << >>
      <4>1. transport \in {"channel", "tcp"} \/ transport # "channel"
        OBVIOUS
      <4>2. transport # "tcp" => wire' = [wire EXCEPT ![l] = Append(@, m)] /\ queued' = queued
        BY <1>3
      <4>3. transport = "channel" => queued = [k \in Links |-> << >>]
        BY DEF OrderInv
      <4> QED BY <1>1, <4>2, <4>3
    <3>2. transport = "tcp" => queued' = [queued EXCEPT ![l] = Append(@, m)] /\ wire' = wire
      BY DEF Transmit, Extended, l
    <3> QED BY <1>1, <1>3, <3>1, <3>2
  <2>2. Msgs(p, q) = wire[l] \o queued[l] /\ Msgs(p, q)' = wire'[l] \o queued'[l]
    BY DEF Msgs, l
  <2>3. m \in Messages
    OBVIOUS
  <2>4. CASE wire'[l] = wire[l] /\ queued'[l] = Append(queued[l], m)
    <3>1. wire[l] \o Append(queued[l], m) = Append(wire[l] \o queued[l], m)
      <4> DEFINE s == wire[l]
                 t == queued[l]
      <4>1. s \in Seq(Messages) /\ t \in Seq(Messages)
        BY <1>4
      <4> HIDE DEF s, t
      <4>2. s \o Append(t, m) = Append(s \o t, m)
        BY <2>3, <4>1, AppendFacts
      <4> QED BY <4>2 DEF s, t
    <3> QED BY <2>2, <2>4, <3>1
  <2>5. CASE wire'[l] = Append(wire[l], m) /\ queued'[l] = queued[l] /\ queued[l] = << >>
    <3>1. Append(wire[l], m) \o << >> = Append(wire[l] \o << >>, m)
      BY <1>4, <2>3, AppendFacts
    <3> QED BY <2>2, <2>5, <3>1
  <2> QED BY <2>1, <2>4, <2>5
<1>7. ASSUME NEW a \in Parties, NEW b \in Parties, a # b, <<a, b>> # l
      PROVE  Msgs(a, b)' = Msgs(a, b)
  <2>1. <<a, b>> \in Links
    BY <1>7, LinkFacts
  <2>2. wire'[<<a, b>>] = wire[<<a, b>>] /\ queued'[<<a, b>>] = queued[<<a, b>>]
    BY <1>1, <1>3, <1>7, <2>1
  <2> QED BY <2>2 DEF Msgs
<1>8. ASSUME NEW a \in Parties, NEW b \in Parties, a # b, NEW i \in DOMAIN Msgs(a, b)'
      PROVE  Msgs(a, b)'[i] \in MessagesIn(Msgs(a, b)'[i].tag)
  <2> PICK u : u = Msgs(a, b)'
    OBVIOUS
  <2> DEFINE w == Msgs(a, b)
  <2>1. w \in Seq(Messages) /\ \A k \in 1..Len(w) : w[k] \in MessagesIn(w[k].tag)
    BY <1>8, MsgsFacts
  <2> HIDE DEF w
  <2>2. CASE u = w
    BY <1>8, <2>1, <2>2
  <2>3. CASE u = Append(w, m)
    <3>1. i \in 1..(Len(w) + 1) /\ u[i] = IF i = Len(w) + 1 THEN m ELSE w[i]
      BY <1>8, <2>1, <2>3
    <3>2. i # Len(w) + 1 => i \in 1..Len(w)
      BY <2>1, <3>1
    <3> QED BY <2>1, <3>1, <3>2
  <2> QED BY <1>6, <1>7, <1>8, <2>2, <2>3 DEF w
<1> QED BY <1>2, <1>3, <1>5, <1>6, <1>7, <1>8

(* A party sends what is due on a link.                                    *)
LEMMA OrderSends ==
    ASSUME SyncInv, NEW p \in Parties, NEW q \in Parties, q # p, at[p] \notin {"aborted", "done"},
           NEW m \in Messages, m \in MessagesIn(m.tag), Transmit(p, q, m),
           at' = at, done' = done, level' = level,
           \A x \in Parties : x # p => sub'[x] = sub[x],
           m.tag = Tag(p), ToSend(p, q) = Tag(p), ToSend(p, q)' = Following(p, q, Tag(p)),
           q = PrevOf(p) \/ at[p] \in Exchanges \/ transport = "tcp",
           \A r \in Parties : r # p /\ r # q => ToSend(p, r)' = ToSend(p, r),
           \A r \in Parties : ToRead(p, r)' = ToRead(p, r)
    PROVE  OrderInv'
<1>1. OrderInv
  BY DEF SyncInv
<1>2. /\ wire' \in [Links -> Seq(Messages)] /\ queued' \in [Links -> Seq(Messages)]
      /\ transport' = transport /\ gone' = gone /\ reset' = reset
      /\ transport = "channel" => queued' = queued
      /\ Msgs(p, q)' = Append(Msgs(p, q), m)
      /\ \A a, b \in Parties : a # b /\ <<a, b>> # <<p, q>> => Msgs(a, b)' = Msgs(a, b)
      /\ \A a, b \in Parties : a # b => \A i \in DOMAIN Msgs(a, b)' :
               Msgs(a, b)'[i] \in MessagesIn(Msgs(a, b)'[i].tag)
  <2>1. transport \in {"channel", "tcp"}
    BY DEF SyncInv, TypeOK, NetTypeOK
  <2> QED BY <1>1, <2>1, TransmitFacts
<1>3. \A x : /\ Ended(x)' = Ended(x) /\ Complete(x)' = Complete(x)
             /\ x \in Parties /\ x # p => \A y : ToSend(x, y)' = ToSend(x, y) /\ ToRead(x, y)' = ToRead(x, y)
  <2>1. \A x : Ended(x)' = Ended(x) /\ Complete(x)' = Complete(x)
    BY <1>2 DEF Ended, Complete
  <2>2. ASSUME NEW x \in Parties, x # p
        PROVE  \A y : ToSend(x, y)' = ToSend(x, y) /\ ToRead(x, y)' = ToRead(x, y)
    <3>1. at'[x] = at[x] /\ done'[x] = done[x] /\ level'[x] = level[x] /\ sub'[x] = sub[x]
      BY <2>2
    <3> QED BY <1>2, <3>1, PlaceKept
  <2> QED BY <2>1, <2>2
<1>4. ASSUME NEW a \in Parties, NEW b \in Parties, a # b PROVE LinkInv(a, b)'
  <2>1. CASE a = p /\ b = q
    <3>1. Tag(p) \in Stages /\ Tag(p) \in Tags /\ Goes(Tag(p)) /\ Tag(p)[2] = at[p]
      BY TagFacts
    <3>2. Following(p, q, Tag(p)) \in Stages
      BY <3>1, DueFacts
    <3>3. Before(Tag(p), Following(p, q, Tag(p))) \/ transport = "tcp"
      <4>1. transport = "channel" => at[p] # "hand"
        BY DEF SyncInv, PlaceInv
      <4>2. transport \in {"channel", "tcp"}
        BY DEF SyncInv, TypeOK, NetTypeOK
      <4> QED BY <3>1, <4>1, <4>2, DueFacts
    <3>4. Complete(p) /\ (Complete(q) => ToRead(q, p) \in Stages)
      BY ToFacts DEF Complete
    <3>5. /\ Ended(q)' = Ended(q) /\ Complete(q)' = Complete(q) /\ Complete(p)'
          /\ ToRead(q, p)' = ToRead(q, p)
          /\ ToSend(p, q)' = Following(p, q, ToSend(p, q)) /\ ToSend(p, q) \in Stages
          /\ ToSend(p, q)' \in Stages /\ transport' = transport
          /\ Before(ToSend(p, q), ToSend(p, q)') \/ transport = "tcp"
      BY <1>2, <1>3, <3>1, <3>2, <3>3, <3>4
    <3>6. Msgs(p, q)' = Append(Msgs(p, q), m) /\ m.tag = ToSend(p, q)
      BY <1>2
    <3>7. LinkInv(p, q)'
      BY <1>1, <3>4, <3>5, <3>6, LinkSent
    <3> QED BY <2>1, <3>7
  <2>2. CASE ~(a = p /\ b = q)
    <3>1. Msgs(a, b)' = Msgs(a, b)
      BY <1>2, <1>4, <2>2
    <3>2. ToSend(a, b)' = ToSend(a, b) /\ ToRead(b, a)' = ToRead(b, a)
      BY <1>3, <1>4, <2>2
    <3> QED BY <1>1, <1>2, <1>3, <1>4, <3>1, <3>2, LinkKept
  <2> QED BY <2>1, <2>2
<1>5. gone' = {x \in Parties : Ended(x)'}
  BY <1>1, <1>2, <1>3 DEF OrderInv
<1>6. transport' = "channel" => queued' = [l \in Links |-> << >>] /\ reset' = {}
  BY <1>1, <1>2 DEF OrderInv
<1> QED BY <1>2, <1>4, <1>5, <1>6 DEF OrderInv

(* What taking the first message off a link is to the messages on it.      *)
LEMMA ReadLinkFacts ==
    ASSUME OrderInv, NEW q \in Parties, NEW p \in Parties, q # p, Readable(q, p), Read(q, p)
    PROVE  /\ wire' \in [Links -> Seq(Messages)] /\ queued' \in [Links -> Seq(Messages)]
           /\ transport' = transport /\ gone' = gone /\ reset' = reset /\ queued' = queued
           /\ Msgs(q, p) # << >> /\ Incoming(q, p) = Msgs(q, p)[1]
           /\ Msgs(q, p)' = Tail(Msgs(q, p))
           /\ \A a, b \in Parties : a # b /\ <<a, b>> # <<q, p>> => Msgs(a, b)' = Msgs(a, b)
           /\ \A a, b \in Parties : a # b => \A i \in DOMAIN Msgs(a, b)' :
                    Msgs(a, b)'[i] \in MessagesIn(Msgs(a, b)'[i].tag)
<1> DEFINE l == <<q, p>>
<1>1. l \in Links /\ wire \in [Links -> Seq(Messages)] /\ queued \in [Links -> Seq(Messages)]
  BY LinkFacts DEF OrderInv
<1>2. /\ transport' = transport /\ gone' = gone /\ reset' = reset /\ queued' = queued
      /\ wire' = [wire EXCEPT ![l] = Tail(@)] /\ wire[l] # << >>
      /\ Incoming(q, p) = Head(wire[l])
      /\ Msgs(q, p) = wire[l] \o queued[l] /\ Msgs(q, p)' = wire'[l] \o queued'[l]
  BY DEF Read, Readable, Incoming, Msgs
<1> HIDE DEF l
<1>3. wire[l] \in Seq(Messages) /\ queued[l] \in Seq(Messages) /\ Tail(wire[l]) \in Seq(Messages)
  BY <1>1, <1>2
<1>4. wire' \in [Links -> Seq(Messages)] /\ queued' \in [Links -> Seq(Messages)]
  BY <1>1, <1>2, <1>3
<1>5. wire'[l] = Tail(wire[l]) /\ queued'[l] = queued[l]
  BY <1>1, <1>2
<1>6. /\ Msgs(q, p) # << >> /\ Incoming(q, p) = Msgs(q, p)[1]
      /\ Msgs(q, p)' = Tail(Msgs(q, p))
  <2> DEFINE s == wire[l]
             t == queued[l]
  <2>1. s \in Seq(Messages) /\ t \in Seq(Messages) /\ s # << >>
    BY <1>2, <1>3
  <2>2. /\ Msgs(q, p) = s \o t /\ Msgs(q, p)' = Tail(s) \o t /\ Incoming(q, p) = Head(s)
    BY <1>2, <1>5
  <2> HIDE DEF s, t
  <2>3. s \o t # << >> /\ Head(s) = (s \o t)[1] /\ Tail(s) \o t = Tail(s \o t)
    BY <2>1
  <2> QED BY <2>2, <2>3
<1>7. ASSUME NEW a \in Parties, NEW b \in Parties, a # b, <<a, b>> # l
      PROVE  Msgs(a, b)' = Msgs(a, b)
  <2>1. <<a, b>> \in Links
    BY <1>7, LinkFacts
  <2>2. wire'[<<a, b>>] = wire[<<a, b>>] /\ queued'[<<a, b>>] = queued[<<a, b>>]
    BY <1>1, <1>2, <1>7, <2>1
  <2> QED BY <2>2 DEF Msgs
<1>8. ASSUME NEW a \in Parties, NEW b \in Parties, a # b, NEW i \in DOMAIN Msgs(a, b)'
      PROVE  Msgs(a, b)'[i] \in MessagesIn(Msgs(a, b)'[i].tag)
  <2> PICK u : u = Msgs(a, b)'
    OBVIOUS
  <2> DEFINE w == Msgs(a, b)
  <2>1. w \in Seq(Messages) /\ \A k \in 1..Len(w) : w[k] \in MessagesIn(w[k].tag)
    BY <1>8, MsgsFacts
  <2> HIDE DEF w
  <2>2. CASE u = w
    BY <1>8, <2>1, <2>2
  <2>3. CASE w # << >> /\ u = Tail(w)
    <3>1. i \in 1..(Len(w) - 1) /\ u[i] = w[i + 1]
      BY <1>8, <2>1, <2>3
    <3>2. i + 1 \in 1..Len(w)
      BY <2>1, <3>1
    <3> QED BY <2>1, <3>1, <3>2
  <2> QED BY <1>6, <1>7, <1>8, <2>2, <2>3 DEF w, l
<1> QED BY <1>2, <1>4, <1>6, <1>7, <1>8 DEF l

(* A party reads what is due on a link, and goes on.                       *)
LEMMA OrderReads ==
    ASSUME SyncInv, NEW p \in Parties, NEW q \in Parties, q # p, ~Ended(p), ~Ended(p)',
           Readable(q, p), Read(q, p),
           \A x \in Parties : x # p => /\ at'[x] = at[x] /\ done'[x] = done[x]
                                       /\ level'[x] = level[x] /\ sub'[x] = sub[x],
           ToRead(p, q)' = Following(q, p, ToRead(p, q)),
           \A r \in Parties : r # p /\ r # q => ToRead(p, r)' = ToRead(p, r),
           \A r \in Parties : r # p => ToSend(p, r)' = ToSend(p, r)
    PROVE  OrderInv'
<1>1. OrderInv
  BY DEF SyncInv
<1>2. /\ wire' \in [Links -> Seq(Messages)] /\ queued' \in [Links -> Seq(Messages)]
      /\ transport' = transport /\ gone' = gone /\ reset' = reset /\ queued' = queued
      /\ Msgs(q, p) # << >> /\ Msgs(q, p)' = Tail(Msgs(q, p))
      /\ \A a, b \in Parties : a # b /\ <<a, b>> # <<q, p>> => Msgs(a, b)' = Msgs(a, b)
      /\ \A a, b \in Parties : a # b => \A i \in DOMAIN Msgs(a, b)' :
               Msgs(a, b)'[i] \in MessagesIn(Msgs(a, b)'[i].tag)
  BY <1>1, ReadLinkFacts
<1>3. \A x \in Parties : Ended(x)' = Ended(x) /\ Complete(x)' = Complete(x)
  <2>1. Ended(p)' = Ended(p) /\ Complete(p)' = Complete(p)
    BY DEF Complete, Ended
  <2>2. ASSUME NEW x \in Parties, x # p PROVE Ended(x)' = Ended(x) /\ Complete(x)' = Complete(x)
    BY <1>2, <2>2, PlaceKept
  <2> QED BY <2>1, <2>2
<1>4. ASSUME NEW x \in Parties, x # p
      PROVE  \A y : ToSend(x, y)' = ToSend(x, y) /\ ToRead(x, y)' = ToRead(x, y)
  BY <1>2, <1>4, PlaceKept
<1>5. ASSUME NEW a \in Parties, NEW b \in Parties, a # b PROVE LinkInv(a, b)'
  <2>1. CASE a = q /\ b = p
    <3>1. Complete(q) => ToSend(q, p) \in Stages
      BY ToFacts DEF Complete
    <3>2. /\ Complete(q)' = Complete(q) /\ ToSend(q, p)' = ToSend(q, p)
      BY <1>3, <1>4
    <3>3. LinkInv(q, p)'
      BY <1>1, <1>2, <3>1, <3>2, LinkRead
    <3> QED BY <2>1, <3>3
  <2>2. CASE ~(a = q /\ b = p)
    <3>1. Msgs(a, b)' = Msgs(a, b)
      BY <1>2, <1>5, <2>2
    <3>2. ToSend(a, b)' = ToSend(a, b) /\ ToRead(b, a)' = ToRead(b, a)
      BY <1>4, <1>5, <2>2
    <3> QED BY <1>1, <1>2, <1>3, <1>5, <3>1, <3>2, LinkKept
  <2> QED BY <2>1, <2>2
<1>6. gone' = {x \in Parties : Ended(x)'}
  BY <1>1, <1>2, <1>3 DEF OrderInv
<1>7. transport' = "channel" => queued' = [l \in Links |-> << >>] /\ reset' = {}
  BY <1>1, <1>2 DEF OrderInv
<1> QED BY <1>2, <1>5, <1>6, <1>7 DEF OrderInv

(* A party drops its wires, after its last round or having failed.         *)
LEMMA OrderEnds ==
    ASSUME SyncInv, NEW p \in Parties, ~Ended(p), Ended(p)', Leave(p),
           \A x \in Parties : x # p => /\ at'[x] = at[x] /\ done'[x] = done[x]
                                       /\ level'[x] = level[x] /\ sub'[x] = sub[x],
           sub'[p] = "send",
           \/ ~Complete(p)'
           \/ /\ Readable(NextOf(p), p) /\ sub[p] = "fromNext" /\ Tag(p)' = After(Tag(p))
    PROVE  OrderInv'
<1> DEFINE s == NextOf(p)
           r == PrevOf(p)
<1>0. s \in Parties /\ r \in Parties /\ s # p /\ r # p /\ s # r /\ Parties = {p, s, r} /\ PrevOf(s) = p
  BY RingFacts
<1>1. OrderInv
  BY DEF SyncInv
<1>2. /\ transport' = transport /\ gone' = gone \cup {p}
      /\ queued' = [l \in Links |-> IF l[1] = p THEN << >> ELSE queued[l]]
      /\ wire' = [l \in Links |-> IF l[2] = p THEN << >> ELSE wire[l]]
      /\ transport # "tcp" => reset' = reset
  BY DEF Leave
<1>3. /\ wire \in [Links -> Seq(Messages)] /\ queued \in [Links -> Seq(Messages)]
  BY <1>1 DEF OrderInv
<1>4. /\ wire' \in [Links -> Seq(Messages)] /\ queued' \in [Links -> Seq(Messages)]
  BY <1>2, <1>3
<1>5. ASSUME NEW a \in Parties, NEW b \in Parties, a # b, b # p
      PROVE  \/ Msgs(a, b)' = Msgs(a, b)
             \/ a = p /\ transport = "tcp" /\ \E n \in 0..Len(Msgs(a, b)) : Msgs(a, b)' = SubSeq(Msgs(a, b), 1, n)
  <2> DEFINE l == <<a, b>>
             u == wire[l]
             v == queued[l]
  <2>1. l \in Links /\ u \in Seq(Messages) /\ v \in Seq(Messages)
    BY <1>3, <1>5, LinkFacts
  <2>2. wire'[l] = u /\ queued'[l] = IF a = p THEN << >> ELSE v
    BY <1>2, <1>5, <2>1
  <2>3. Msgs(a, b) = u \o v /\ Msgs(a, b)' = wire'[l] \o queued'[l]
    BY DEF Msgs
  <2> HIDE DEF u, v
  <2>4. CASE a # p
    BY <2>2, <2>3, <2>4
  <2>5. CASE a = p /\ transport # "tcp"
    <3>1. transport = "channel"
      BY <2>5 DEF SyncInv, TypeOK, NetTypeOK
    <3>2. v = << >>
      BY <1>1, <1>5, <3>1, MsgsFacts DEF v
    <3> QED BY <2>2, <2>3, <2>5, <3>2
  <2>6. CASE a = p /\ transport = "tcp"
    <3>1. Msgs(a, b)' = u \o << >>
      BY <2>2, <2>3, <2>6
    <3>2. u \o << >> = SubSeq(u \o v, 1, Len(u)) /\ Len(u) \in 0..Len(u \o v)
      BY <2>1
    <3> QED BY <2>3, <2>6, <3>1, <3>2
  <2> QED BY <2>4, <2>5, <2>6
<1>6. \A x \in Parties : x # p => /\ Ended(x)' = Ended(x) /\ Complete(x)' = Complete(x)
                                  /\ \A y : ToSend(x, y)' = ToSend(x, y) /\ ToRead(x, y)' = ToRead(x, y)
  BY <1>2, PlaceKept
<1>7. ~Ended(p) /\ Complete(p) /\ (transport = "tcp" => ~Complete(p)')
  <2>1. CASE transport = "tcp"
    BY <1>2, <2>1 DEF Ended, Complete
  <2>2. CASE transport # "tcp"
    BY <2>2 DEF Ended, Complete
  <2> QED BY <2>1, <2>2
<1>8. ASSUME Complete(p)'
      PROVE  /\ \A x \in Parties : x # p => ToSend(p, x)' = ToSend(p, x)
             /\ ToRead(p, r)' = ToRead(p, r)
             /\ ToRead(p, s)' = Following(s, p, ToRead(p, s))
  <2>1. Readable(s, p) /\ sub[p] = "fromNext" /\ Tag(p)' = After(Tag(p))
    BY <1>8
  <2>2. \A x : ~HasSent(p, x)' /\ ~HasRead(p, x)'
    BY DEF HasSent, HasRead
  <2>3. /\ \A x \in Parties : x # p => HasSent(p, x)
        /\ HasRead(p, r) /\ ~HasRead(p, s)
    BY <1>0, <2>1 DEF HasSent, HasRead
  <2>4. /\ \A x : ToSend(p, x)' = Due(p, x, After(Tag(p)))
        /\ \A x : ToRead(p, x)' = Due(x, p, After(Tag(p)))
    BY <2>1, <2>2 DEF ToSend, ToRead
  <2>5. /\ \A x \in Parties : x # p => ToSend(p, x) = Following(p, x, Tag(p))
        /\ ToRead(p, r) = Following(r, p, Tag(p)) /\ ToRead(p, s) = Due(s, p, Tag(p))
    BY <2>3 DEF ToSend, ToRead
  <2>6. Due(s, p, Tag(p)) = Tag(p)
    BY <1>0 DEF Due
  <2> QED BY <2>4, <2>5, <2>6 DEF Following
<1>9. ASSUME NEW a \in Parties, NEW b \in Parties, a # b PROVE LinkInv(a, b)'
  <2>1. CASE b # p
    <3>1. ToRead(b, a)' = ToRead(b, a) /\ Ended(b)' = Ended(b) /\ Complete(b)' = Complete(b)
      BY <1>6, <2>1
    <3>2. Complete(a)' => Complete(a) /\ ToSend(a, b)' = ToSend(a, b)
      BY <1>6, <1>7, <1>8, <1>9
    <3>3. \/ Msgs(a, b)' = Msgs(a, b)
          \/ ~Complete(a)' /\ \E n \in 0..Len(Msgs(a, b)) : Msgs(a, b)' = SubSeq(Msgs(a, b), 1, n)
      BY <1>5, <1>7, <1>9, <2>1
    <3> QED BY <1>1, <1>2, <1>9, <3>1, <3>2, <3>3, LinkKept
  <2>2. CASE b = p /\ Complete(p)' /\ a = s
    <3>1. Complete(s)' = Complete(s) /\ ToSend(s, p)' = ToSend(s, p)
      BY <1>0, <1>6
    <3>2. Complete(s) => ToSend(s, p) \in Stages
      BY <1>0, ToFacts DEF Complete
    <3>3. Msgs(s, p) # << >>
      <4>1. <<s, p>> \in Links /\ wire[<<s, p>>] \in Seq(Messages) /\ queued[<<s, p>>] \in Seq(Messages)
        BY <1>0, <1>1, MsgsFacts
      <4>2. wire[<<s, p>>] # << >>
        BY <2>2 DEF Readable
      <4> QED BY <4>1, <4>2 DEF Msgs
    <3>4. ToRead(p, s)' = Following(s, p, ToRead(p, s))
      BY <1>8, <2>2
    <3> HIDE DEF s
    <3>5. LinkInv(s, p)'
      BY <1>0, <1>1, <1>2, <3>1, <3>2, <3>3, <3>4, LinkRead
    <3> QED BY <2>2, <3>5
  <2>3. CASE b = p /\ ~(Complete(p)' /\ a = s)
    <3>1. /\ Complete(a)' = Complete(a) /\ ToSend(a, p)' = ToSend(a, p)
      BY <1>6, <1>9, <2>3
    <3>2. Complete(p)' => ToRead(p, a)' = ToRead(p, a)
      BY <1>0, <1>8, <1>9, <2>3
    <3> QED BY <1>1, <1>2, <1>7, <1>9, <2>3, <3>1, <3>2, LinkKept
  <2> QED BY <2>1, <2>2, <2>3
<1>10. ASSUME NEW a \in Parties, NEW b \in Parties, a # b, NEW i \in DOMAIN Msgs(a, b)'
       PROVE  Msgs(a, b)'[i] \in MessagesIn(Msgs(a, b)'[i].tag)
  <2> PICK u : u = Msgs(a, b)'
    OBVIOUS
  <2> DEFINE w == Msgs(a, b)
  <2>1. w \in Seq(Messages) /\ \A k \in 1..Len(w) : w[k] \in MessagesIn(w[k].tag)
    BY <1>1, <1>10, MsgsFacts
  <2>2. CASE b # p
    <3>1. u = w \/ \E n \in 0..Len(w) : u = SubSeq(w, 1, n)
      BY <1>5, <1>10, <2>2
    <3> HIDE DEF w
    <3>2. i \in 1..Len(w) /\ u[i] = w[i]
      BY <1>10, <2>1, <3>1
    <3> QED BY <2>1, <3>2
  <2>3. CASE b = p
    <3>1. <<a, b>> \in Links /\ wire'[<<a, b>>] = << >>
      BY <1>2, <1>10, <2>3, LinkFacts
    <3>2. queued'[<<a, b>>] = queued[<<a, b>>]
      BY <1>2, <1>10, <2>3, <3>1
    <3>3. wire[<<a, b>>] \in Seq(Messages) /\ queued[<<a, b>>] \in Seq(Messages)
      BY <1>3, <3>1
    <3>4. w = wire[<<a, b>>] \o queued[<<a, b>>] /\ u = queued[<<a, b>>]
      BY <3>1, <3>2, <3>3 DEF Msgs
    <3> DEFINE n == Len(wire[<<a, b>>])
    <3>5. n + i \in 1..Len(w) /\ u[i] = w[n + i]
      <4> DEFINE x == wire[<<a, b>>]
                 y == queued[<<a, b>>]
      <4>1. x \in Seq(Messages) /\ y \in Seq(Messages) /\ w = x \o y /\ u = y /\ n = Len(x)
        BY <3>3, <3>4
      <4>2. i \in DOMAIN u
        BY <1>10
      <4> HIDE DEF x, y, w, n
      <4> QED BY <4>1, <4>2
    <3> QED BY <2>1, <3>5
  <2> QED BY <2>2, <2>3
<1>11. gone' = {x \in Parties : Ended(x)'}
  <2>1. gone = {x \in Parties : Ended(x)}
    BY <1>1 DEF OrderInv
  <2> QED BY <1>2, <1>6, <2>1
<1>12. transport' = "channel" => queued' = [l \in Links |-> << >>] /\ reset' = {}
  <2> SUFFICES ASSUME transport = "channel" PROVE queued' = [l \in Links |-> << >>] /\ reset' = {}
    BY <1>2
  <2>1. queued = [l \in Links |-> << >>] /\ reset = {}
    BY <1>1 DEF OrderInv
  <2> QED BY <1>2, <2>1
<1> HIDE DEF s, r
<1> QED BY <1>4, <1>9, <1>10, <1>11, <1>12 DEF OrderInv

-----------------------------------------------------------------------------
(* What a step of one party does to its own state. *)

Domains ==
    /\ at = [x \in Parties |-> at[x]] /\ sub = [x \in Parties |-> sub[x]]
    /\ level = [x \in Parties |-> level[x]] /\ done = [x \in Parties |-> done[x]]
    /\ count = [x \in Parties |-> count[x]] /\ triples = [x \in Parties |-> triples[x]]
    /\ astray = [x \in Parties |-> astray[x]] /\ zeros = [x \in Parties |-> zeros[x]]
    /\ heard = [x \in Parties |-> heard[x]] /\ log = [x \in Parties |-> log[x]]
    /\ pool = [x \in Parties |-> pool[x]] /\ z = [x \in Parties |-> z[x]]
    /\ shown = [x \in Parties |-> shown[x]]

PartyOK(p) ==
    /\ at[p] \in Rounds \cup {"done", "aborted"}
    /\ sub[p] \in {"send", "sendNext", "fromPrev", "fromNext", "exit"}
    /\ level[p] \in 1..Levels /\ done[p] \in 0..Evals
    /\ count[p] \in 0..MaxOf(Levels, MinBatch)
    /\ astray[p] \in BOOLEAN
    /\ triples[p] \in {NoVector} \cup Vectors(Generated(p))
    /\ pool[p] \in Seq(Errors) /\ Len(pool[p]) <= StockLimit
    /\ log[p] \in Seq(Errors)
    /\ z[p] \in Errors \X Errors /\ shown[p] \in Errors

Stays(x) ==
    /\ at'[x] = at[x] /\ sub'[x] = sub[x] /\ level'[x] = level[x] /\ done'[x] = done[x]
    /\ count'[x] = count[x] /\ triples'[x] = triples[x] /\ astray'[x] = astray[x]
    /\ zeros'[x] = zeros[x] /\ heard'[x] = heard[x] /\ log'[x] = log[x]
    /\ pool'[x] = pool[x] /\ z'[x] = z[x] /\ shown'[x] = shown[x]

Typed ==
    /\ NetTypeOK /\ flips \in 0..MaxFlips /\ Domains
    /\ \A p \in Parties : PartyOK(p)

(* Types are types of the parties' states.                                 *)
LEMMA TypeParts == (TypeOK /\ Shapes) <=> Typed
<1>1. ASSUME TypeOK, Shapes
      PROVE  /\ NetTypeOK /\ flips \in 0..MaxFlips /\ Domains
             /\ \A p \in Parties : PartyOK(p)
  <2>1. Domains
    BY <1>1 DEF TypeOK, Shapes, Domains
  <2>2. ASSUME NEW p \in Parties PROVE PartyOK(p)
    BY <1>1, <2>2 DEF TypeOK, PartyOK
  <2> QED BY <1>1, <2>1, <2>2 DEF TypeOK
<1>2. ASSUME NetTypeOK, flips \in 0..MaxFlips, Domains, \A p \in Parties : PartyOK(p)
      PROVE  TypeOK /\ Shapes
  <2>1. Shapes
    BY <1>2 DEF Shapes, Domains
  <2>2. /\ at \in [Parties -> Rounds \cup {"done", "aborted"}]
        /\ sub \in [Parties -> {"send", "sendNext", "fromPrev", "fromNext", "exit"}]
    BY <1>2 DEF PartyOK, Domains
  <2>3. level \in [Parties -> 1..Levels] /\ done \in [Parties -> 0..Evals]
    BY <1>2 DEF PartyOK, Domains
  <2>4. /\ count \in [Parties -> 0..MaxOf(Levels, MinBatch)]
        /\ astray \in [Parties -> BOOLEAN]
    BY <1>2 DEF PartyOK, Domains
  <2>5. z \in [Parties -> Errors \X Errors] /\ shown \in [Parties -> Errors]
    BY <1>2 DEF PartyOK, Domains
  <2>6. \A p \in Parties :
          /\ triples[p] \in {NoVector} \cup Vectors(Generated(p))
          /\ pool[p] \in Seq(Errors) /\ Len(pool[p]) <= StockLimit
          /\ log[p] \in Seq(Errors)
    BY <1>2 DEF PartyOK
  <2> QED BY <1>2, <2>1, <2>2, <2>3, <2>4, <2>5, <2>6 DEF TypeOK
<1> QED BY <1>1, <1>2 DEF Typed

(* A party that stays where it is, stays right.                            *)
LEMMA PartyKept ==
    ASSUME transport' = transport, NEW x, Stays(x)
    PROVE  PartyOK(x)' = PartyOK(x) /\ PlaceInv(x)' = PlaceInv(x)
<1>1. /\ Generated(x)' = Generated(x) /\ Pairs(x)' = Pairs(x) /\ Tag(x)' = Tag(x)
  BY DEF Stays, Generated, Pairs, Tag
<1>2. PartyOK(x)' = PartyOK(x)
  BY <1>1 DEF Stays, PartyOK
<1>3. PlaceInv(x)' = PlaceInv(x)
  BY <1>1 DEF Stays, PlaceInv
<1> QED BY <1>2, <1>3

(* One party moves: what is to be shown of it.                             *)
LEMMA SyncFrom ==
    ASSUME SyncInv, NEW p \in Parties, transport' = transport, flips' \in 0..MaxFlips,
           reset' \subseteq SUBSET Parties, Domains', \A x \in Parties : x # p => Stays(x),
           PartyOK(p)', PlaceInv(p)', OrderInv'
    PROVE  SyncInv'
<1>1. /\ NetTypeOK /\ flips \in 0..MaxFlips /\ Domains
      /\ \A x \in Parties : PartyOK(x) /\ PlaceInv(x)
  BY TypeParts DEF SyncInv, Typed
<1>2. \A x \in Parties : PartyOK(x)' /\ PlaceInv(x)'
  BY <1>1, PartyKept
<1>3. NetTypeOK'
  <2>1. transport \in {"channel", "tcp"}
    BY <1>1 DEF NetTypeOK
  <2>2. /\ DOMAIN queued' = Links /\ DOMAIN wire' = Links /\ gone' \subseteq Parties
    BY DEF OrderInv
  <2> QED BY <2>1, <2>2, <1>1 DEF NetTypeOK
<1>4. (TypeOK /\ Shapes)'
  <2>1. Typed'
    BY <1>2, <1>3 DEF Typed
  <2> QED BY <2>1, TypeParts, PTL
<1> QED BY <1>2, <1>4 DEF SyncInv

-----------------------------------------------------------------------------
(* Sizes. *)

(* Products of sizes are numbers.                                          *)
LEMMA SizeFacts ==
    /\ Cut \in Nat /\ Bucket \in Nat /\ Bucket >= 2 /\ Levels \in Nat \ {0} /\ Evals \in Nat \ {0}
    /\ \A e \in Nat : /\ CountIn(e) \in Nat \ {0} /\ PairsIn(e) \in Nat /\ RefillOpens(e) \in Nat
                      /\ CountIn(e) * Bucket + Cut \in Nat
<1>1. Cut \in Nat /\ Bucket \in Nat /\ Bucket >= 2 /\ Levels \in Nat \ {0} /\ Evals \in Nat \ {0}
  BY SizesAssumption
<1>2. ASSUME NEW e \in Nat
      PROVE  /\ CountIn(e) \in Nat \ {0} /\ PairsIn(e) \in Nat /\ RefillOpens(e) \in Nat
             /\ CountIn(e) * Bucket + Cut \in Nat
  <2>1. CountIn(e) \in Nat \ {0}
    BY StockFacts, BatchFacts
  <2>2. PairsIn(e) \in Nat /\ CountIn(e) * Bucket \in Nat
    BY <1>1, <2>1 DEF PairsIn
  <2> QED BY <1>1, <2>1, <2>2 DEF RefillOpens
<1> QED BY <1>1, <1>2

(* Sizes, lengths and stocks by round.                                     *)
LEMMA TagValues ==
    ASSUME NEW t
    PROVE  /\ t[2] = "triples" => Logged(t) = 0 /\ Size(t) = CountIn(t[1]) * Bucket + Cut
           /\ t[2] = "coin" => Logged(t) = 0 /\ Size(t) = 1
           /\ t[2] = "cut" => Logged(t) = 1 /\ Size(t) = 3 * Cut
           /\ t[2] = "pairs" => Logged(t) = 1 + 3 * Cut /\ Size(t) = 2 * PairsIn(t[1])
           /\ t[2] = "zero" => Logged(t) = RefillOpens(t[1]) /\ Size(t) = PairsIn(t[1])
           /\ t[2] = "views" => Logged(t) = RefillOpens(t[1]) /\ Size(t) = RefillOpens(t[1])
           /\ t[2] = "level" => Logged(t) = 2 * (t[3] - 1) /\ Size(t) = 2
           /\ t[2] = "check" => Logged(t) = 2 * Levels /\ Size(t) = 2 * Levels
           /\ t[2] = "open" => Logged(t) = 0 /\ Size(t) = 1
           /\ t[2] = "shown" => Logged(t) = 1 /\ Size(t) = 1
           /\ t[2] = "hand" => Logged(t) = 0 /\ Size(t) = 2
           /\ t[2] = "done" => Logged(t) = 0
           /\ t[2] = "level" => StockIn(t) = Filled(t[1]) - (t[3] - 1)
           /\ t[2] = "check" => StockIn(t) = Filled(t[1]) - Levels
           /\ t[2] \notin {"level", "check"} => StockIn(t) = StockAt(t[1])
BY DEF Logged, Size, StockIn

(* What a message has is numbered from 1 to its size.                      *)
LEMMA TagSize ==
    ASSUME NEW t \in Tags
    PROVE  Size(t) \in Nat
<1>1. /\ t[1] \in Nat /\ t[2] \in Rounds
      /\ Levels \in Nat
  BY TagIsStage, StageFacts, BatchFacts DEF Tags
<1> QED BY <1>1, TagValues, SizeFacts, SMTT(30) DEF Rounds, Resharing, Exchanges, Generating

(* A vector is a sequence.                                                 *)
LEMMA VectorFacts ==
    ASSUME NEW n \in Nat, NEW f \in Vectors(n)
    PROVE  f \in Seq(Errors) /\ Len(f) = n /\ DOMAIN f = 1..n /\ \A i \in 1..n : f[i] \in Errors
BY DEF Vectors

(* What the parties put into a round has its size.                         *)
LEMMA XorFacts ==
    \A a, b \in Errors : Xor(a, b) \in Errors /\ Xor(a, 0) = a /\ Xor(0, a) = a /\ Xor(a, a) # 1
<1> SUFFICES ASSUME NEW a \in Errors, NEW b \in Errors
             PROVE  Xor(a, b) \in Errors /\ Xor(a, 0) = a /\ Xor(0, a) = a /\ Xor(a, a) # 1
  OBVIOUS
<1>1. a \in {0, 1, 2} /\ b \in {0, 1, 2} /\ Either = 2 /\ Errors = {0, 1, 2}
  BY DEF Errors, Either
<1>2. /\ (0 + 0) % 2 = 0 /\ (0 + 1) % 2 = 1 /\ (1 + 0) % 2 = 1 /\ (1 + 1) % 2 = 0
  OBVIOUS
<1> QED BY <1>1, <1>2 DEF Xor

(* A message that the reader is waiting for.                               *)
LEMMA Got ==
    ASSUME SyncInv, NEW p \in Parties, NEW q \in Parties, q # p, ~Ended(p), Readable(q, p)
    PROVE  /\ Msgs(q, p) \in Seq(Messages) /\ Msgs(q, p) # << >> /\ Incoming(q, p) = Msgs(q, p)[1]
           /\ wire[<<q, p>>] \in Seq(Messages) /\ Incoming(q, p) = wire[<<q, p>>][1]
           /\ Incoming(q, p).tag = ToRead(p, q) /\ Incoming(q, p) \in Messages
           /\ Incoming(q, p) \in MessagesIn(Incoming(q, p).tag) /\ Incoming(q, p).tag \in Tags
           /\ 1 \in 1..Len(Msgs(q, p))
<1> DEFINE u == wire[<<q, p>>]
           v == queued[<<q, p>>]
<1>1. /\ u \in Seq(Messages) /\ v \in Seq(Messages) /\ Msgs(q, p) = u \o v
      /\ Msgs(q, p) \in Seq(Messages)
      /\ \A i \in 1..Len(Msgs(q, p)) : /\ Msgs(q, p)[i].tag \in Tags
                                       /\ Msgs(q, p)[i] \in MessagesIn(Msgs(q, p)[i].tag)
      /\ LinkInv(q, p)
  BY MsgsFacts DEF SyncInv, Msgs
<1>2. u # << >> /\ Incoming(q, p) = Head(u)
  BY DEF Readable, Incoming
<1> HIDE DEF u, v
<1>3. u \o v # << >> /\ Head(u) = (u \o v)[1] /\ Head(u) = u[1] /\ 1 \in 1..Len(u \o v) /\ Head(u) \in Messages
  BY <1>1, <1>2
<1>4. Msgs(q, p)[1].tag = ToRead(p, q)
  BY <1>1, <1>3 DEF LinkInv
<1> QED BY <1>1, <1>2, <1>3, <1>4 DEF u

(* What comes from the next party is of the round the reader is in.        *)
LEMMA GotNext ==
    ASSUME SyncInv, NEW p \in Parties, ~Ended(p), Readable(NextOf(p), p)
    PROVE  /\ FromNext(p) \in MessagesIn(Tag(p)) /\ FromNext(p).tag = Tag(p) /\ FromNext(p) \in Messages
           /\ Inbound(p) \in Vectors(Size(Tag(p))) /\ Inbound(p) \in Seq(Errors)
           /\ Len(Inbound(p)) = Size(Tag(p)) /\ Size(Tag(p)) \in Nat
           /\ DOMAIN Inbound(p) = 1..Size(Tag(p)) /\ \A i \in 1..Size(Tag(p)) : Inbound(p)[i] \in Errors
<1> DEFINE q == NextOf(p)
           m == Incoming(q, p)
<1>1. q \in Parties /\ q # p /\ PrevOf(q) = p /\ q # PrevOf(p)
  BY RingFacts
<1>2. ToRead(p, q) = Tag(p)
  BY <1>1 DEF ToRead, HasRead, Due
<1>3. m.tag = Tag(p) /\ m \in MessagesIn(Tag(p)) /\ m \in Messages /\ Tag(p) \in Tags
  <2>1. Readable(q, p)
    OBVIOUS
  <2> HIDE DEF q
  <2> QED BY <1>1, <1>2, <2>1, Got, ZenonT(40)
<1>4. m.body \in Vectors(Size(Tag(p))) /\ Size(Tag(p)) \in Nat
  BY <1>3, TagSize DEF MessagesIn
<1>5. FromNext(p) = m /\ Inbound(p) = m.body
  BY DEF FromNext, Inbound
<1> HIDE DEF m
<1> QED BY <1>3, <1>4, <1>5, VectorFacts

(* A party that has what it was waiting for goes on to the next round.     *)
LEMMA MovesOn ==
    ASSUME SyncInv, NEW p \in Parties, ~Ended(p), ~Ended(p)', sub[p] = "fromNext",
           Readable(NextOf(p), p), Read(NextOf(p), p), sub'[p] = "send",
           \A x \in Parties : x # p => Stays(x), Tag(p)' = After(Tag(p))
    PROVE  OrderInv'
<1> DEFINE q == NextOf(p)
           r == PrevOf(p)
<1>1. q \in Parties /\ q # p /\ PrevOf(q) = p /\ q # r /\ Parties = {p, q, r}
  BY RingFacts
<1>2. transport' = transport
  BY DEF Read
<1>3. \A x : ~HasSent(p, x)' /\ ~HasRead(p, x)'
  BY DEF HasSent, HasRead
<1>4. /\ \A x \in Parties : x # p => HasSent(p, x)
      /\ HasRead(p, r) /\ ~HasRead(p, q)
  BY <1>1 DEF HasSent, HasRead
<1>5. /\ \A x : ToSend(p, x)' = Due(p, x, After(Tag(p)))
      /\ \A x : ToRead(p, x)' = Due(x, p, After(Tag(p)))
  BY <1>3 DEF ToSend, ToRead
<1>6. /\ \A x \in Parties : x # p => ToSend(p, x) = Following(p, x, Tag(p))
      /\ ToRead(p, r) = Following(r, p, Tag(p)) /\ ToRead(p, q) = Due(q, p, Tag(p))
  BY <1>4 DEF ToSend, ToRead
<1>7. Due(q, p, Tag(p)) = Tag(p)
  BY <1>1 DEF Due
<1>8. /\ \A x \in Parties : x # p => ToSend(p, x)' = ToSend(p, x)
      /\ ToRead(p, q)' = Following(q, p, ToRead(p, q))
      /\ \A x \in Parties : x # p /\ x # q => ToRead(p, x)' = ToRead(p, x)
  BY <1>1, <1>5, <1>6, <1>7 DEF Following
<1>9. \A x \in Parties : x # p => /\ at'[x] = at[x] /\ done'[x] = done[x]
                                  /\ level'[x] = level[x] /\ sub'[x] = sub[x]
  BY DEF Stays
<1>10. Readable(q, p) /\ Read(q, p)
  OBVIOUS
<1> HIDE DEF q, r
<1> QED BY <1>1, <1>8, <1>9, <1>10, OrderReads

-----------------------------------------------------------------------------
(* Sending. *)

(* The triples a refill is for, and their pairs.                           *)
LEMMA RefillFacts ==
    ASSUME SyncInv, NEW p \in Parties, at[p] \in RefillRounds
    PROVE  /\ Generated(p) = CountIn(done[p]) * Bucket + Cut /\ Generated(p) \in Nat /\ Generated(p) >= Cut
           /\ Pairs(p) = 1..PairsIn(done[p]) /\ Cardinality(Pairs(p)) = PairsIn(done[p])
           /\ PairsIn(done[p]) \in Nat /\ count[p] = CountIn(done[p]) /\ CountIn(done[p]) \in Nat \ {0}
           /\ done[p] \in Nat /\ done[p] < Evals /\ Refills(done[p]) /\ Tag(p)[1] = done[p]
<1>1. at[p] # "aborted"
  BY DEF RefillRounds, Generating
<1>2. done[p] \in Nat /\ count[p] = CountIn(done[p]) /\ done[p] < Evals /\ Refills(done[p])
  BY <1>1, TagFacts DEF SyncInv, PlaceInv
<1>3. /\ CountIn(done[p]) \in Nat \ {0} /\ PairsIn(done[p]) \in Nat
      /\ Bucket \in Nat /\ Cut \in Nat
  BY <1>2, SizeFacts
<1>4. CountIn(done[p]) * Bucket \in Nat
  BY <1>3
<1>5. Pairs(p) = 1..PairsIn(done[p])
  BY <1>2 DEF Pairs, PairsIn
<1>6. Cardinality(1..PairsIn(done[p])) = PairsIn(done[p])
  BY <1>3, FS_Interval
<1> QED BY <1>1, <1>2, <1>3, <1>4, <1>5, <1>6, TagFacts DEF Generated

(* What a party puts into a round has the round's size.                    *)
LEMMA SecondsFit ==
    ASSUME SyncInv, NEW p \in Parties, at[p] \in Resharing
    PROVE  Seconds(p) \in Vectors(Size(Tag(p)))
<1>1. /\ at[p] # "aborted" /\ Tag(p)[2] = at[p] /\ PlaceInv(p) /\ PartyOK(p) /\ Tag(p)[1] = done[p]
  <2>1. at[p] # "aborted"
    BY DEF Resharing, Generating
  <2> QED BY <2>1, TagFacts, TypeParts DEF SyncInv, Typed
<1>2. 0 \in Errors /\ Either \in Errors /\ z[p][2] \in Errors /\ Cut \in Nat
  BY <1>1, SizeFacts DEF PartyOK, Errors
<1>3. CASE at[p] = "triples"
  <2>1. Generated(p) = Size(Tag(p))
    BY <1>1, <1>3, RefillFacts, TagValues DEF RefillRounds, Generating
  <2>2. Seconds(p) = All(Generated(p), 0)
    BY <1>3 DEF Seconds
  <2> QED BY <1>2, <2>1, <2>2 DEF Vectors, All
<1>4. CASE at[p] = "coin"
  <2>1. Size(Tag(p)) = 1 /\ Seconds(p) = <<0>>
    BY <1>1, <1>4, TagValues DEF Seconds
  <2> QED BY <1>2, <2>1 DEF Vectors
<1>5. CASE at[p] = "cut"
  <2>1. Size(Tag(p)) = 3 * Cut /\ Seconds(p) = IF astray[p] THEN All(3 * Cut, Either) ELSE CutShares(p)
    BY <1>1, <1>5, TagValues DEF Seconds
  <2>2. ASSUME NEW i \in 1..(3 * Cut), i % 3 = 0 PROVE triples[p][i \div 3] \in Errors
    <3>1. Generated(p) \in Nat /\ Generated(p) >= Cut
      BY <1>5, RefillFacts DEF RefillRounds, Generating
    <3>2. triples[p] \in Vectors(Generated(p))
      BY <1>1, <1>5 DEF PlaceInv, Drawn, RefillRounds, Generating
    <3>3. i \div 3 \in 1..Cut
      BY <1>2, <2>2
    <3>4. i \div 3 \in 1..Generated(p)
      BY <1>2, <3>1, <3>3
    <3> QED BY <3>1, <3>2, <3>4, VectorFacts
  <2>3. CutShares(p) \in [1..(3 * Cut) -> Errors]
    BY <1>2, <2>2 DEF CutShares
  <2> QED BY <1>2, <2>1, <2>3 DEF Vectors, All
<1>6. CASE at[p] = "pairs"
  <2>1. /\ Size(Tag(p)) = 2 * PairsIn(done[p])
        /\ Seconds(p) = All(2 * Cardinality(Pairs(p)), IF astray[p] THEN Either ELSE 0)
    BY <1>1, <1>6, TagValues DEF Seconds
  <2>2. Cardinality(Pairs(p)) = PairsIn(done[p])
    BY <1>6, RefillFacts DEF RefillRounds, Generating
  <2> QED BY <1>2, <2>1, <2>2 DEF Vectors, All
<1>7. CASE at[p] = "level"
  <2>1. Size(Tag(p)) = 2 /\ Seconds(p) = <<z[p][2], 0>>
    BY <1>1, <1>7, TagValues DEF Seconds
  <2> QED BY <1>2, <2>1 DEF Vectors
<1>8. CASE at[p] = "open"
  <2>1. Size(Tag(p)) = 1 /\ Seconds(p) = <<z[p][2]>>
    BY <1>1, <1>8, TagValues DEF Seconds
  <2> QED BY <1>2, <2>1 DEF Vectors
<1> QED BY <1>3, <1>4, <1>5, <1>6, <1>7, <1>8 DEF Resharing, Generating

(* So do the claims and the log, which are hashed.                         *)
LEMMA SaidFits ==
    ASSUME SyncInv, NEW p \in Parties, at[p] \in Exchanges
    PROVE  Said(p) \in Vectors(Size(Tag(p)))
<1>1. /\ at[p] # "aborted" /\ Tag(p)[2] = at[p] /\ PlaceInv(p) /\ PartyOK(p) /\ Tag(p)[1] = done[p]
      /\ Tag(p) \in Tags
  <2>1. at[p] \notin {"aborted", "done"}
    BY DEF Exchanges
  <2> QED BY <2>1, TagFacts, TypeParts DEF SyncInv, Typed
<1>2. CASE at[p] = "zero"
  <2>1. Size(Tag(p)) = PairsIn(done[p]) /\ Said(p) = Claimed(p)
    BY <1>1, <1>2, TagValues DEF Said
  <2>2. /\ zeros[p] \in [Pairs(p) -> Errors \X Errors] /\ Pairs(p) = 1..PairsIn(done[p])
    BY <1>1, <1>2, RefillFacts DEF PlaceInv, RefillRounds
  <2>3. \A k \in Pairs(p) : Xor(zeros[p][k][1], zeros[p][k][2]) \in Errors
    BY <2>2, XorFacts
  <2> QED BY <2>1, <2>2, <2>3 DEF Vectors, Claimed
<1>3. CASE at[p] # "zero"
  <2>1. Said(p) = log[p] /\ Size(Tag(p)) = Logged(Tag(p))
    BY <1>1, <1>3, TagValues DEF Said, Exchanges
  <2>2. log[p] \in Seq(Errors) /\ Len(log[p]) = Logged(Tag(p))
    BY <1>1 DEF PlaceInv, PartyOK
  <2> QED BY <2>1, <2>2 DEF Vectors
<1> QED BY <1>2, <1>3

(* A message, changed on its way or not, is one of its round.              *)
LEMMA MessageFacts ==
    ASSUME NEW t \in Tags, NEW body \in Vectors(Size(t))
    PROVE  /\ [tag |-> t, body |-> body, changed |-> FALSE] \in MessagesIn(t)
           /\ t[2] \notin Exchanges => \A i \in DOMAIN body :
                [tag |-> t, body |-> [body EXCEPT ![i] = Xor(@, 1)], changed |-> FALSE] \in MessagesIn(t)
           /\ t[2] \in Exchanges => [tag |-> t, body |-> body, changed |-> TRUE] \in MessagesIn(t)
<1>1. \A i \in DOMAIN body : [body EXCEPT ![i] = Xor(@, 1)] \in Vectors(Size(t))
  <2>1. 1 \in Errors
    BY DEF Errors
  <2> QED BY <2>1, XorFacts DEF Vectors
<1> QED BY <1>1 DEF MessagesIn

(* The messages of a round are messages.                                   *)
LEMMA MessagesOfRound ==
    ASSUME NEW t \in Tags, NEW m \in MessagesIn(t)
    PROVE  /\ m \in Messages /\ m.tag = t /\ m \in MessagesIn(m.tag)
           /\ m = [tag |-> t, body |-> m.body, changed |-> m.changed]
           /\ m.body \in Vectors(Size(t)) /\ m.changed \in BOOLEAN
<1>1. /\ m.tag = t /\ m.body \in Vectors(Size(t)) /\ m.changed \in BOOLEAN
      /\ m = [tag |-> m.tag, body |-> m.body, changed |-> m.changed]
  BY DEF MessagesIn
<1>2. m.body \in Seq(Errors)
  BY <1>1, TagSize, VectorFacts
<1> QED BY <1>1, <1>2 DEF Messages

(* Words arrive as they were sent, or with one item changed.               *)
LEMMA SentWords ==
    ASSUME flips \in 0..MaxFlips, NEW p, NEW q, NEW t \in Tags, t[2] \notin Exchanges,
           NEW body \in Vectors(Size(t)), NEW m0, m0 = [tag |-> t, body |-> body, changed |-> FALSE],
           Send(p, q, m0, ChangedWords(m0))
    PROVE  \E m \in MessagesIn(t) :
               /\ Transmit(p, q, m) /\ flips' \in 0..MaxFlips /\ ~m.changed
               /\ \/ flips' = flips /\ m.body = body
                  \/ /\ flips = 0 /\ flips' = 1 /\ p = 1 /\ transport = "channel"
                     /\ \E i \in DOMAIN body : m.body = [body EXCEPT ![i] = Xor(@, 1)]
<1>1. flips \in 0..1 /\ MaxFlips \in 0..1
  BY MaxFlipsAssumption
<1>2. CASE Transmit(p, q, m0) /\ flips' = flips
  BY <1>2, MessageFacts
<1>3. CASE /\ p = 1 /\ transport = "channel" /\ flips < MaxFlips /\ flips' = flips + 1
           /\ \E changed \in ChangedWords(m0) : Transmit(p, q, changed)
  <2>1. PICK m \in ChangedWords(m0) : Transmit(p, q, m)
    BY <1>3
  <2>2. PICK i \in DOMAIN body : m = [m0 EXCEPT !.body[i] = Xor(@, 1)]
    BY <2>1 DEF ChangedWords
  <2>3. m = [tag |-> t, body |-> [body EXCEPT ![i] = Xor(@, 1)], changed |-> FALSE]
    BY <2>2
  <2>4. m \in MessagesIn(t)
    BY <2>3, MessageFacts
  <2>5. flips = 0 /\ flips' = 1 /\ flips' \in 0..MaxFlips
    BY <1>1, <1>3
  <2>6. m.body = [body EXCEPT ![i] = Xor(@, 1)] /\ ~m.changed
    BY <2>3
  <2> QED BY <1>3, <2>1, <2>4, <2>5, <2>6
<1> QED BY <1>2, <1>3 DEF Send

(* So do hashes.                                                           *)
LEMMA SentHash ==
    ASSUME flips \in 0..MaxFlips, NEW p, NEW q, NEW t \in Tags, t[2] \in Exchanges,
           NEW body \in Vectors(Size(t)), NEW m0, m0 = [tag |-> t, body |-> body, changed |-> FALSE],
           Send(p, q, m0, ChangedHash(m0))
    PROVE  \E m \in MessagesIn(t) :
               /\ Transmit(p, q, m) /\ flips' \in 0..MaxFlips /\ m.body = body
               /\ \/ flips' = flips /\ ~m.changed
                  \/ flips = 0 /\ flips' = 1 /\ p = 1 /\ transport = "channel" /\ m.changed
<1>1. flips \in 0..1 /\ MaxFlips \in 0..1
  BY MaxFlipsAssumption
<1>2. CASE Transmit(p, q, m0) /\ flips' = flips
  BY <1>2, MessageFacts
<1>3. CASE /\ p = 1 /\ transport = "channel" /\ flips < MaxFlips /\ flips' = flips + 1
           /\ \E changed \in ChangedHash(m0) : Transmit(p, q, changed)
  <2> DEFINE m == [m0 EXCEPT !.changed = TRUE]
  <2>1. Transmit(p, q, m)
    BY <1>3 DEF ChangedHash
  <2>2. m \in MessagesIn(t) /\ m.body = body /\ m.changed
    <3> DEFINE T == [tag : {t}, body : Vectors(Size(t)), changed : BOOLEAN]
    <3>1. m0 \in T /\ MessagesIn(t) = T /\ m0.body = body
      BY DEF MessagesIn
    <3> HIDE DEF T
    <3>2. m.changed = TRUE /\ m.body = m0.body
      BY <3>1 DEF T
    <3>3. m \in T
      BY <3>1 DEF T
    <3> QED BY <3>1, <3>2, <3>3
  <2>3. flips = 0 /\ flips' = 1 /\ flips' \in 0..MaxFlips
    BY <1>1, <1>3
  <2> HIDE DEF m
  <2> QED BY <1>3, <2>1, <2>2, <2>3
<1> QED BY <1>2, <1>3 DEF Send

(* A party sends its part of a round, and nothing else of it changes.      *)
LEMMA SendsOn ==
    ASSUME SyncInv, NEW p \in Parties, NEW q \in Parties, q # p,
           NEW m \in MessagesIn(Tag(p)), Transmit(p, q, m), flips' \in 0..MaxFlips,
           NEW next, sub' = [sub EXCEPT ![p] = next],
           UNCHANGED <<at, heard, local>>,
           \/ at[p] \in Resharing /\ sub[p] = "send" /\ next = "fromNext" /\ q = PrevOf(p)
           \/ at[p] \in Exchanges /\ sub[p] = "send" /\ next = "sendNext" /\ q = PrevOf(p)
           \/ at[p] \in Exchanges /\ sub[p] = "sendNext" /\ next = "fromPrev" /\ q = NextOf(p)
           \/ at[p] = "hand" /\ sub[p] = "send" /\ next = "exit"
    PROVE  SyncInv'
<1> DEFINE t == Tag(p)
<1>1. /\ NetTypeOK /\ Domains /\ PartyOK(p) /\ PlaceInv(p) /\ transport \in {"channel", "tcp"}
  BY TypeParts DEF SyncInv, Typed, NetTypeOK
<1>2. /\ Resharing \cap Exchanges = {} /\ "hand" \notin Resharing \cup Exchanges
      /\ "done" \notin Resharing \cup Exchanges /\ "aborted" \notin Resharing \cup Exchanges
  BY DEF Resharing, Exchanges, Generating
<1>3. at[p] \notin {"aborted", "done"} /\ t \in Tags /\ t[2] = at[p]
  BY <1>2, TagFacts
<1>4. m \in Messages /\ m.tag = t /\ m \in MessagesIn(m.tag)
  BY <1>3, MessagesOfRound
<1>5. /\ at' = at /\ level' = level /\ done' = done /\ count' = count /\ triples' = triples
      /\ astray' = astray /\ zeros' = zeros /\ heard' = heard /\ log' = log /\ pool' = pool
      /\ z' = z /\ shown' = shown /\ sub'[p] = next
      /\ transport' = transport /\ reset' = reset
  BY <1>1 DEF Transmit, local, Domains
<1>6. \A x \in Parties : x # p => Stays(x)
  BY <1>1, <1>5 DEF Stays, Domains
<1>7. Domains'
  BY <1>1, <1>5 DEF Domains
<1>8. /\ Tag(p)' = Tag(p) /\ \A a, b, u : Following(a, b, u)' = Following(a, b, u)
  BY <1>5, CourseKept DEF Tag
<1>9. /\ PartyOK(p)' /\ PlaceInv(p)'
  <2>1. Generated(p)' = Generated(p) /\ Pairs(p)' = Pairs(p)
    BY <1>5 DEF Generated, Pairs
  <2>2. next \in SubsIn(at[p]) /\ next \in {"sendNext", "fromPrev", "fromNext", "exit"}
    BY <1>2 DEF SubsIn
  <2>3. at[p] \in Exchanges => next # "fromNext"
    BY <1>2
  <2>4. PartyOK(p)'
    BY <1>1, <1>5, <2>1, <2>2 DEF PartyOK
  <2>5. PlaceInv(p)'
    BY <1>1, <1>5, <1>8, <2>1, <2>2, <2>3 DEF PlaceInv
  <2> QED BY <2>4, <2>5
<1>10. OrderInv'
  <2> DEFINE r == PrevOf(p)
             s == NextOf(p)
  <2>0. /\ r \in Parties /\ s \in Parties /\ r # p /\ s # p /\ r # s /\ Parties = {p, r, s}
    BY RingFacts
  <2>1. /\ t[2] \in Resharing => NextExchange(After(t)) = NextExchange(t)
        /\ t[2] = "hand" => After(t) = t /\ NextExchange(t) = t
        /\ t[2] \in Exchanges => NextExchange(t) = t
    BY <1>2, <1>3, SkipFacts DEF NextExchange, Exchanges, Generating
  <2>2. /\ HasSent(p, r) <=> sub[p] # "send"
        /\ HasSent(p, s) <=> sub[p] \in {"fromPrev", "fromNext", "exit"}
        /\ HasSent(p, r)' <=> next # "send"
        /\ HasSent(p, s)' <=> next \in {"fromPrev", "fromNext", "exit"}
        /\ HasRead(p, r) <=> sub[p] = "fromNext"
        /\ HasRead(p, r)' <=> next = "fromNext"
        /\ ~HasRead(p, s) /\ ~HasRead(p, s)'
    BY <1>5, <2>0 DEF HasSent, HasRead
  <2>3. /\ \A x : ToSend(p, x) = IF HasSent(p, x) THEN Following(p, x, t) ELSE Due(p, x, t)
        /\ \A x : ToSend(p, x)' = IF HasSent(p, x)' THEN Following(p, x, t) ELSE Due(p, x, t)
        /\ \A x : ToRead(p, x) = IF HasRead(p, x) THEN Following(x, p, t) ELSE Due(x, p, t)
        /\ \A x : ToRead(p, x)' = IF HasRead(p, x)' THEN Following(x, p, t) ELSE Due(x, p, t)
    BY <1>8 DEF ToSend, ToRead
  <2>4. /\ Due(p, r, t) = t /\ Due(p, s, t) = NextExchange(t)
        /\ Due(r, p, t) = NextExchange(t) /\ Due(s, p, t) = t
        /\ Following(p, r, t) = After(t) /\ Following(p, s, t) = NextExchange(After(t))
        /\ Following(r, p, t) = NextExchange(After(t)) /\ Following(s, p, t) = After(t)
    BY <2>0, RingFacts DEF Due, Following
  <2>5. q = r \/ q = s
    BY <2>0
  <2>6. /\ ToSend(p, q) = t /\ ToSend(p, q)' = Following(p, q, t)
        /\ \A x \in Parties : x # p /\ x # q => ToSend(p, x)' = ToSend(p, x)
        /\ \A x \in Parties : x # p => ToRead(p, x)' = ToRead(p, x)
    <3> HIDE DEF t, r, s
    <3>1. CASE at[p] \in Resharing /\ sub[p] = "send" /\ next = "fromNext" /\ q = r
      BY <1>3, <2>0, <2>1, <2>2, <2>3, <2>4, <3>1
    <3>2. CASE at[p] \in Exchanges /\ sub[p] = "send" /\ next = "sendNext" /\ q = r
      BY <1>3, <2>0, <2>1, <2>2, <2>3, <2>4, <3>2
    <3>3. CASE at[p] \in Exchanges /\ sub[p] = "sendNext" /\ next = "fromPrev" /\ q = s
      BY <1>3, <2>0, <2>1, <2>2, <2>3, <2>4, <3>3
    <3>4. CASE at[p] = "hand" /\ sub[p] = "send" /\ next = "exit"
      BY <1>3, <2>0, <2>1, <2>2, <2>3, <2>4, <2>5, <3>4
    <3> QED BY <3>1, <3>2, <3>3, <3>4 DEF r, s
  <2>7. \A x \in Parties : ToRead(p, x)' = ToRead(p, x)
    <3>1. ToRead(p, p)' = ToRead(p, p)
      <4>1. ~HasRead(p, p) /\ ~HasRead(p, p)'
        BY RingFacts DEF HasRead
      <4> QED BY <2>3, <4>1
    <3> QED BY <2>6, <3>1
  <2>8. q = PrevOf(p) \/ at[p] \in Exchanges \/ transport = "tcp"
    BY <1>1 DEF PlaceInv
  <2>9. \A x \in Parties : x # p => sub'[x] = sub[x]
    BY <1>6 DEF Stays
  <2>10. at' = at /\ done' = done /\ level' = level
    BY <1>5
  <2>11. \A x \in Parties : x # p /\ x # q => ToSend(p, x)' = ToSend(p, x)
    BY <2>6
  <2> HIDE DEF r, s
  <2>12. m.tag = Tag(p) /\ ToSend(p, q) = Tag(p) /\ ToSend(p, q)' = Following(p, q, Tag(p))
    BY <1>4, <2>6
  <2> HIDE DEF t
  <2> QED BY <1>3, <1>4, <2>7, <2>8, <2>9, <2>10, <2>11, <2>12, OrderSends
<1>11. reset' \subseteq SUBSET Parties
  BY <1>1, <1>5 DEF NetTypeOK
<1> HIDE DEF t
<1> QED BY <1>5, <1>6, <1>7, <1>9, <1>10, <1>11, SyncFrom

(* Shares are sent in a round of reshares: one item may arrive changed.    *)
LEMMA SharesSent ==
    ASSUME SyncInv, NEW p \in Parties, SendShares(p)
    PROVE  \E m \in MessagesIn(Tag(p)) :
               /\ Transmit(p, PrevOf(p), m) /\ flips' \in 0..MaxFlips /\ ~m.changed
               /\ \/ flips' = flips /\ m.body = Seconds(p)
                  \/ /\ flips = 0 /\ flips' = 1 /\ p = 1 /\ transport = "channel"
                     /\ \E i \in DOMAIN Seconds(p) : m.body = [Seconds(p) EXCEPT ![i] = Xor(@, 1)]
<1> DEFINE m0 == Words(p, Seconds(p))
<1>1. at[p] \in Resharing /\ Send(p, PrevOf(p), m0, ChangedWords(m0)) /\ flips \in 0..MaxFlips
  BY DEF SendShares, SyncInv, TypeOK
<1>2. Tag(p) \in Tags /\ Tag(p)[2] = at[p] /\ at[p] \notin Exchanges
  <2>1. at[p] \notin {"aborted", "done"} \cup Exchanges
    BY <1>1 DEF Resharing, Exchanges, Generating
  <2> QED BY <2>1, TagFacts
<1>3. Seconds(p) \in Vectors(Size(Tag(p)))
  BY <1>1, SecondsFit
<1>4. m0 = [tag |-> Tag(p), body |-> Seconds(p), changed |-> FALSE]
  BY DEF Words
<1> HIDE DEF m0
<1> QED BY <1>1, <1>2, <1>3, <1>4, SentWords

(* A party that sends its shares stays in step.                            *)
LEMMA SendSharesSync ==
    ASSUME SyncInv, NEW p \in Parties, SendShares(p)
    PROVE  SyncInv'
<1>1. PICK m \in MessagesIn(Tag(p)) : Transmit(p, PrevOf(p), m) /\ flips' \in 0..MaxFlips
  BY SharesSent
<1>2. /\ at[p] \in Resharing /\ sub[p] = "send" /\ sub' = [sub EXCEPT ![p] = "fromNext"]
      /\ UNCHANGED <<at, heard, local>>
  BY DEF SendShares
<1>3. PrevOf(p) \in Parties /\ PrevOf(p) # p
  BY RingFacts
<1> QED BY <1>1, <1>2, <1>3, SendsOn

(* A hash is sent in an exchange: it may arrive changed.                   *)
LEMMA HashSent ==
    ASSUME SyncInv, NEW p \in Parties, NEW q, at[p] \in Exchanges,
           Send(p, q, HashOf(p, Said(p)), ChangedHash(HashOf(p, Said(p))))
    PROVE  \E m \in MessagesIn(Tag(p)) :
               /\ Transmit(p, q, m) /\ flips' \in 0..MaxFlips /\ m.body = Said(p)
               /\ \/ flips' = flips /\ ~m.changed
                  \/ flips = 0 /\ flips' = 1 /\ p = 1 /\ transport = "channel" /\ m.changed
<1> DEFINE m0 == HashOf(p, Said(p))
<1>1. Send(p, q, m0, ChangedHash(m0)) /\ flips \in 0..MaxFlips
  BY DEF SyncInv, TypeOK
<1>2. Tag(p) \in Tags /\ Tag(p)[2] = at[p]
  <2>1. at[p] \notin {"aborted", "done"}
    BY DEF Exchanges
  <2> QED BY <2>1, TagFacts
<1>3. Said(p) \in Vectors(Size(Tag(p)))
  BY SaidFits
<1>4. m0 = [tag |-> Tag(p), body |-> Said(p), changed |-> FALSE]
  BY DEF HashOf, Words
<1> HIDE DEF m0
<1> QED BY <1>1, <1>2, <1>3, <1>4, SentHash

(* So does one that sends a hash,                                          *)
LEMMA SendHashSync ==
    ASSUME SyncInv, NEW p \in Parties, SendHash(p)
    PROVE  SyncInv'
<1>1. /\ at[p] \in Exchanges /\ UNCHANGED <<at, heard, local>>
      /\ \E q \in Parties, next \in {"sendNext", "fromPrev"} :
            /\ q # p /\ Send(p, q, HashOf(p, Said(p)), ChangedHash(HashOf(p, Said(p))))
            /\ sub' = [sub EXCEPT ![p] = next]
            /\ \/ sub[p] = "send" /\ next = "sendNext" /\ q = PrevOf(p)
               \/ sub[p] = "sendNext" /\ next = "fromPrev" /\ q = NextOf(p)
  BY RingFacts DEF SendHash
<1>2. PICK q \in Parties, next \in {"sendNext", "fromPrev"} :
            /\ q # p /\ Send(p, q, HashOf(p, Said(p)), ChangedHash(HashOf(p, Said(p))))
            /\ sub' = [sub EXCEPT ![p] = next]
            /\ \/ sub[p] = "send" /\ next = "sendNext" /\ q = PrevOf(p)
               \/ sub[p] = "sendNext" /\ next = "fromPrev" /\ q = NextOf(p)
  BY <1>1
<1>3. PICK m \in MessagesIn(Tag(p)) : Transmit(p, q, m) /\ flips' \in 0..MaxFlips
  BY <1>1, <1>2, HashSent
<1> QED BY <1>1, <1>2, <1>3, SendsOn

(* or hands its components over.                                           *)
LEMMA HandOverSync ==
    ASSUME SyncInv, NEW p \in Parties, HandOver(p)
    PROVE  SyncInv'
<1> DEFINE m0 == Words(p, z[p])
<1>1. /\ at[p] = "hand" /\ sub[p] = "send" /\ p # 0 /\ sub' = [sub EXCEPT ![p] = "exit"]
      /\ Send(p, 0, m0, ChangedWords(m0)) /\ UNCHANGED <<at, heard, local>>
      /\ flips \in 0..MaxFlips
  BY DEF HandOver, SyncInv, TypeOK
<1>2. Tag(p) \in Tags /\ Tag(p)[2] = "hand" /\ "hand" \notin Exchanges
  BY <1>1, TagFacts DEF Exchanges
<1>3. z[p] \in Vectors(Size(Tag(p)))
  <2>1. z[p] \in Errors \X Errors
    BY DEF SyncInv, TypeOK
  <2>2. Size(Tag(p)) = 2
    BY <1>2, TagValues
  <2> QED BY <2>1, <2>2 DEF Vectors
<1>4. m0 = [tag |-> Tag(p), body |-> z[p], changed |-> FALSE]
  BY DEF Words
<1> HIDE DEF m0
<1>5. PICK m \in MessagesIn(Tag(p)) : Transmit(p, 0, m) /\ flips' \in 0..MaxFlips
  BY <1>1, <1>2, <1>3, <1>4, SentWords
<1>6. 0 \in Parties
  BY DEF Parties
<1> QED BY <1>1, <1>5, <1>6, SendsOn

(* The previous party's hash is heard, and kept.                           *)
LEMMA HearPrevSync ==
    ASSUME SyncInv, NEW p \in Parties, HearPrev(p)
    PROVE  SyncInv'
<1> DEFINE q == PrevOf(p)
           s == NextOf(p)
           t == Tag(p)
<1>0. q \in Parties /\ q # p /\ s \in Parties /\ s # p /\ q # s /\ Parties = {p, q, s} /\ PrevOf(q) = s
  BY RingFacts
<1>1. /\ at[p] \in Exchanges /\ sub[p] = "fromPrev" /\ Readable(q, p) /\ Read(q, p)
      /\ heard' = [heard EXCEPT ![p] = Incoming(q, p)]
      /\ sub' = [sub EXCEPT ![p] = "fromNext"]
      /\ UNCHANGED <<at, flips, local>>
  BY DEF HearPrev
<1>2. /\ NetTypeOK /\ Domains /\ PartyOK(p) /\ PlaceInv(p) /\ flips \in 0..MaxFlips
  BY TypeParts DEF SyncInv, Typed
<1>3. /\ at[p] \notin {"aborted", "done"} /\ t \in Tags /\ t[2] = at[p] /\ ~Ended(p)
  <2>1. at[p] \notin {"aborted", "done"}
    BY <1>1 DEF Exchanges
  <2> QED BY <2>1, TagFacts DEF Ended
<1>4. /\ at' = at /\ level' = level /\ done' = done /\ count' = count /\ triples' = triples
      /\ astray' = astray /\ zeros' = zeros /\ log' = log /\ pool' = pool
      /\ z' = z /\ shown' = shown /\ sub'[p] = "fromNext" /\ heard'[p] = Incoming(q, p)
      /\ transport' = transport /\ reset' = reset /\ flips' = flips
  BY <1>1, <1>2 DEF Read, local, Domains
<1>5. \A x \in Parties : x # p => Stays(x)
  BY <1>1, <1>2, <1>4 DEF Stays, Domains
<1>6. Domains'
  BY <1>1, <1>2, <1>4 DEF Domains
<1>7. /\ Tag(p)' = Tag(p) /\ \A a, b, u : Following(a, b, u)' = Following(a, b, u)
  BY <1>4, CourseKept DEF Tag
<1>8. NextExchange(t) = t /\ Due(q, p, t) = t /\ Due(s, p, t) = t
  BY <1>0, <1>1, <1>3, RingFacts DEF NextExchange, Exchanges, Generating, Due
<1>9. /\ ToRead(p, q) = t /\ ToRead(p, q)' = Following(q, p, t) /\ ToRead(p, s)' = ToRead(p, s)
      /\ \A x \in Parties : x # p => ToSend(p, x)' = ToSend(p, x)
  <2>1. /\ ~HasRead(p, q) /\ HasRead(p, q)' /\ ~HasRead(p, s) /\ ~HasRead(p, s)'
        /\ \A x \in Parties : HasSent(p, x) /\ HasSent(p, x)'
    BY <1>0, <1>1, <1>4 DEF HasRead, HasSent
  <2> HIDE DEF q, s
  <2> QED BY <1>0, <1>7, <1>8, <2>1 DEF ToRead, ToSend
<1>10. Incoming(q, p) \in MessagesIn(t)
  <2> HIDE DEF q
  <2>1. Incoming(q, p).tag = t /\ Incoming(q, p) \in MessagesIn(Incoming(q, p).tag)
    BY <1>0, <1>1, <1>3, <1>9, Got
  <2> QED BY <2>1
<1>11. PartyOK(p)' /\ PlaceInv(p)'
  <2>1. Generated(p)' = Generated(p) /\ Pairs(p)' = Pairs(p)
    BY <1>4 DEF Generated, Pairs
  <2>2. "fromNext" \in SubsIn(at[p])
    BY <1>1 DEF SubsIn, Resharing, Exchanges, Generating
  <2>3. PartyOK(p)'
    BY <1>2, <1>4, <2>1 DEF PartyOK
  <2>4. heard'[p] \in MessagesIn(t)
    BY <1>4, <1>10
  <2>5. PlaceInv(p)'
    BY <1>2, <1>4, <1>7, <2>1, <2>2, <2>4 DEF PlaceInv
  <2> QED BY <2>3, <2>5
<1>12. OrderInv'
  <2>1. \A x \in Parties : x # p => /\ at'[x] = at[x] /\ done'[x] = done[x]
                                    /\ level'[x] = level[x] /\ sub'[x] = sub[x]
    BY <1>5 DEF Stays
  <2>2. ~Ended(p)'
    BY <1>3, <1>4 DEF Ended
  <2>3. /\ ToRead(p, q)' = Following(q, p, ToRead(p, q))
        /\ \A x \in Parties : x # p /\ x # q => ToRead(p, x)' = ToRead(p, x)
    BY <1>0, <1>9
  <2>4. \A x \in Parties : x # p => ToSend(p, x)' = ToSend(p, x)
    BY <1>9
  <2> HIDE DEF q, s, t
  <2> QED BY <1>0, <1>1, <1>3, <2>1, <2>2, <2>3, <2>4, OrderReads
<1>13. reset' \subseteq SUBSET Parties
  BY <1>2, <1>4 DEF NetTypeOK
<1> QED BY <1>2, <1>4, <1>5, <1>6, <1>11, <1>12, <1>13, SyncFrom

-----------------------------------------------------------------------------
(* Going on to the next round. *)

(* A party that has what it was waiting for.                               *)
LEMMA Gotten ==
    ASSUME SyncInv, NEW p \in Parties, NEW round \in Resharing \cup Exchanges, Gets(p, round)
    PROVE  /\ at[p] = round /\ sub[p] = "fromNext" /\ Readable(NextOf(p), p) /\ ~Ended(p)
           /\ PartyOK(p) /\ PlaceInv(p) /\ Domains /\ NetTypeOK /\ flips \in 0..MaxFlips
           /\ Tag(p) \in Tags /\ Goes(Tag(p)) /\ Tag(p)[1] = done[p] /\ Tag(p)[2] = round
           /\ Tag(p)[3] = (IF round = "level" THEN level[p] ELSE 0) /\ done[p] \in Nat
           /\ at[p] \in {"zero", "views", "check", "shown"} => heard[p] \in MessagesIn(Tag(p))
<1>1. at[p] = round /\ sub[p] = "fromNext" /\ Readable(NextOf(p), p)
  BY DEF Gets
<1>2. at[p] \notin {"aborted", "done"} /\ ~Ended(p)
  BY <1>1 DEF Resharing, Exchanges, Generating, Ended
<1>3. PartyOK(p) /\ PlaceInv(p) /\ Domains /\ NetTypeOK /\ flips \in 0..MaxFlips
  BY TypeParts DEF SyncInv, Typed
<1>4. at[p] \in {"zero", "views", "check", "shown"} => heard[p] \in MessagesIn(Tag(p))
  BY <1>1, <1>3 DEF PlaceInv, Exchanges
<1> QED BY <1>1, <1>2, <1>3, <1>4, TagFacts

(* What remains to be shown of such a step.                                *)
LEMMA MoveSync ==
    ASSUME SyncInv, NEW p \in Parties, NEW round \in Resharing \cup Exchanges, Gets(p, round),
           NEW next \in Rounds, GoesTo(p, next), Read(NextOf(p), p), flips' = flips,
           Domains', \A x \in Parties : x # p => Stays(x),
           Tag(p)' = After(Tag(p)), PartyOK(p)', PlaceInv(p)'
    PROVE  SyncInv'
<1>1. /\ ~Ended(p) /\ sub[p] = "fromNext" /\ Readable(NextOf(p), p)
      /\ Domains /\ NetTypeOK /\ flips \in 0..MaxFlips
  BY Gotten
<1>2. at'[p] = next /\ sub'[p] = "send"
  BY <1>1 DEF GoesTo, Domains
<1>3. ~Ended(p)'
  BY <1>2 DEF Ended, Rounds, Resharing, Exchanges, Generating
<1>4. transport' = transport /\ reset' \subseteq SUBSET Parties
  BY <1>1 DEF Read, NetTypeOK
<1>5. OrderInv'
  BY <1>1, <1>2, <1>3, MovesOn
<1> QED BY <1>1, <1>4, <1>5, SyncFrom

(* The tag a party comes to.                                               *)
LEMMA NextTag ==
    ASSUME NEW p, NEW e, NEW round, NEW l,
           done'[p] = e, at'[p] = round, round = "level" => level'[p] = l, round # "level" => l = 0
    PROVE  Tag(p)' = <<e, round, l>>
BY DEF Tag

(* Going on keeps the parties in step: with the products generated,        *)
LEMMA TakeTriplesSync ==
    ASSUME SyncInv, NEW p \in Parties, TakeTriples(p)
    PROVE  SyncInv'
<1> DEFINE t == Tag(p)
<1>1. /\ Gets(p, "triples") /\ triples' = [triples EXCEPT ![p] = Inbound(p)]
      /\ GoesTo(p, "coin") /\ Read(NextOf(p), p)
      /\ UNCHANGED <<heard, flips, level, done, count, astray, zeros, log, pool, z, shown>>
  BY DEF TakeTriples
<1>2. "triples" \in Resharing \cup Exchanges /\ "coin" \in Rounds
  BY DEF Rounds, Resharing, Exchanges, Generating
<1>3. /\ at[p] = "triples" /\ Readable(NextOf(p), p) /\ ~Ended(p)
      /\ PartyOK(p) /\ PlaceInv(p) /\ Domains /\ NetTypeOK
      /\ t \in Tags /\ t[1] = done[p] /\ t[2] = "triples" /\ t[3] = 0 /\ done[p] \in Nat
  BY <1>1, <1>2, Gotten
<1>4. /\ at'[p] = "coin" /\ sub'[p] = "send" /\ triples'[p] = Inbound(p)
      /\ heard' = heard /\ flips' = flips /\ level' = level /\ done' = done /\ count' = count
      /\ astray' = astray /\ zeros' = zeros /\ log' = log /\ pool' = pool /\ z' = z /\ shown' = shown
      /\ transport' = transport
  BY <1>1, <1>3 DEF GoesTo, Domains, Read
<1>5. \A x \in Parties : x # p => Stays(x)
  BY <1>1, <1>3, <1>4 DEF Stays, Domains, GoesTo
<1>6. Domains'
  BY <1>1, <1>3, <1>4 DEF Domains, GoesTo
<1>7. Tag(p)' = <<done[p], "coin", 0>> /\ After(t) = <<done[p], "coin", 0>>
  BY <1>3, <1>4, NextTag DEF After
<1>8. Inbound(p) \in Vectors(Generated(p)) /\ Generated(p)' = Generated(p)
  <2>1. Size(t) = Generated(p)
    BY <1>3, TagValues, RefillFacts DEF RefillRounds, Generating
  <2>2. Inbound(p) \in Vectors(Size(t))
    BY <1>3, GotNext
  <2> QED BY <1>4, <2>1, <2>2 DEF Generated
<1>9. PartyOK(p)'
  BY <1>2, <1>3, <1>4, <1>8 DEF PartyOK
<1>10. PlaceInv(p)'
  <2>1. /\ done[p] < Evals /\ Refills(done[p]) /\ count[p] = CountIn(done[p]) /\ level[p] = 1
        /\ Len(pool[p]) = StockIn(t) /\ Len(log[p]) = Logged(t)
    BY <1>3 DEF PlaceInv, RefillRounds, Generating
  <2>2. /\ StockIn(t) = StockIn(Tag(p)') /\ Logged(t) = Logged(Tag(p)')
    BY <1>3, <1>7, TagValues
  <2>3. "send" \in SubsIn("coin")
    BY DEF SubsIn, Resharing, Generating
  <2> QED BY <1>4, <1>8, <2>1, <2>2, <2>3 DEF PlaceInv, RefillRounds, Generating, Drawn, Exchanges
<1> HIDE DEF t
<1> QED BY <1>1, <1>2, <1>4, <1>5, <1>6, <1>7, <1>9, <1>10, MoveSync DEF t

(* The values opened in a round are added to the log.                      *)
LEMMA LogGrows ==
    ASSUME NEW s \in Seq(Errors), NEW n \in Nat, NEW f \in Vectors(n)
    PROVE  /\ s \o f \in Seq(Errors) /\ Len(s \o f) = Len(s) + n
           /\ \A i \in 1..Len(s) : (s \o f)[i] = s[i]
           /\ \A i \in 1..n : (s \o f)[Len(s) + i] = f[i]
<1>1. f \in Seq(Errors) /\ Len(f) = n
  BY VectorFacts
<1> QED BY <1>1

(* with the coin opened,                                                   *)
LEMMA TakeCoinSync ==
    ASSUME SyncInv, NEW p \in Parties, TakeCoin(p)
    PROVE  SyncInv'
<1> DEFINE t == Tag(p)
<1>1. /\ Gets(p, "coin") /\ log' = [log EXCEPT ![p] = @ \o Inbound(p)]
      /\ astray' = [astray EXCEPT ![p] = @ \/ Inbound(p)[1] = 1]
      /\ GoesTo(p, "cut") /\ Read(NextOf(p), p)
      /\ UNCHANGED <<heard, flips, level, done, count, triples, zeros, pool, z, shown>>
  BY DEF TakeCoin, Opened
<1>2. "coin" \in Resharing \cup Exchanges /\ "cut" \in Rounds
  BY DEF Rounds, Resharing, Exchanges, Generating
<1>3. /\ at[p] = "coin" /\ Readable(NextOf(p), p) /\ ~Ended(p)
      /\ PartyOK(p) /\ PlaceInv(p) /\ Domains /\ NetTypeOK
      /\ t \in Tags /\ t[1] = done[p] /\ t[2] = "coin" /\ t[3] = 0 /\ done[p] \in Nat
  BY <1>1, <1>2, Gotten
<1>4. /\ at'[p] = "cut" /\ sub'[p] = "send" /\ log'[p] = log[p] \o Inbound(p)
      /\ astray'[p] = (astray[p] \/ Inbound(p)[1] = 1)
      /\ heard' = heard /\ flips' = flips /\ level' = level /\ done' = done /\ count' = count
      /\ triples' = triples /\ zeros' = zeros /\ pool' = pool /\ z' = z /\ shown' = shown
      /\ transport' = transport
  BY <1>1, <1>3 DEF GoesTo, Domains, Read
<1>5. \A x \in Parties : x # p => Stays(x)
  BY <1>1, <1>3, <1>4 DEF Stays, Domains, GoesTo
<1>6. Domains'
  BY <1>1, <1>3, <1>4 DEF Domains, GoesTo
<1>7. Tag(p)' = <<done[p], "cut", 0>> /\ After(t) = <<done[p], "cut", 0>>
  BY <1>3, <1>4, NextTag DEF After
<1>8. /\ log'[p] \in Seq(Errors) /\ Len(log'[p]) = Len(log[p]) + 1
      /\ Generated(p)' = Generated(p)
  <2>1. Size(t) = 1
    BY <1>3, TagValues
  <2>2. Inbound(p) \in Vectors(1) /\ log[p] \in Seq(Errors)
    BY <1>3, <2>1, GotNext DEF PartyOK
  <2> QED BY <1>4, <2>2, LogGrows DEF Generated
<1>9. PartyOK(p)'
  BY <1>2, <1>3, <1>4, <1>8 DEF PartyOK
<1>10. PlaceInv(p)'
  <2>1. /\ done[p] < Evals /\ Refills(done[p]) /\ count[p] = CountIn(done[p]) /\ level[p] = 1
        /\ Len(pool[p]) = StockIn(t) /\ Len(log[p]) = Logged(t)
        /\ triples[p] \in Vectors(Generated(p))
    BY <1>3 DEF PlaceInv, RefillRounds, Generating, Drawn
  <2>2. /\ StockIn(t) = StockIn(Tag(p)') /\ Logged(t) + 1 = Logged(Tag(p)')
    BY <1>3, <1>7, TagValues
  <2>3. "send" \in SubsIn("cut")
    BY DEF SubsIn, Resharing, Generating
  <2> QED BY <1>4, <1>8, <2>1, <2>2, <2>3 DEF PlaceInv, RefillRounds, Generating, Drawn, Exchanges
<1> HIDE DEF t
<1> QED BY <1>1, <1>2, <1>4, <1>5, <1>6, <1>7, <1>9, <1>10, MoveSync DEF t

(* What the cut opens.                                                     *)
LEMMA CutFacts ==
    ASSUME SyncInv, NEW p \in Parties, Gets(p, "cut")
    PROVE  /\ Size(Tag(p)) = 3 * Cut /\ CutShares(p) \in Vectors(3 * Cut) /\ CutValues(p) \in Vectors(3 * Cut)
           /\ \A i \in 1..(3 * Cut) : i % 3 = 0 => i \div 3 \in 1..Generated(p) /\ i \div 3 \in 1..Cut
<1>1. "cut" \in Resharing \cup Exchanges
  BY DEF Resharing, Generating
<1>2. /\ at[p] = "cut" /\ Readable(NextOf(p), p) /\ ~Ended(p) /\ PlaceInv(p)
      /\ Tag(p)[2] = "cut" /\ Cut \in Nat
  BY <1>1, Gotten, SizeFacts
<1>3. Size(Tag(p)) = 3 * Cut
  BY <1>2, TagValues
<1>4. Generated(p) \in Nat /\ Generated(p) >= Cut /\ triples[p] \in Vectors(Generated(p))
  BY <1>2, RefillFacts DEF PlaceInv, Drawn, RefillRounds, Generating
<1>5. \A i \in 1..(3 * Cut) : i % 3 = 0 => i \div 3 \in 1..Generated(p) /\ i \div 3 \in 1..Cut
  BY <1>2, <1>4
<1>6. CutShares(p) \in Vectors(3 * Cut)
  BY <1>2, <1>4, <1>5, VectorFacts DEF CutShares, Vectors, Errors
<1>7. \A i \in 1..(3 * Cut) : Inbound(p)[i] \in Errors /\ CutShares(p)[i] \in Errors
  BY <1>2, <1>3, <1>6, GotNext DEF Vectors
<1>8. CutValues(p) \in Vectors(3 * Cut)
  <2>1. Either \in Errors
    BY DEF Errors
  <2>2. \A i \in 1..(3 * Cut) : Xor(Inbound(p)[i], CutShares(p)[i]) \in Errors
    BY <1>7, XorFacts
  <2> QED BY <2>1, <2>2 DEF CutValues, Vectors
<1> QED BY <1>3, <1>5, <1>6, <1>8

(* with the cut found right,                                               *)
LEMMA TakeCutSync ==
    ASSUME SyncInv, NEW p \in Parties, TakeCut(p)
    PROVE  SyncInv'
<1> DEFINE t == Tag(p)
<1>1. /\ Gets(p, "cut") /\ log' = [log EXCEPT ![p] = @ \o CutValues(p)]
      /\ GoesTo(p, "pairs") /\ Read(NextOf(p), p)
      /\ UNCHANGED <<heard, flips, level, done, count, triples, astray, zeros, pool, z, shown>>
  BY DEF TakeCut, Opened
<1>2. "cut" \in Resharing \cup Exchanges /\ "pairs" \in Rounds
  BY DEF Rounds, Resharing, Exchanges, Generating
<1>3. /\ at[p] = "cut" /\ Readable(NextOf(p), p) /\ ~Ended(p)
      /\ PartyOK(p) /\ PlaceInv(p) /\ Domains /\ NetTypeOK
      /\ t \in Tags /\ t[1] = done[p] /\ t[2] = "cut" /\ t[3] = 0 /\ done[p] \in Nat
  BY <1>1, <1>2, Gotten
<1>4. /\ at'[p] = "pairs" /\ sub'[p] = "send" /\ log'[p] = log[p] \o CutValues(p)
      /\ heard' = heard /\ flips' = flips /\ level' = level /\ done' = done /\ count' = count
      /\ triples' = triples /\ astray' = astray /\ zeros' = zeros /\ pool' = pool
      /\ z' = z /\ shown' = shown /\ transport' = transport
  BY <1>1, <1>3 DEF GoesTo, Domains, Read
<1>5. \A x \in Parties : x # p => Stays(x)
  BY <1>1, <1>3, <1>4 DEF Stays, Domains, GoesTo
<1>6. Domains'
  BY <1>1, <1>3, <1>4 DEF Domains, GoesTo
<1>7. Tag(p)' = <<done[p], "pairs", 0>> /\ After(t) = <<done[p], "pairs", 0>>
  BY <1>3, <1>4, NextTag DEF After
<1>8. /\ log'[p] \in Seq(Errors) /\ Len(log'[p]) = Len(log[p]) + 3 * Cut
      /\ Generated(p)' = Generated(p)
  <2>1. CutValues(p) \in Vectors(3 * Cut) /\ log[p] \in Seq(Errors) /\ 3 * Cut \in Nat
    BY <1>1, <1>3, CutFacts, SizeFacts DEF PartyOK
  <2> QED BY <1>4, <2>1, LogGrows DEF Generated
<1>9. PartyOK(p)'
  BY <1>2, <1>3, <1>4, <1>8 DEF PartyOK
<1>10. PlaceInv(p)'
  <2>1. /\ done[p] < Evals /\ Refills(done[p]) /\ count[p] = CountIn(done[p]) /\ level[p] = 1
        /\ Len(pool[p]) = StockIn(t) /\ Len(log[p]) = Logged(t)
        /\ triples[p] \in Vectors(Generated(p))
    BY <1>3 DEF PlaceInv, RefillRounds, Generating, Drawn
  <2>2. /\ StockIn(t) = StockIn(Tag(p)') /\ Logged(t) + 3 * Cut = Logged(Tag(p)')
    BY <1>3, <1>7, TagValues, SizeFacts
  <2>3. "send" \in SubsIn("pairs")
    BY DEF SubsIn, Resharing, Generating
  <2> QED BY <1>4, <1>8, <2>1, <2>2, <2>3 DEF PlaceInv, RefillRounds, Generating, Drawn, Exchanges
<1> HIDE DEF t
<1> QED BY <1>1, <1>2, <1>4, <1>5, <1>6, <1>7, <1>9, <1>10, MoveSync DEF t

(* The head of a bucket and its partner are generated triples that the cut *)
(* did not take, and not the same.                                         *)
LEMMA PairFacts ==
    ASSUME NEW c \in Nat \ {0}, NEW k \in 1..(c * (Bucket - 1))
    PROVE  /\ BucketOf(k) \in 1..c
           /\ HeadOf(BucketOf(k)) \in (Cut + 1)..(c * Bucket + Cut)
           /\ PartnerOf(k) \in (Cut + 1)..(c * Bucket + Cut)
           /\ PartnerOf(k) # HeadOf(BucketOf(k))
<1> DEFINE d == Bucket - 1
           j == k - 1
           q == j \div d
           r == j % d
<1>1. Bucket \in Nat /\ d \in Nat \ {0} /\ Cut \in Nat /\ c * d \in Nat /\ j \in Nat /\ j < c * d /\ Bucket = d + 1
  BY SizeFacts
<1>2. j = d * q + r /\ q \in Nat /\ r \in 0..(d - 1)
  <2> HIDE DEF d, j
  <2>1. j = d * q + r /\ q \in Int /\ r \in 0..(d - 1)
    BY <1>1, Z3
  <2>2. q >= 0
    BY <1>1, Z3
  <2> QED BY <2>1, <2>2
<1>3. BucketOf(k) = q + 1
  BY DEF BucketOf
<1>4. \A b : HeadOf(b) = Cut + (b - 1) * Bucket + 1
  BY DEF HeadOf
<1>5. PartnerOf(k) = HeadOf(BucketOf(k)) + r + 1
  BY DEF PartnerOf
<1> HIDE DEF d, j, q, r
<1>6. q < c
  BY <1>1, <1>2, Z3
<1>7. q * Bucket \in Nat /\ q * Bucket + Bucket <= c * Bucket /\ c * Bucket \in Nat
  BY <1>1, <1>2, <1>6, Z3
<1>8. (q + 1) - 1 = q
  BY <1>2
<1>9. HeadOf(BucketOf(k)) = Cut + q * Bucket + 1
  <2>1. HeadOf(q + 1) = Cut + ((q + 1) - 1) * Bucket + 1
    BY <1>4
  <2> QED BY <1>3, <1>8, <2>1
<1> QED BY <1>1, <1>2, <1>3, <1>5, <1>6, <1>7, <1>9

(* So are the heads of all buckets.                                        *)
LEMMA HeadFacts ==
    ASSUME NEW c \in Nat \ {0}, NEW b \in 1..c
    PROVE  HeadOf(b) \in (Cut + 1)..(c * Bucket + Cut)
<1>1. Bucket \in Nat /\ Bucket >= 2 /\ Cut \in Nat
  BY SizeFacts
<1>2. (b - 1) * Bucket \in Nat /\ (b - 1) * Bucket + Bucket <= c * Bucket /\ c * Bucket \in Nat
  BY <1>1, Z3
<1> QED BY <1>1, <1>2 DEF HeadOf

(* What the sacrifice opens, and what must be zero.                        *)
PairErrors(p) == IF astray[p] THEN All(Len(Inbound(p)), Either) ELSE Inbound(p)
Known(p, k) == PairErrors(p)[2 * k] = 0 /\ PairErrors(p)[2 * k - 1] = 0
Kept(p, k) == <<0, Xor(triples[p][HeadOf(BucketOf(k))], triples[p][PartnerOf(k)])>>
ZeroSharings(p) == [k \in Pairs(p) |-> IF Known(p, k) THEN Kept(p, k) ELSE <<Either, Either>>]

(* They have the sizes of the round.                                       *)
LEMMA SacrificeFacts ==
    ASSUME SyncInv, NEW p \in Parties, Gets(p, "pairs")
    PROVE  /\ PairErrors(p) \in Vectors(2 * PairsIn(done[p])) /\ 2 * PairsIn(done[p]) \in Nat
           /\ ZeroSharings(p) \in [Pairs(p) -> Errors \X Errors]
           /\ \A k \in Pairs(p) : /\ HeadOf(BucketOf(k)) \in 1..Generated(p)
                                  /\ PartnerOf(k) \in 1..Generated(p)
                                  /\ 2 * k \in 1..(2 * PairsIn(done[p]))
                                  /\ 2 * k - 1 \in 1..(2 * PairsIn(done[p]))
<1>1. "pairs" \in Resharing \cup Exchanges
  BY DEF Resharing, Generating
<1>2. /\ at[p] = "pairs" /\ Readable(NextOf(p), p) /\ ~Ended(p) /\ PlaceInv(p)
      /\ Tag(p)[2] = "pairs" /\ Tag(p)[1] = done[p] /\ Cut \in Nat /\ Bucket \in Nat
  BY <1>1, Gotten, SizeFacts
<1>3. /\ Size(Tag(p)) = 2 * PairsIn(done[p]) /\ PairsIn(done[p]) \in Nat
      /\ Pairs(p) = 1..PairsIn(done[p]) /\ Generated(p) = CountIn(done[p]) * Bucket + Cut
      /\ CountIn(done[p]) \in Nat \ {0} /\ PairsIn(done[p]) = CountIn(done[p]) * (Bucket - 1)
      /\ triples[p] \in Vectors(Generated(p)) /\ Generated(p) \in Nat
  BY <1>2, TagValues, RefillFacts DEF RefillRounds, Generating, PlaceInv, Drawn, PairsIn
<1>4. PairErrors(p) \in Vectors(2 * PairsIn(done[p]))
  <2>1. /\ Inbound(p) \in Vectors(2 * PairsIn(done[p])) /\ Len(Inbound(p)) = 2 * PairsIn(done[p])
    BY <1>2, <1>3, GotNext
  <2>2. All(2 * PairsIn(done[p]), Either) \in Vectors(2 * PairsIn(done[p]))
    BY DEF All, Vectors, Errors
  <2> QED BY <2>1, <2>2 DEF PairErrors
<1>5. ASSUME NEW k \in Pairs(p)
      PROVE  /\ HeadOf(BucketOf(k)) \in 1..Generated(p)
             /\ PartnerOf(k) \in 1..Generated(p)
             /\ 2 * k \in 1..(2 * PairsIn(done[p])) /\ 2 * k - 1 \in 1..(2 * PairsIn(done[p]))
  <2> DEFINE c == CountIn(done[p])
  <2>1. k \in 1..(c * (Bucket - 1)) /\ c \in Nat \ {0} /\ Generated(p) = c * Bucket + Cut
    BY <1>3
  <2> HIDE DEF c
  <2>2. /\ HeadOf(BucketOf(k)) \in (Cut + 1)..(c * Bucket + Cut)
        /\ PartnerOf(k) \in (Cut + 1)..(c * Bucket + Cut)
    BY <2>1, PairFacts
  <2>3. 2 * k \in 1..(2 * PairsIn(done[p])) /\ 2 * k - 1 \in 1..(2 * PairsIn(done[p]))
    BY <1>3
  <2>4. (Cut + 1)..Generated(p) \subseteq 1..Generated(p)
    BY <1>2, <1>3
  <2> QED BY <2>1, <2>2, <2>3, <2>4
<1>6. ZeroSharings(p) \in [Pairs(p) -> Errors \X Errors]
  <2>1. ASSUME NEW k \in Pairs(p) PROVE Kept(p, k) \in Errors \X Errors
    <3>1. triples[p][HeadOf(BucketOf(k))] \in Errors /\ triples[p][PartnerOf(k)] \in Errors
      BY <1>3, <1>5, <2>1, VectorFacts
    <3>2. 0 \in Errors
      BY DEF Errors
    <3> QED BY <3>1, <3>2, XorFacts DEF Kept
  <2>2. <<Either, Either>> \in Errors \X Errors
    BY DEF Errors
  <2> QED BY <2>1, <2>2 DEF ZeroSharings
<1>7. 2 * PairsIn(done[p]) \in Nat
  BY <1>3
<1> QED BY <1>4, <1>5, <1>6, <1>7

(* with rho and sigma opened,                                              *)
LEMMA TakePairsSync ==
    ASSUME SyncInv, NEW p \in Parties, TakePairs(p)
    PROVE  SyncInv'
<1> DEFINE t == Tag(p)
<1>1. /\ Gets(p, "pairs") /\ log' = [log EXCEPT ![p] = @ \o PairErrors(p)]
      /\ zeros' = [zeros EXCEPT ![p] = ZeroSharings(p)]
      /\ GoesTo(p, "zero") /\ Read(NextOf(p), p)
      /\ UNCHANGED <<heard, flips, level, done, count, triples, astray, pool, z, shown>>
  BY DEF TakePairs, Opened, PairErrors, ZeroSharings, Known, Kept
<1>2. "pairs" \in Resharing \cup Exchanges /\ "zero" \in Rounds
  BY DEF Rounds, Resharing, Exchanges, Generating
<1>3. /\ at[p] = "pairs" /\ Readable(NextOf(p), p) /\ ~Ended(p)
      /\ PartyOK(p) /\ PlaceInv(p) /\ Domains /\ NetTypeOK
      /\ t \in Tags /\ t[1] = done[p] /\ t[2] = "pairs" /\ t[3] = 0 /\ done[p] \in Nat
  BY <1>1, <1>2, Gotten
<1>4. /\ at'[p] = "zero" /\ sub'[p] = "send" /\ log'[p] = log[p] \o PairErrors(p)
      /\ zeros'[p] = ZeroSharings(p)
      /\ heard' = heard /\ flips' = flips /\ level' = level /\ done' = done /\ count' = count
      /\ triples' = triples /\ astray' = astray /\ pool' = pool
      /\ z' = z /\ shown' = shown /\ transport' = transport
  BY <1>1, <1>3 DEF GoesTo, Domains, Read
<1>5. \A x \in Parties : x # p => Stays(x)
  BY <1>1, <1>3, <1>4 DEF Stays, Domains, GoesTo
<1>6. Domains'
  BY <1>1, <1>3, <1>4 DEF Domains, GoesTo
<1>7. Tag(p)' = <<done[p], "zero", 0>> /\ After(t) = <<done[p], "zero", 0>>
  BY <1>3, <1>4, NextTag DEF After
<1>8. /\ log'[p] \in Seq(Errors) /\ Len(log'[p]) = Len(log[p]) + 2 * PairsIn(done[p])
      /\ Generated(p)' = Generated(p) /\ Pairs(p)' = Pairs(p)
      /\ zeros'[p] \in [Pairs(p) -> Errors \X Errors]
  <2>1. /\ PairErrors(p) \in Vectors(2 * PairsIn(done[p])) /\ log[p] \in Seq(Errors)
        /\ 2 * PairsIn(done[p]) \in Nat /\ ZeroSharings(p) \in [Pairs(p) -> Errors \X Errors]
    BY <1>1, <1>3, SacrificeFacts DEF PartyOK
  <2> QED BY <1>4, <2>1, LogGrows DEF Generated, Pairs
<1>9. PartyOK(p)'
  BY <1>2, <1>3, <1>4, <1>8 DEF PartyOK
<1>10. PlaceInv(p)'
  <2>1. /\ done[p] < Evals /\ Refills(done[p]) /\ count[p] = CountIn(done[p]) /\ level[p] = 1
        /\ Len(pool[p]) = StockIn(t) /\ Len(log[p]) = Logged(t)
        /\ triples[p] \in Vectors(Generated(p))
    BY <1>3 DEF PlaceInv, RefillRounds, Generating, Drawn
  <2>2. /\ StockIn(t) = StockIn(Tag(p)') /\ Logged(t) = 1 + 3 * Cut
        /\ Logged(Tag(p)') = 1 + 3 * Cut + 2 * PairsIn(done[p])
    BY <1>3, <1>7, TagValues DEF RefillOpens
  <2>3. "send" \in SubsIn("zero")
    BY DEF SubsIn, Resharing, Generating, Exchanges
  <2> QED BY <1>4, <1>8, <2>1, <2>2, <2>3 DEF PlaceInv, RefillRounds, Generating, Drawn, Exchanges
<1> HIDE DEF t
<1> QED BY <1>1, <1>2, <1>4, <1>5, <1>6, <1>7, <1>9, <1>10, MoveSync DEF t

(* with the sacrifice found right,                                         *)
LEMMA ZeroCheckedSync ==
    ASSUME SyncInv, NEW p \in Parties, ZeroChecked(p)
    PROVE  SyncInv'
<1> DEFINE t == Tag(p)
<1>1. /\ Gets(p, "zero") /\ heard' = [heard EXCEPT ![p] = NoVector]
      /\ GoesTo(p, "views") /\ Read(NextOf(p), p)
      /\ UNCHANGED <<flips, level, done, count, triples, astray, zeros, log, pool, z, shown>>
  BY DEF ZeroChecked, local
<1>2. "zero" \in Resharing \cup Exchanges /\ "views" \in Rounds
  BY DEF Rounds, Resharing, Exchanges, Generating
<1>3. /\ at[p] = "zero" /\ Readable(NextOf(p), p) /\ ~Ended(p)
      /\ PartyOK(p) /\ PlaceInv(p) /\ Domains /\ NetTypeOK
      /\ t \in Tags /\ t[1] = done[p] /\ t[2] = "zero" /\ t[3] = 0 /\ done[p] \in Nat
  BY <1>1, <1>2, Gotten
<1>4. /\ at'[p] = "views" /\ sub'[p] = "send"
      /\ flips' = flips /\ level' = level /\ done' = done /\ count' = count
      /\ triples' = triples /\ astray' = astray /\ zeros' = zeros /\ log' = log /\ pool' = pool
      /\ z' = z /\ shown' = shown /\ transport' = transport
  BY <1>1, <1>3 DEF GoesTo, Domains, Read
<1>5. \A x \in Parties : x # p => Stays(x)
  BY <1>1, <1>3, <1>4 DEF Stays, Domains, GoesTo
<1>6. Domains'
  BY <1>1, <1>3, <1>4 DEF Domains, GoesTo
<1>7. Tag(p)' = <<done[p], "views", 0>> /\ After(t) = <<done[p], "views", 0>>
  BY <1>3, <1>4, NextTag DEF After
<1>8. Generated(p)' = Generated(p) /\ Pairs(p)' = Pairs(p)
  BY <1>4 DEF Generated, Pairs
<1>9. PartyOK(p)'
  BY <1>2, <1>3, <1>4, <1>8 DEF PartyOK
<1>10. PlaceInv(p)'
  <2>1. /\ done[p] < Evals /\ Refills(done[p]) /\ count[p] = CountIn(done[p]) /\ level[p] = 1
        /\ Len(pool[p]) = StockIn(t) /\ Len(log[p]) = Logged(t)
        /\ triples[p] \in Vectors(Generated(p)) /\ zeros[p] \in [Pairs(p) -> Errors \X Errors]
    BY <1>3 DEF PlaceInv, RefillRounds, Generating, Drawn
  <2>2. /\ StockIn(t) = StockIn(Tag(p)') /\ Logged(t) = Logged(Tag(p)')
    BY <1>3, <1>7, TagValues
  <2>3. "send" \in SubsIn("views")
    BY DEF SubsIn, Resharing, Generating, Exchanges
  <2> QED BY <1>4, <1>8, <2>1, <2>2, <2>3 DEF PlaceInv, RefillRounds, Generating, Drawn, Exchanges
<1> HIDE DEF t
<1> QED BY <1>1, <1>2, <1>4, <1>5, <1>6, <1>7, <1>9, <1>10, MoveSync DEF t

(* with the views of a refill agreeing,                                    *)
LEMMA RefilledSync ==
    ASSUME SyncInv, NEW p \in Parties, Refilled(p)
    PROVE  SyncInv'
<1> DEFINE t == Tag(p)
<1>1. /\ Gets(p, "views") /\ pool' = [pool EXCEPT ![p] = @ \o Survivors(p)]
      /\ log' = [log EXCEPT ![p] = NoVector] /\ triples' = [triples EXCEPT ![p] = NoVector]
      /\ zeros' = [zeros EXCEPT ![p] = NoVector] /\ heard' = [heard EXCEPT ![p] = NoVector]
      /\ GoesTo(p, FirstRound(Len(pool[p]) + count[p])) /\ count' = [count EXCEPT ![p] = 0]
      /\ Read(NextOf(p), p) /\ UNCHANGED <<flips, level, done, astray, z, shown>>
  BY DEF Refilled
<1>2. "views" \in Resharing \cup Exchanges /\ "level" \in Rounds
  BY DEF Rounds, Resharing, Exchanges, Generating
<1>3. /\ at[p] = "views" /\ Readable(NextOf(p), p) /\ ~Ended(p)
      /\ PartyOK(p) /\ PlaceInv(p) /\ Domains /\ NetTypeOK
      /\ t \in Tags /\ t[1] = done[p] /\ t[2] = "views" /\ t[3] = 0 /\ done[p] \in Nat
  BY <1>1, <1>2, Gotten
<1> DEFINE c == CountIn(done[p])
<1>4. /\ done[p] < Evals /\ Refills(done[p]) /\ count[p] = c /\ c \in Nat \ {0} /\ level[p] = 1
      /\ Len(pool[p]) = StockAt(done[p]) /\ StockAt(done[p]) + c = Filled(done[p])
      /\ Filled(done[p]) \in Nat /\ Filled(done[p]) >= Levels /\ Filled(done[p]) <= StockLimit
      /\ triples[p] \in Vectors(Generated(p)) /\ Generated(p) = c * Bucket + Cut /\ Generated(p) \in Nat
      /\ pool[p] \in Seq(Errors)
  <2>1. Len(pool[p]) = StockIn(t) /\ level[p] = 1 /\ triples[p] \in Vectors(Generated(p))
    BY <1>3 DEF PlaceInv, RefillRounds, Generating, Drawn
  <2>2. StockIn(t) = StockAt(done[p])
    BY <1>3, TagValues
  <2>3. /\ done[p] < Evals /\ Refills(done[p]) /\ count[p] = c /\ c \in Nat \ {0}
        /\ Generated(p) = c * Bucket + Cut /\ Generated(p) \in Nat
    BY <1>3, RefillFacts DEF RefillRounds
  <2>4. StockAt(done[p]) + c = Filled(done[p])
    BY <2>3 DEF Filled
  <2> QED BY <1>3, <2>1, <2>2, <2>3, <2>4, StockNext, StockBounds DEF PartyOK
<1> HIDE DEF c
<1>5. FirstRound(Len(pool[p]) + count[p]) = "level"
  BY <1>4, BatchFacts DEF FirstRound
<1>6. /\ at'[p] = "level" /\ sub'[p] = "send" /\ pool'[p] = pool[p] \o Survivors(p)
      /\ log'[p] = << >> /\ triples'[p] = NoVector /\ zeros'[p] = NoVector /\ count'[p] = 0
      /\ flips' = flips /\ level' = level /\ done' = done
      /\ astray' = astray /\ z' = z /\ shown' = shown /\ transport' = transport
  BY <1>1, <1>3, <1>5 DEF GoesTo, Domains, Read, NoVector
<1>7. \A x \in Parties : x # p => Stays(x)
  BY <1>1, <1>3, <1>6 DEF Stays, Domains, GoesTo
<1>8. Domains'
  BY <1>1, <1>3, <1>6 DEF Domains, GoesTo
<1>9. Tag(p)' = <<done[p], "level", 1>> /\ After(t) = <<done[p], "level", 1>>
  <2>1. Tag(p)' = <<done[p], "level", 1>>
    BY <1>4, <1>6 DEF Tag
  <2>2. After(t) = <<done[p], "level", 1>>
    BY <1>3 DEF After
  <2> QED BY <2>1, <2>2
<1>10. Survivors(p) \in Vectors(c)
  <2>1. ASSUME NEW b \in 1..c PROVE triples[p][HeadOf(b)] \in Errors
    <3>1. HeadOf(b) \in (Cut + 1)..(c * Bucket + Cut) /\ Cut \in Nat
      BY <1>4, HeadFacts, SizeFacts
    <3>2. HeadOf(b) \in 1..Generated(p)
      BY <1>4, <3>1
    <3> QED BY <1>4, <3>2, VectorFacts
  <2> QED BY <1>4, <2>1 DEF Survivors, Vectors
<1>11. /\ pool'[p] \in Seq(Errors) /\ Len(pool'[p]) = Filled(done[p])
  <2>1. Len(pool[p] \o Survivors(p)) = Len(pool[p]) + c /\ pool[p] \o Survivors(p) \in Seq(Errors)
    BY <1>4, <1>10, LogGrows
  <2> QED BY <1>4, <1>6, <2>1
<1>12. PartyOK(p)'
  <2>1. log'[p] \in Seq(Errors) /\ 0 \in 0..MaxOf(Levels, MinBatch)
    BY <1>6, BatchFacts DEF Batch
  <2> QED BY <1>2, <1>3, <1>4, <1>6, <1>11, <2>1 DEF PartyOK
<1>13. PlaceInv(p)'
  <2>1. /\ StockIn(Tag(p)') = Filled(done[p]) /\ Logged(Tag(p)') = 0
    BY <1>4, <1>9, TagValues
  <2>2. "send" \in SubsIn("level")
    BY DEF SubsIn, Resharing, Generating, Exchanges
  <2>3. Len(log'[p]) = 0
    BY <1>6
  <2> QED BY <1>4, <1>6, <1>11, <2>1, <2>2, <2>3 DEF PlaceInv, RefillRounds, Generating, Drawn, Exchanges
<1>14. GoesTo(p, "level")
  BY <1>1, <1>5
<1> HIDE DEF t
<1> QED BY <1>1, <1>2, <1>6, <1>7, <1>8, <1>9, <1>12, <1>13, <1>14, MoveSync DEF t

(* A sequence without its last item.                                       *)
LEMMA FrontFacts ==
    ASSUME NEW S, NEW s \in Seq(S), NEW n \in Nat, n + 1 = Len(s)
    PROVE  /\ SubSeq(s, 1, n) \in Seq(S) /\ Len(SubSeq(s, 1, n)) = n
           /\ \A i \in 1..n : SubSeq(s, 1, n)[i] = s[i]
<1>1. Len(SubSeq(s, 1, n)) = n /\ \A i \in 1..n : SubSeq(s, 1, n)[i] = s[i]
  OBVIOUS
<1>2. SubSeq(s, 1, n) \in Seq(S)
  BY <1>1
<1> QED BY <1>1, <1>2

(* What a level opens, and what it makes of the triple it takes.           *)
LevelD(p) == Xor(Xor(z[p][1], z[p][2]), Inbound(p)[1])
LevelE(p) == Inbound(p)[2]
LevelZ(p) ==
    IF LevelD(p) = 0 /\ LevelE(p) = 0 THEN <<0, pool[p][Len(pool[p])]>> ELSE <<Either, Either>>

(* What an AND level opens and leaves.                                     *)
LEMMA LevelFacts ==
    ASSUME SyncInv, NEW p \in Parties, Gets(p, "level")
    PROVE  /\ LevelD(p) \in Errors /\ LevelE(p) \in Errors /\ LevelZ(p) \in Errors \X Errors
           /\ <<LevelD(p), LevelE(p)>> \in Vectors(2)
           /\ Len(pool[p]) = Filled(done[p]) - (level[p] - 1) /\ Len(log[p]) = 2 * (level[p] - 1)
           /\ Len(pool[p]) \in Nat \ {0} /\ level[p] \in 1..Levels
           /\ Filled(done[p]) \in Nat /\ done[p] < Evals
<1>1. "level" \in Resharing \cup Exchanges
  BY DEF Resharing, Generating
<1>2. /\ at[p] = "level" /\ Readable(NextOf(p), p) /\ ~Ended(p) /\ PlaceInv(p) /\ PartyOK(p)
      /\ Tag(p)[2] = "level" /\ Tag(p)[1] = done[p] /\ Tag(p)[3] = level[p] /\ done[p] \in Nat
  BY <1>1, Gotten
<1>3. /\ Size(Tag(p)) = 2 /\ StockIn(Tag(p)) = Filled(done[p]) - (level[p] - 1)
      /\ Logged(Tag(p)) = 2 * (level[p] - 1)
  BY <1>2, TagValues
<1>4. Inbound(p)[1] \in Errors /\ Inbound(p)[2] \in Errors
  BY <1>2, <1>3, GotNext
<1>5. z[p][1] \in Errors /\ z[p][2] \in Errors /\ pool[p] \in Seq(Errors) /\ level[p] \in 1..Levels
  BY <1>2 DEF PartyOK
<1>6. LevelD(p) \in Errors /\ LevelE(p) \in Errors
  BY <1>4, <1>5, XorFacts DEF LevelD, LevelE
<1>7. Filled(done[p]) \in Nat /\ Filled(done[p]) >= Levels
  BY <1>2, StockNext
<1>8. Len(pool[p]) = Filled(done[p]) - (level[p] - 1) /\ Len(log[p]) = 2 * (level[p] - 1) /\ done[p] < Evals
  BY <1>2, <1>3 DEF PlaceInv
<1>9. Len(pool[p]) \in Nat \ {0}
  <2> DEFINE F == Filled(done[p])
             l == level[p]
  <2>1. F \in Nat /\ F >= Levels /\ Levels \in Nat /\ l \in 1..Levels /\ Len(pool[p]) = F - (l - 1)
    BY <1>5, <1>7, <1>8, BatchFacts
  <2> HIDE DEF F, l
  <2> QED BY <2>1
<1>10. pool[p][Len(pool[p])] \in Errors
  BY <1>5, <1>9
<1>11. LevelZ(p) \in Errors \X Errors
  BY <1>10 DEF LevelZ, Errors
<1>12. <<LevelD(p), LevelE(p)>> \in Vectors(2)
  BY <1>6 DEF Vectors
<1> QED BY <1>5, <1>6, <1>7, <1>8, <1>9, <1>11, <1>12

(* with an AND level done,                                                 *)
LEMMA TakeLevelSync ==
    ASSUME SyncInv, NEW p \in Parties, TakeLevel(p)
    PROVE  SyncInv'
<1> DEFINE t == Tag(p)
           last == level[p] = Levels
           next == IF last THEN "check" ELSE "level"
<1>1. /\ Gets(p, "level") /\ log' = [log EXCEPT ![p] = @ \o <<LevelD(p), LevelE(p)>>]
      /\ z' = [z EXCEPT ![p] = LevelZ(p)] /\ pool' = [pool EXCEPT ![p] = SubSeq(@, 1, Len(@) - 1)]
      /\ IF level[p] < Levels
           THEN level' = [level EXCEPT ![p] = @ + 1] /\ GoesTo(p, "level")
           ELSE level' = [level EXCEPT ![p] = 1] /\ GoesTo(p, "check")
      /\ Read(NextOf(p), p)
      /\ UNCHANGED <<heard, flips, done, count, triples, astray, zeros, shown>>
  BY DEF TakeLevel, Opened, LevelD, LevelE, LevelZ
<1>2. "level" \in Resharing \cup Exchanges /\ next \in Rounds
  BY DEF Rounds, Resharing, Exchanges, Generating
<1>3. /\ at[p] = "level" /\ Readable(NextOf(p), p) /\ ~Ended(p)
      /\ PartyOK(p) /\ PlaceInv(p) /\ Domains /\ NetTypeOK
      /\ t \in Tags /\ t[1] = done[p] /\ t[2] = "level" /\ t[3] = level[p] /\ done[p] \in Nat
  BY <1>1, <1>2, Gotten
<1>4. /\ LevelZ(p) \in Errors \X Errors /\ <<LevelD(p), LevelE(p)>> \in Vectors(2)
      /\ Len(pool[p]) = Filled(done[p]) - (level[p] - 1) /\ Len(log[p]) = 2 * (level[p] - 1)
      /\ Len(pool[p]) \in Nat \ {0} /\ level[p] \in 1..Levels /\ Filled(done[p]) \in Nat
      /\ done[p] < Evals /\ Levels \in Nat \ {0}
  BY <1>1, LevelFacts, BatchFacts
<1>5. /\ level[p] < Levels <=> ~last
      /\ GoesTo(p, next) /\ level' = [level EXCEPT ![p] = IF last THEN 1 ELSE @ + 1]
  BY <1>1, <1>4
<1> HIDE DEF last
<1>6. /\ at'[p] = next /\ sub'[p] = "send" /\ pool'[p] = SubSeq(pool[p], 1, Len(pool[p]) - 1)
      /\ log'[p] = log[p] \o <<LevelD(p), LevelE(p)>> /\ z'[p] = LevelZ(p)
      /\ level'[p] = IF last THEN 1 ELSE level[p] + 1
      /\ heard' = heard /\ flips' = flips /\ done' = done /\ count' = count
      /\ triples' = triples /\ astray' = astray /\ zeros' = zeros /\ shown' = shown
      /\ transport' = transport
  BY <1>1, <1>3, <1>5 DEF GoesTo, Domains, Read
<1>7. \A x \in Parties : x # p => Stays(x)
  BY <1>1, <1>3, <1>5, <1>6 DEF Stays, Domains, GoesTo
<1>8. Domains'
  BY <1>1, <1>3, <1>5, <1>6, ZenonT(40) DEF Domains, GoesTo
<1>9. /\ Tag(p)' = IF last THEN <<done[p], "check", 0>> ELSE <<done[p], "level", level[p] + 1>>
      /\ After(t) = Tag(p)'
  <2>1. Tag(p)' = IF last THEN <<done[p], "check", 0>> ELSE <<done[p], "level", level[p] + 1>>
    BY <1>6 DEF Tag
  <2>2. After(t) = IF last THEN <<done[p], "check", 0>> ELSE <<done[p], "level", level[p] + 1>>
    <3>1. After(t) = IF t[3] < Levels THEN <<t[1], "level", t[3] + 1>> ELSE <<t[1], "check", 0>>
      BY <1>3 DEF After
    <3> QED BY <1>3, <1>5, <3>1
  <2> QED BY <2>1, <2>2
<1>10. /\ log'[p] \in Seq(Errors) /\ Len(log'[p]) = 2 * level[p]
  <2>1. log[p] \in Seq(Errors)
    BY <1>3 DEF PartyOK
  <2> DEFINE f == <<LevelD(p), LevelE(p)>>
  <2>2. f \in Vectors(2)
    BY <1>4
  <2> HIDE DEF f
  <2>3. log[p] \o f \in Seq(Errors) /\ Len(log[p] \o f) = Len(log[p]) + 2
    BY <2>1, <2>2, LogGrows
  <2> QED BY <1>4, <1>6, <2>3 DEF f
<1>11. pool'[p] \in Seq(Errors) /\ Len(pool'[p]) = Len(pool[p]) - 1 /\ Len(pool'[p]) <= StockLimit
  <2> DEFINE w == pool[p]
             n == Len(w)
  <2>1. w \in Seq(Errors) /\ n <= StockLimit /\ n \in Nat \ {0} /\ pool'[p] = SubSeq(w, 1, n - 1)
    BY <1>3, <1>4, <1>6 DEF PartyOK
  <2>2. StockLimit \in Int
    <3>1. Levels \in Nat /\ MaxOf(Levels, MinBatch) \in Nat
      BY BatchFacts DEF Batch
    <3> QED BY <3>1 DEF StockLimit
  <2> HIDE DEF w
  <2>3. SubSeq(w, 1, n - 1) \in Seq(Errors) /\ Len(SubSeq(w, 1, n - 1)) = n - 1
    <3>1. n - 1 \in Nat /\ (n - 1) + 1 = Len(w)
      BY <2>1
    <3> QED BY <2>1, <3>1, FrontFacts
  <2> HIDE DEF n
  <2>4. n - 1 <= StockLimit
    BY <2>1, <2>2
  <2> QED BY <2>1, <2>3, <2>4 DEF n, w
<1>12. PartyOK(p)'
  <2>1. Generated(p)' = Generated(p)
    BY <1>6 DEF Generated
  <2>2. level'[p] \in 1..Levels
    BY <1>4, <1>5, <1>6, SMTT(30)
  <2> QED BY <1>2, <1>3, <1>4, <1>6, <1>10, <1>11, <2>1, <2>2 DEF PartyOK
<1>13. PlaceInv(p)'
  <2>1. /\ StockIn(Tag(p)') = Filled(done[p]) - level[p] /\ Logged(Tag(p)') = 2 * level[p]
    <3>1. CASE last
      BY <1>4, <1>9, <3>1, TagValues DEF last
    <3>2. CASE ~last
      BY <1>4, <1>9, <3>2, TagValues, SMTT(30)
    <3> QED BY <3>1, <3>2
  <2>2. "send" \in SubsIn("level") /\ "send" \in SubsIn("check")
    BY DEF SubsIn, Resharing, Generating, Exchanges
  <2>3. Len(pool'[p]) = Filled(done[p]) - level[p]
    BY <1>4, <1>11
  <2>4. triples[p] = NoVector
    BY <1>3 DEF PlaceInv, RefillRounds, Generating, Drawn
  <2> QED BY <1>4, <1>6, <1>10, <2>1, <2>2, <2>3, <2>4 DEF PlaceInv, RefillRounds, Generating, Drawn, Exchanges
<1> HIDE DEF t, next
<1> QED BY <1>1, <1>2, <1>5, <1>6, <1>7, <1>8, <1>9, <1>12, <1>13, MoveSync DEF t

(* with the output opened.                                                 *)
LEMMA TakeOpenSync ==
    ASSUME SyncInv, NEW p \in Parties, TakeOpen(p)
    PROVE  SyncInv'
<1> DEFINE t == Tag(p)
<1>1. /\ Gets(p, "open") /\ log' = [log EXCEPT ![p] = @ \o <<LevelD(p)>>]
      /\ shown' = [shown EXCEPT ![p] = LevelD(p)]
      /\ GoesTo(p, "shown") /\ Read(NextOf(p), p)
      /\ UNCHANGED <<heard, flips, level, done, count, triples, astray, zeros, pool, z>>
  BY DEF TakeOpen, Opened, LevelD
<1>2. "open" \in Resharing \cup Exchanges /\ "shown" \in Rounds
  BY DEF Rounds, Resharing, Exchanges, Generating
<1>3. /\ at[p] = "open" /\ Readable(NextOf(p), p) /\ ~Ended(p)
      /\ PartyOK(p) /\ PlaceInv(p) /\ Domains /\ NetTypeOK
      /\ t \in Tags /\ t[1] = done[p] /\ t[2] = "open" /\ t[3] = 0 /\ done[p] \in Nat
  BY <1>1, <1>2, Gotten
<1>4. /\ at'[p] = "shown" /\ sub'[p] = "send" /\ log'[p] = log[p] \o <<LevelD(p)>>
      /\ shown'[p] = LevelD(p)
      /\ heard' = heard /\ flips' = flips /\ level' = level /\ done' = done /\ count' = count
      /\ triples' = triples /\ astray' = astray /\ zeros' = zeros /\ pool' = pool
      /\ z' = z /\ transport' = transport
  BY <1>1, <1>3 DEF GoesTo, Domains, Read
<1>5. \A x \in Parties : x # p => Stays(x)
  BY <1>1, <1>3, <1>4 DEF Stays, Domains, GoesTo
<1>6. Domains'
  BY <1>1, <1>3, <1>4 DEF Domains, GoesTo
<1>7. Tag(p)' = <<done[p], "shown", 0>> /\ After(t) = <<done[p], "shown", 0>>
  BY <1>3, <1>4, NextTag DEF After
<1>8. /\ log'[p] \in Seq(Errors) /\ Len(log'[p]) = Len(log[p]) + 1 /\ shown'[p] \in Errors
      /\ Generated(p)' = Generated(p)
  <2>1. Size(t) = 1
    BY <1>3, TagValues
  <2>2. Inbound(p)[1] \in Errors /\ log[p] \in Seq(Errors)
    BY <1>3, <2>1, GotNext DEF PartyOK
  <2>3. z[p][1] \in Errors /\ z[p][2] \in Errors
    BY <1>3 DEF PartyOK
  <2>4. LevelD(p) \in Errors
    BY <2>2, <2>3, XorFacts DEF LevelD
  <2>5. log[p] \o <<LevelD(p)>> \in Seq(Errors) /\ Len(log[p] \o <<LevelD(p)>>) = Len(log[p]) + 1
    BY <2>2, <2>4
  <2> QED BY <1>4, <2>4, <2>5 DEF Generated
<1>9. PartyOK(p)'
  BY <1>2, <1>3, <1>4, <1>8 DEF PartyOK
<1>10. PlaceInv(p)'
  <2>1. /\ transport = "channel" /\ Opening /\ done[p] > 0 /\ level[p] = 1
        /\ Len(pool[p]) = StockIn(t) /\ Len(log[p]) = Logged(t)
        /\ triples[p] = NoVector
    BY <1>3 DEF PlaceInv, RefillRounds, Generating, Drawn
  <2>2. /\ StockIn(t) = StockIn(Tag(p)') /\ Logged(t) + 1 = Logged(Tag(p)')
    BY <1>3, <1>7, TagValues
  <2>3. "send" \in SubsIn("shown")
    BY DEF SubsIn, Resharing, Generating, Exchanges
  <2> QED BY <1>4, <1>8, <2>1, <2>2, <2>3 DEF PlaceInv, RefillRounds, Generating, Drawn, Exchanges
<1> HIDE DEF t
<1> QED BY <1>1, <1>2, <1>4, <1>5, <1>6, <1>7, <1>9, <1>10, MoveSync DEF t

(* What a party has once a circuit is evaluated.                           *)
LEMMA EvaluatedFacts ==
    ASSUME SyncInv, NEW p \in Parties, Gets(p, "check")
    PROVE  /\ at[p] = "check" /\ sub[p] = "fromNext" /\ Readable(NextOf(p), p) /\ ~Ended(p)
           /\ PartyOK(p) /\ PlaceInv(p) /\ Domains /\ NetTypeOK /\ transport \in {"channel", "tcp"}
           /\ Tag(p) \in Tags /\ Tag(p)[1] = done[p] /\ Tag(p)[2] = "check"
           /\ done[p] \in Nat /\ done[p] < Evals /\ Evals \in Nat /\ done[p] + 1 \in 0..Evals
           /\ level[p] = 1 /\ triples[p] = NoVector
           /\ Len(pool[p]) = StockAt(done[p] + 1) /\ pool[p] \in Seq(Errors)
<1>1. "check" \in Resharing \cup Exchanges
  BY DEF Exchanges
<1>2. /\ at[p] = "check" /\ sub[p] = "fromNext" /\ Readable(NextOf(p), p) /\ ~Ended(p)
      /\ PartyOK(p) /\ PlaceInv(p) /\ Domains /\ NetTypeOK
      /\ Tag(p) \in Tags /\ Tag(p)[1] = done[p] /\ Tag(p)[2] = "check" /\ done[p] \in Nat
  BY <1>1, Gotten
<1>3. done[p] < Evals /\ level[p] = 1 /\ triples[p] = NoVector /\ Len(pool[p]) = StockIn(Tag(p))
  BY <1>2 DEF PlaceInv, Drawn, RefillRounds, Generating
<1>4. Len(pool[p]) = StockAt(done[p] + 1)
  <2>1. StockIn(Tag(p)) = Filled(done[p]) - Levels
    BY <1>2, TagValues
  <2>2. StockAt(done[p] + 1) = Filled(done[p]) - Levels
    BY <1>2, StockNext
  <2> QED BY <1>3, <2>1, <2>2
<1>5. Evals \in Nat /\ done[p] + 1 \in 0..Evals
  <2>1. Evals \in Nat
    BY SizesAssumption
  <2> QED BY <1>2, <1>3, <2>1
<1> QED BY <1>2, <1>3, <1>4, <1>5 DEF PartyOK, NetTypeOK

(* A process goes on with the next circuit, or hands its result over; a    *)
(* thread opens its output.                                                *)
LEMMA EvaluatedGoesOn ==
    ASSUME SyncInv, NEW p \in Parties, Evaluated(p), transport = "tcp" \/ Opening
    PROVE  SyncInv'
<1> DEFINE t == Tag(p)
           e == done[p] + 1
           more == transport = "tcp" /\ e < Evals
           next == IF more THEN FirstRound(StockAt(e)) ELSE IF transport = "tcp" THEN "hand" ELSE "open"
           left == IF more THEN Target(StockAt(e)) ELSE count[p]
<1>1. /\ Gets(p, "check") /\ done' = [done EXCEPT ![p] = @ + 1] /\ log' = [log EXCEPT ![p] = NoVector]
      /\ heard' = [heard EXCEPT ![p] = NoVector] /\ UNCHANGED flips /\ Read(NextOf(p), p)
      /\ UNCHANGED <<level, triples, astray, zeros, pool, z, shown>>
  BY DEF Evaluated
<1>2. /\ at[p] = "check" /\ sub[p] = "fromNext" /\ Readable(NextOf(p), p) /\ ~Ended(p)
      /\ PartyOK(p) /\ PlaceInv(p) /\ Domains /\ NetTypeOK /\ transport \in {"channel", "tcp"}
      /\ t \in Tags /\ t[1] = done[p] /\ t[2] = "check"
      /\ done[p] \in Nat /\ Evals \in Nat /\ e \in 0..Evals /\ e \in Nat /\ e > 0
      /\ level[p] = 1 /\ triples[p] = NoVector /\ Len(pool[p]) = StockAt(e) /\ pool[p] \in Seq(Errors)
  BY <1>1, EvaluatedFacts
<1>3. GoesTo(p, next) /\ count' = [count EXCEPT ![p] = left]
  <2>1. count = [count EXCEPT ![p] = count[p]]
    BY <1>2 DEF Domains
  <2>2. CASE more
    BY <1>2, <2>2 DEF Evaluated
  <2>3. CASE ~more /\ transport = "tcp"
    BY <1>2, <2>1, <2>3 DEF Evaluated
  <2>4. CASE transport # "tcp"
    BY <1>2, <2>1, <2>4 DEF Evaluated
  <2> QED BY <2>2, <2>3, <2>4
<1> DEFINE u == IF more THEN First(e) ELSE <<e, next, 0>>
<1>4. /\ u[1] = e /\ u[2] = next /\ u = <<e, next, IF next = "level" THEN 1 ELSE 0>>
      /\ next \in {"triples", "level", "hand", "open"} /\ After(t) = u
      /\ next \in {"triples", "level"} => more /\ e < Evals
      /\ next = "hand" => transport = "tcp" /\ e = Evals
      /\ next = "open" => transport = "channel" /\ Opening
  <2>1. CASE more
    <3>1. /\ First(e)[2] = FirstRound(StockAt(e)) /\ First(e)[1] = e /\ First(e)[2] \in {"triples", "level"}
          /\ First(e)[3] = IF First(e)[2] = "level" THEN 1 ELSE 0
          /\ First(e) = <<First(e)[1], First(e)[2], First(e)[3]>>
      BY <1>2, FirstFacts, StageFacts
    <3>2. After(t) = First(e)
      BY <1>2, <2>1 DEF After
    <3> QED BY <2>1, <3>1, <3>2
  <2>2. CASE ~more /\ transport = "tcp"
    <3>1. After(t) = <<e, "hand", 0>>
      BY <1>2, <2>2 DEF After
    <3> QED BY <1>2, <2>2, <3>1
  <2>3. CASE transport # "tcp"
    <3>1. After(t) = <<e, "open", 0>> /\ Opening
      BY <1>2, <2>3 DEF After
    <3> QED BY <1>2, <2>3, <3>1
  <2> QED BY <2>1, <2>2, <2>3
<1>5. next = "triples" => Refills(e) /\ left = CountIn(e)
  BY <1>4 DEF FirstRound, Refills, CountIn
<1>6. next = "level" => ~Refills(e) /\ Filled(e) = StockAt(e)
  <2>1. StockAt(e) \in Nat
    BY <1>2, StockFacts
  <2> QED BY <1>4, <2>1 DEF FirstRound, Refills, Filled
<1>7. left \in 0..Batch
  <2>1. count[p] \in 0..Batch
    BY <1>2 DEF PartyOK, Batch
  <2>2. StockAt(e) \in Nat
    BY <1>2, StockFacts
  <2>3. Target(StockAt(e)) \in 1..Batch /\ Batch \in Nat
    BY <2>2, BatchFacts
  <2> QED BY <2>1, <2>3
<1> HIDE DEF next, more, left, u
<1>8. /\ at'[p] = next /\ sub'[p] = "send" /\ done'[p] = e /\ log'[p] = << >> /\ count'[p] = left
      /\ level' = level /\ triples' = triples /\ astray' = astray /\ zeros' = zeros /\ pool' = pool
      /\ z' = z /\ shown' = shown /\ transport' = transport /\ flips' = flips
  BY <1>1, <1>2, <1>3 DEF GoesTo, Domains, Read, NoVector
<1>9. \A x \in Parties : x # p => Stays(x)
  BY <1>1, <1>2, <1>3, <1>8 DEF Stays, Domains, GoesTo
<1>10. Domains'
  BY <1>1, <1>2, <1>3, <1>8 DEF Domains, GoesTo
<1>11. Tag(p)' = u
  BY <1>2, <1>4, <1>8 DEF Tag
<1>12. PartyOK(p)'
  <2>1. next \in Rounds
    BY <1>4 DEF Rounds, Resharing, Generating
  <2>2. log'[p] \in Seq(Errors)
    BY <1>8
  <2>3. left \in 0..MaxOf(Levels, MinBatch)
    BY <1>7 DEF Batch
  <2> HIDE DEF e
  <2> QED BY <1>2, <1>8, <2>1, <2>2, <2>3 DEF PartyOK
<1>13. PlaceInv(p)'
  <2>1. StockIn(u) = StockAt(e) /\ Logged(u) = 0
    <3>1. CASE next = "level"
      <4>0. StockAt(e) \in Nat
        BY <1>2, StockFacts
      <4>1. u[3] = 1 /\ u[2] = "level" /\ u[1] = e /\ StockAt(e) \in Nat
        BY <1>4, <3>1, <4>0
      <4>2. StockIn(u) = Filled(e) - (1 - 1) /\ Logged(u) = 2 * (1 - 1)
        BY <4>1, TagValues
      <4> QED BY <1>6, <3>1, <4>1, <4>2
    <3>2. CASE next # "level"
      BY <1>4, <3>2, TagValues
    <3> QED BY <3>1, <3>2
  <2>2. "send" \in SubsIn(next)
    BY <1>4 DEF SubsIn, Resharing, Generating, Exchanges
  <2>3. Len(log'[p]) = 0
    BY <1>8
  <2> HIDE DEF e
  <2> QED BY <1>2, <1>4, <1>5, <1>8, <1>11, <2>1, <2>2, <2>3
          DEF PlaceInv, RefillRounds, Generating, Drawn, Exchanges
<1>14. next \in Rounds /\ "check" \in Resharing \cup Exchanges
  BY <1>4 DEF Rounds, Resharing, Generating, Exchanges
<1> HIDE DEF t, e
<1> QED BY <1>1, <1>3, <1>4, <1>8, <1>9, <1>10, <1>11, <1>12, <1>13, <1>14, MoveSync DEF t

-----------------------------------------------------------------------------
(* Ending. *)

(* What remains to be shown when a party ends.                             *)
LEMMA EndSync ==
    ASSUME SyncInv, NEW p \in Parties, NEW how \in {"done", "aborted"}, ~Ended(p), Ends(p, how),
           Domains', \A x \in Parties : x # p => Stays(x), PartyOK(p)', PlaceInv(p)',
           \/ ~Complete(p)'
           \/ Readable(NextOf(p), p) /\ sub[p] = "fromNext" /\ Tag(p)' = After(Tag(p))
    PROVE  SyncInv'
<1>1. /\ NetTypeOK /\ Domains /\ flips \in 0..MaxFlips
  BY TypeParts DEF SyncInv, Typed
<1>2. at'[p] = how /\ sub'[p] = "send" /\ Leave(p) /\ flips' = flips
  BY <1>1 DEF Ends, Domains
<1>3. Ended(p)'
  BY <1>2 DEF Ended
<1>4. transport' = transport /\ reset' \subseteq SUBSET Parties
  <2> DEFINE R == {{p, q} : q \in {r \in Parties \ {p} : wire[<<r, p>>] # << >>}}
  <2>1. R \subseteq SUBSET Parties /\ reset \subseteq SUBSET Parties
    <3>1. ASSUME NEW s \in R PROVE s \in SUBSET Parties
      <4>1. PICK q \in Parties : s = {p, q}
        OBVIOUS
      <4> QED BY <4>1
    <3> QED BY <1>1, <3>1 DEF NetTypeOK
  <2>2. transport' = transport /\ (reset' = reset \cup R \/ reset' = reset)
    BY <1>2 DEF Leave
  <2> HIDE DEF R
  <2> QED BY <2>1, <2>2
<1>5. \A x \in Parties : x # p => /\ at'[x] = at[x] /\ done'[x] = done[x]
                                  /\ level'[x] = level[x] /\ sub'[x] = sub[x]
  BY DEF Stays
<1>6. OrderInv'
  BY <1>2, <1>3, <1>5, OrderEnds
<1> QED BY <1>1, <1>2, <1>4, <1>6, SyncFrom

(* A party may always abort.                                               *)
LEMMA AbortSync ==
    ASSUME SyncInv, NEW p \in Parties, ~Ended(p), Ends(p, "aborted"), UNCHANGED local
    PROVE  SyncInv'
<1>1. /\ NetTypeOK /\ Domains /\ PartyOK(p)
  BY TypeParts DEF SyncInv, Typed
<1>2. /\ at'[p] = "aborted" /\ sub'[p] = "send" /\ at' = [at EXCEPT ![p] = "aborted"]
      /\ sub' = [sub EXCEPT ![p] = "send"] /\ heard' = [heard EXCEPT ![p] = NoVector]
      /\ level' = level /\ done' = done /\ count' = count /\ triples' = triples
      /\ astray' = astray /\ zeros' = zeros /\ log' = log /\ pool' = pool
      /\ z' = z /\ shown' = shown
  BY <1>1 DEF Ends, local, Domains
<1>3. \A x \in Parties : x # p => Stays(x)
  BY <1>1, <1>2 DEF Stays, Domains
<1>4. Domains'
  BY <1>1, <1>2 DEF Domains
<1>5. PartyOK(p)'
  BY <1>1, <1>2 DEF PartyOK, Generated
<1>6. PlaceInv(p)'
  BY <1>2 DEF PlaceInv, SubsIn, RefillRounds, Drawn, Generating, Exchanges, Resharing
<1>7. ~Complete(p)'
  BY <1>2 DEF Complete
<1> QED BY <1>3, <1>4, <1>5, <1>6, <1>7, EndSync

(* A party that finds its checks failed, or a neighbour gone, aborts.      *)
LEMMA FailsSync ==
    ASSUME SyncInv, NEW p \in Parties, CutFails(p) \/ ZeroFails(p) \/ ViewsFail(p) \/ Cascade(p) \/ SendFails(p)
    PROVE  SyncInv'
<1>1. Ends(p, "aborted") /\ UNCHANGED local
  BY DEF CutFails, ZeroFails, ViewsFail, Cascade, SendFails
<1>2. ~Ended(p)
  BY DEF CutFails, ZeroFails, ViewsFail, Cascade, SendFails, Gets, Ended
<1> QED BY <1>1, <1>2, AbortSync

(* A thread that does not open its output returns it.                      *)
LEMMA EvaluatedReturns ==
    ASSUME SyncInv, NEW p \in Parties, Evaluated(p), ~(transport = "tcp" \/ Opening)
    PROVE  SyncInv'
<1> DEFINE t == Tag(p)
           e == done[p] + 1
<1>1. /\ Gets(p, "check") /\ done' = [done EXCEPT ![p] = @ + 1] /\ log' = [log EXCEPT ![p] = NoVector]
      /\ Ends(p, "done") /\ UNCHANGED <<level, count, triples, astray, zeros, pool, z, shown>>
  BY DEF Evaluated
<1>2. /\ at[p] = "check" /\ sub[p] = "fromNext" /\ Readable(NextOf(p), p) /\ ~Ended(p)
      /\ PartyOK(p) /\ PlaceInv(p) /\ Domains /\ NetTypeOK /\ transport = "channel"
      /\ t \in Tags /\ t[1] = done[p] /\ t[2] = "check"
      /\ done[p] \in Nat /\ e \in 0..Evals /\ e > 0
      /\ level[p] = 1 /\ triples[p] = NoVector /\ Len(pool[p]) = StockAt(e) /\ pool[p] \in Seq(Errors)
  BY <1>1, EvaluatedFacts
<1>3. /\ at'[p] = "done" /\ sub'[p] = "send" /\ done'[p] = e /\ log'[p] = << >>
      /\ at' = [at EXCEPT ![p] = "done"] /\ sub' = [sub EXCEPT ![p] = "send"]
      /\ heard' = [heard EXCEPT ![p] = NoVector]
      /\ count' = count /\ level' = level /\ triples' = triples /\ astray' = astray /\ zeros' = zeros
      /\ pool' = pool /\ z' = z /\ shown' = shown /\ transport' = transport
  BY <1>1, <1>2 DEF Ends, Leave, Domains, NoVector
<1>4. \A x \in Parties : x # p => Stays(x)
  BY <1>1, <1>2, <1>3 DEF Stays, Domains
<1>5. Domains'
  BY <1>1, <1>2, <1>3 DEF Domains
<1>6. Tag(p)' = <<e, "done", 0>> /\ After(t) = <<e, "done", 0>>
  <2>1. Tag(p)' = <<e, "done", 0>>
    BY <1>3, NextTag
  <2>2. After(t) = <<e, "done", 0>>
    BY <1>2 DEF After
  <2> QED BY <2>1, <2>2
<1>7. PartyOK(p)'
  <2>1. log'[p] \in Seq(Errors)
    BY <1>3
  <2> HIDE DEF e
  <2> QED BY <1>2, <1>3, <2>1 DEF PartyOK
<1>8. PlaceInv(p)'
  <2>1. StockIn(Tag(p)') = StockAt(e) /\ Logged(Tag(p)') = 0
    BY <1>6, TagValues
  <2>2. "send" \in SubsIn("done")
    BY DEF SubsIn, Resharing, Generating, Exchanges
  <2>3. Len(log'[p]) = 0
    BY <1>3
  <2> HIDE DEF e
  <2> QED BY <1>2, <1>3, <2>1, <2>2, <2>3 DEF PlaceInv, RefillRounds, Generating, Drawn, Exchanges
<1> HIDE DEF e
<1> QED BY <1>1, <1>2, <1>4, <1>5, <1>6, <1>7, <1>8, EndSync

(* A thread that has checked the word it opened returns it.                *)
LEMMA OpensWordsSync ==
    ASSUME SyncInv, NEW p \in Parties, OpensWords(p)
    PROVE  SyncInv'
<1> DEFINE t == Tag(p)
<1>1. /\ Gets(p, "shown") /\ log' = [log EXCEPT ![p] = NoVector]
      /\ Ends(p, "done") /\ UNCHANGED <<level, done, count, triples, astray, zeros, pool, z, shown>>
  BY DEF OpensWords
<1>2. "shown" \in Resharing \cup Exchanges
  BY DEF Exchanges
<1>3. /\ at[p] = "shown" /\ sub[p] = "fromNext" /\ Readable(NextOf(p), p) /\ ~Ended(p)
      /\ PartyOK(p) /\ PlaceInv(p) /\ Domains /\ NetTypeOK
      /\ t \in Tags /\ t[1] = done[p] /\ t[2] = "shown" /\ done[p] \in Nat
  BY <1>1, <1>2, Gotten
<1>4. /\ transport = "channel" /\ Opening /\ done[p] > 0 /\ level[p] = 1 /\ triples[p] = NoVector
      /\ Len(pool[p]) = StockIn(t)
  BY <1>3 DEF PlaceInv, RefillRounds, Generating, Drawn
<1>5. /\ at'[p] = "done" /\ sub'[p] = "send" /\ done' = done /\ log'[p] = << >>
      /\ at' = [at EXCEPT ![p] = "done"] /\ sub' = [sub EXCEPT ![p] = "send"]
      /\ heard' = [heard EXCEPT ![p] = NoVector]
      /\ count' = count /\ level' = level /\ triples' = triples /\ astray' = astray /\ zeros' = zeros
      /\ pool' = pool /\ z' = z /\ shown' = shown /\ transport' = transport
  BY <1>1, <1>3 DEF Ends, Leave, Domains, NoVector
<1>6. \A x \in Parties : x # p => Stays(x)
  BY <1>1, <1>3, <1>5 DEF Stays, Domains
<1>7. Domains'
  BY <1>1, <1>3, <1>5 DEF Domains
<1>8. Tag(p)' = <<done[p], "done", 0>> /\ After(t) = <<done[p], "done", 0>>
  <2>1. Tag(p)' = <<done[p], "done", 0>>
    BY <1>5, NextTag, SMTT(30)
  <2>2. After(t) = <<done[p], "done", 0>>
    BY <1>3 DEF After
  <2> QED BY <2>1, <2>2
<1>9. PartyOK(p)'
  <2>1. log'[p] \in Seq(Errors) /\ Generated(p)' = Generated(p)
    BY <1>5 DEF Generated
  <2> QED BY <1>3, <1>5, <2>1 DEF PartyOK
<1>10. PlaceInv(p)'
  <2>1. StockIn(Tag(p)') = StockIn(t) /\ Logged(Tag(p)') = 0
    BY <1>3, <1>8, TagValues
  <2>2. "send" \in SubsIn("done")
    BY DEF SubsIn, Resharing, Generating, Exchanges
  <2>3. Len(log'[p]) = 0
    BY <1>5
  <2> QED BY <1>4, <1>5, <2>1, <2>2, <2>3 DEF PlaceInv, RefillRounds, Generating, Drawn, Exchanges
<1> QED BY <1>1, <1>3, <1>6, <1>7, <1>8, <1>9, <1>10, EndSync

(* A process that has handed its result over, or compared what it was      *)
(* handed, ends.                                                           *)
LEMMA HandedSync ==
    ASSUME SyncInv, NEW p \in Parties, at[p] = "hand", NEW how \in {"done", "aborted"},
           Ends(p, how), UNCHANGED local
    PROVE  SyncInv'
<1> DEFINE t == Tag(p)
<1>1. /\ NetTypeOK /\ Domains /\ PartyOK(p) /\ PlaceInv(p) /\ ~Ended(p)
  BY TypeParts DEF SyncInv, Typed, Ended
<1>2. CASE how = "aborted"
  BY <1>1, <1>2, AbortSync
<1>3. CASE how = "done"
  <2>1. /\ transport = "tcp" /\ done[p] = Evals /\ level[p] = 1 /\ triples[p] = NoVector
        /\ Len(pool[p]) = StockIn(t) /\ Len(log[p]) = Logged(t) /\ t[1] = done[p] /\ t[2] = "hand"
    BY <1>1, TagFacts DEF PlaceInv, RefillRounds, Generating, Drawn
  <2>2. /\ at'[p] = "done" /\ sub'[p] = "send" /\ at' = [at EXCEPT ![p] = "done"]
        /\ sub' = [sub EXCEPT ![p] = "send"] /\ heard' = [heard EXCEPT ![p] = NoVector]
        /\ level' = level /\ done' = done /\ count' = count /\ triples' = triples
        /\ astray' = astray /\ zeros' = zeros /\ log' = log /\ pool' = pool
        /\ z' = z /\ shown' = shown /\ transport' = transport
    BY <1>1, <1>3 DEF Ends, local, Domains, Leave
  <2>3. \A x \in Parties : x # p => Stays(x)
    BY <1>1, <2>2 DEF Stays, Domains
  <2>4. Domains'
    BY <1>1, <2>2 DEF Domains
  <2>5. PartyOK(p)'
    BY <1>1, <2>2 DEF PartyOK, Generated
  <2>6. PlaceInv(p)'
    <3>1. Tag(p)' = <<done[p], "done", 0>>
      BY <2>2, NextTag
    <3>2. StockIn(Tag(p)') = StockIn(t) /\ Logged(Tag(p)') = Logged(t)
      BY <2>1, <3>1, TagValues
    <3>3. "send" \in SubsIn("done") /\ Evals > 0
      BY BatchFacts DEF SubsIn, Resharing, Generating, Exchanges
    <3> HIDE DEF t
    <3> QED BY <2>1, <2>2, <3>2, <3>3 DEF PlaceInv, RefillRounds, Generating, Drawn, Exchanges
  <2>7. ~Complete(p)'
    BY <2>1, <2>2 DEF Complete
  <2> QED BY <1>1, <2>3, <2>4, <2>5, <2>6, <2>7, EndSync
<1> QED BY <1>2, <1>3

(* A party that has handed its components over leaves nobody behind;       *)
LEMMA ExitSync ==
    ASSUME SyncInv, NEW p \in Parties, Exit(p)
    PROVE  SyncInv'
<1>1. Ends(p, "done") /\ UNCHANGED local /\ at[p] = "hand"
  BY SubFacts DEF Exit
<1> QED BY <1>1, HandedSync

(* nor does party 0 when it has compared them.                             *)
LEMMA ReconstructSync ==
    ASSUME SyncInv, Reconstruct
    PROVE  SyncInv'
<1> DEFINE how == IF CopiesAgree(Incoming(1, 0).body, Incoming(2, 0).body) THEN "done" ELSE "aborted"
<1>1. 0 \in Parties /\ at[0] = "hand" /\ Ends(0, how) /\ UNCHANGED local /\ how \in {"done", "aborted"}
  BY DEF Reconstruct, Parties
<1> HIDE DEF how
<1> QED BY <1>1, HandedSync

-----------------------------------------------------------------------------
(* Between the parties. *)

(* A message that is written is still on its way, unless its reader has    *)
(* gone.                                                                   *)
LEMMA WriterSync ==
    ASSUME SyncInv, NEW l \in Links, Writer(l)
    PROVE  SyncInv'
<1> DEFINE a == l[1]
           b == l[2]
<1>1. a \in Parties /\ b \in Parties /\ a # b /\ l = <<a, b>>
  BY DEF Links
<1>2. /\ queued[l] # << >> /\ queued' = [queued EXCEPT ![l] = Tail(@)]
      /\ IF b \in gone
           THEN reset' = reset \cup {{a, b}} /\ wire' = wire
           ELSE wire' = [wire EXCEPT ![l] = Append(@, Head(queued[l]))] /\ reset' = reset
      /\ transport' = transport /\ gone' = gone
      /\ UNCHANGED <<at, sub, heard, flips, local>>
  BY DEF Writer, Write, Extended
<1>3. OrderInv /\ NetTypeOK /\ Domains /\ flips \in 0..MaxFlips /\ \A x \in Parties : PartyOK(x) /\ PlaceInv(x)
  BY TypeParts DEF SyncInv, Typed
<1>4. transport = "tcp"
  BY <1>2, <1>3 DEF OrderInv, NetTypeOK
<1>5. \A x : Stays(x) /\ Domains'
  BY <1>2, <1>3 DEF Stays, local, Domains
<1>6. \A x \in Parties : PartyOK(x)' /\ PlaceInv(x)'
  BY <1>2, <1>3, <1>5, PartyKept
<1>7. /\ \A x : Ended(x)' = Ended(x) /\ Complete(x)' = Complete(x)
      /\ \A x, y : ToSend(x, y)' = ToSend(x, y) /\ ToRead(x, y)' = ToRead(x, y)
  <2> SUFFICES ASSUME NEW x
               PROVE  /\ Ended(x)' = Ended(x) /\ Complete(x)' = Complete(x)
                      /\ \A y : ToSend(x, y)' = ToSend(x, y) /\ ToRead(x, y)' = ToRead(x, y)
    OBVIOUS
  <2>1. at'[x] = at[x] /\ done'[x] = done[x] /\ level'[x] = level[x] /\ sub'[x] = sub[x]
    BY <1>5 DEF Stays
  <2> QED BY <1>2, <2>1, PlaceKept
<1>8. /\ wire \in [Links -> Seq(Messages)] /\ queued \in [Links -> Seq(Messages)]
  BY <1>3 DEF OrderInv
<1>9. /\ Head(queued[l]) \in Messages /\ Tail(queued[l]) \in Seq(Messages)
      /\ wire[l] \in Seq(Messages) /\ queued[l] \in Seq(Messages)
      /\ Append(wire[l], Head(queued[l])) \in Seq(Messages)
  BY <1>2, <1>8
<1>10. wire' \in [Links -> Seq(Messages)] /\ queued' \in [Links -> Seq(Messages)]
  BY <1>2, <1>8, <1>9
<1>11. ASSUME NEW x \in Parties, NEW y \in Parties, x # y, <<x, y>> # l PROVE Msgs(x, y)' = Msgs(x, y)
  <2>1. <<x, y>> \in Links
    BY <1>11, LinkFacts
  <2>2. wire'[<<x, y>>] = wire[<<x, y>>] /\ queued'[<<x, y>>] = queued[<<x, y>>]
    BY <1>2, <1>8, <1>11, <2>1
  <2> QED BY <2>2 DEF Msgs
<1>12. /\ b \notin gone => Msgs(a, b)' = Msgs(a, b)
       /\ \A i \in DOMAIN Msgs(a, b)' : \E j \in DOMAIN Msgs(a, b) : Msgs(a, b)'[i] = Msgs(a, b)[j]
  <2> DEFINE u == wire[l]
             v == queued[l]
  <2>1. u \in Seq(Messages) /\ v \in Seq(Messages) /\ v # << >>
    BY <1>2, <1>9
  <2>2. queued'[l] = Tail(v) /\ wire'[l] = IF b \in gone THEN u ELSE Append(u, Head(v))
    BY <1>2, <1>8
  <2>3. Msgs(a, b) = u \o v /\ Msgs(a, b)' = wire'[l] \o queued'[l]
    BY <1>1 DEF Msgs
  <2> HIDE DEF u, v
  <2>4. Append(u, Head(v)) \o Tail(v) = u \o v
    BY <2>1
  <2>5. \A i \in DOMAIN (u \o Tail(v)) : \E j \in DOMAIN (u \o v) : (u \o Tail(v))[i] = (u \o v)[j]
    <3> SUFFICES ASSUME NEW i \in DOMAIN (u \o Tail(v))
                 PROVE  \E j \in DOMAIN (u \o v) : (u \o Tail(v))[i] = (u \o v)[j]
      OBVIOUS
    <3>1. CASE i <= Len(u)
      <4>1. i \in DOMAIN (u \o v) /\ (u \o Tail(v))[i] = (u \o v)[i]
        BY <2>1, <3>1
      <4> QED BY <4>1
    <3>2. CASE ~(i <= Len(u))
      <4>1. i + 1 \in DOMAIN (u \o v) /\ (u \o Tail(v))[i] = (u \o v)[i + 1]
        BY <2>1, <3>2
      <4> QED BY <4>1
    <3> QED BY <3>1, <3>2
  <2>6. CASE b \in gone
    BY <2>2, <2>3, <2>5, <2>6
  <2>7. CASE b \notin gone
    BY <2>2, <2>3, <2>4, <2>7
  <2> QED BY <2>6, <2>7
<1>13. ASSUME NEW x \in Parties, NEW y \in Parties, x # y PROVE LinkInv(x, y)'
  <2>1. ~Ended(y)' => Msgs(x, y)' = Msgs(x, y)
    <3>1. ~Ended(y) => y \notin gone
      BY <1>3 DEF OrderInv
    <3>2. CASE <<x, y>> = l
      BY <1>7, <1>12, <1>13, <3>1, <3>2
    <3>3. CASE <<x, y>> # l
      BY <1>11, <1>13, <3>3
    <3> QED BY <3>2, <3>3
  <2> QED BY <1>2, <1>3, <1>7, <1>13, <2>1, LinkKept
<1>14. ASSUME NEW x \in Parties, NEW y \in Parties, x # y, NEW i \in DOMAIN Msgs(x, y)'
       PROVE  Msgs(x, y)'[i] \in MessagesIn(Msgs(x, y)'[i].tag)
  <2>1. \A j \in DOMAIN Msgs(x, y) : Msgs(x, y)[j] \in MessagesIn(Msgs(x, y)[j].tag)
    BY <1>3, <1>14 DEF OrderInv
  <2>2. \E j \in DOMAIN Msgs(x, y) : Msgs(x, y)'[i] = Msgs(x, y)[j]
    <3>1. CASE <<x, y>> = l
      BY <1>1, <1>12, <1>14, <3>1
    <3>2. CASE <<x, y>> # l
      BY <1>11, <1>14, <3>2
    <3> QED BY <3>1, <3>2
  <2> QED BY <2>1, <2>2
<1>15. gone' = {x \in Parties : Ended(x)'}
  BY <1>2, <1>3, <1>7 DEF OrderInv
<1>16. OrderInv'
  BY <1>2, <1>4, <1>10, <1>13, <1>14, <1>15 DEF OrderInv
<1>17. reset' \subseteq SUBSET Parties
  BY <1>1, <1>2, <1>3 DEF NetTypeOK
<1>18. flips' = flips
  BY <1>2
<1> HIDE DEF a
<1> QED BY <1>1, <1>2, <1>3, <1>5, <1>6, <1>16, <1>17, <1>18, SyncFrom

(* Parties that have all returned have evaluated equally many circuits.    *)
LEMMA AllDone ==
    ASSUME SyncInv, transport = "channel", \A p \in Parties : at[p] = "done"
    PROVE  \A p, q \in Parties : done[p] = done[q]
<1> SUFFICES ASSUME NEW p \in Parties, NEW q \in Parties, p # q PROVE done[p] = done[q]
  OBVIOUS
<1>1. ASSUME NEW x \in Parties, NEW y \in Parties, x # y PROVE done[y] <= done[x]
  <2>1. LinkInv(x, y)
    BY <1>1 DEF SyncInv, OrderInv
  <2>2. Complete(x) /\ Complete(y)
    BY <1>1 DEF Complete
  <2>3. ~HasSent(x, y) /\ ~HasRead(y, x)
    BY <1>1, SubFacts DEF HasSent, HasRead, Ended
  <2>4. /\ Tag(x) = <<done[x], "done", 0>> /\ Tag(y) = <<done[y], "done", 0>>
        /\ done[x] \in Nat /\ done[y] \in Nat
    <3>1. \A v \in Parties : done[v] \in Nat /\ at[v] = "done"
      BY TagFacts
    <3> QED BY <1>1, <3>1 DEF Tag
  <2>5. ToSend(x, y) = Tag(x) /\ ToRead(y, x) = Tag(y)
    BY <2>3, <2>4 DEF ToSend, ToRead, Due, NextExchange, Generating
  <2>6. NotAfter(Tag(y), Tag(x))
    BY <2>1, <2>2, <2>5 DEF LinkInv
  <2> QED BY <2>4, <2>6 DEF NotAfter
<1>2. done[p] \in Nat /\ done[q] \in Nat
  BY TagFacts
<1> QED BY <1>1, <1>2

(* Everyone starts an evaluation in its first round, with nothing on the   *)
(* wires.                                                                  *)
Fresh ==
    /\ \E e \in 0..Evals : \A p \in Parties : Tag(p) = First(e) /\ ~Ended(p) /\ sub[p] = "send"
    /\ wire = [l \in Links |-> << >>] /\ queued = [l \in Links |-> << >>] /\ gone = {} /\ reset = {}

(* New wires are in order.                                                 *)
LEMMA FreshOrder == Fresh => OrderInv
<1> SUFFICES ASSUME NEW e \in 0..Evals,
                    \A p \in Parties : Tag(p) = First(e) /\ ~Ended(p) /\ sub[p] = "send",
                    wire = [l \in Links |-> << >>], queued = [l \in Links |-> << >>], gone = {}, reset = {}
             PROVE  OrderInv
  BY DEF Fresh
<1>1. << >> \in Seq(Messages)
  OBVIOUS
<1>2. wire \in [Links -> Seq(Messages)] /\ queued \in [Links -> Seq(Messages)]
  BY <1>1
<1>3. ASSUME NEW q \in Parties, NEW p \in Parties, q # p
      PROVE  Msgs(q, p) = << >> /\ LinkInv(q, p)
  <2>1. Msgs(q, p) = << >>
    <3>1. wire[<<q, p>>] = << >> /\ queued[<<q, p>>] = << >>
      BY <1>3, LinkFacts
    <3> QED BY <3>1 DEF Msgs
  <2>2. ToSend(q, p) = Due(q, p, First(e)) /\ ToRead(p, q) = Due(q, p, First(e))
    BY <1>3 DEF ToSend, ToRead, HasSent, HasRead
  <2>3. Due(q, p, First(e)) \in Stages
    BY <1>3, FirstFacts, DueFacts
  <2>4. NotAfter(Due(q, p, First(e)), Due(q, p, First(e)))
    BY <2>3, StageFacts, OrderFacts
  <2> QED BY <2>1, <2>2, <2>4 DEF LinkInv
<1>4. gone = {p \in Parties : Ended(p)}
  OBVIOUS
<1> QED BY <1>2, <1>3, <1>4 DEF OrderInv

(* The state of a party that starts an evaluation.                         *)
Starts(p, e) ==
    /\ at[p] = FirstRound(StockAt(e)) /\ sub[p] = "send" /\ done[p] = e /\ e < Evals /\ level[p] = 1
    /\ count[p] = Target(StockAt(e)) /\ triples[p] = NoVector /\ log[p] = NoVector
    /\ Len(pool[p]) = StockAt(e)

StartsWell ==
    \A p \in Parties, e \in 0..Evals :
        Starts(p, e) => PlaceInv(p) /\ Tag(p) = First(e) /\ ~Ended(p) /\ count[p] \in 0..Batch

(* A party at the start of an evaluation has what belongs there.           *)
LEMMA StartFacts == StartsWell
<1> SUFFICES ASSUME NEW p \in Parties, NEW e \in 0..Evals, Starts(p, e)
             PROVE  PlaceInv(p) /\ Tag(p) = First(e) /\ ~Ended(p) /\ count[p] \in 0..Batch
  BY DEF StartsWell
<1>1. /\ First(e)[1] = e /\ First(e)[2] = FirstRound(StockAt(e))
      /\ First(e) = <<First(e)[1], First(e)[2], First(e)[3]>>
      /\ First(e)[2] \in {"triples", "level"}
      /\ First(e)[3] = IF First(e)[2] = "level" THEN 1 ELSE 0
  BY FirstFacts, StageFacts
<1>2. Tag(p) = First(e)
  BY <1>1 DEF Starts, Tag
<1>3. StockAt(e) \in Nat /\ Target(StockAt(e)) \in 1..Batch /\ Batch \in Nat
  <2>1. StockAt(e) \in Nat
    BY StockFacts
  <2> QED BY <2>1, BatchFacts
<1>4. StockIn(Tag(p)) = StockAt(e) /\ Logged(Tag(p)) = 0
  <2>1. CASE First(e)[2] = "level"
    <3>1. ~Refills(e) /\ Filled(e) = StockAt(e)
      BY <1>1, <1>3, <2>1 DEF FirstRound, Refills, Filled
    <3>2. StockIn(First(e)) = Filled(e) - (1 - 1) /\ Logged(First(e)) = 2 * (1 - 1)
      BY <1>1, <2>1, TagValues
    <3> QED BY <1>2, <1>3, <3>1, <3>2
  <2>2. CASE First(e)[2] # "level"
    BY <1>1, <1>2, <2>2, TagValues
  <2> QED BY <2>1, <2>2
<1>5. at[p] = "triples" => Refills(e) /\ count[p] = CountIn(e)
  BY DEF Starts, FirstRound, Refills, CountIn
<1>6. at[p] \in {"triples", "level"} /\ "send" \in SubsIn(at[p])
  BY DEF Starts, FirstRound, SubsIn, Resharing, Generating
<1>7. Len(log[p]) = 0
  BY DEF Starts, NoVector
<1>8. PlaceInv(p)
  BY <1>4, <1>5, <1>6, <1>7 DEF Starts, PlaceInv, RefillRounds, Generating, Drawn, Exchanges
<1> QED BY <1>2, <1>3, <1>6, <1>8 DEF Starts, Ended

(* The next evaluation of a session starts in step.                        *)
LEMMA NextEvaluationSync ==
    ASSUME SyncInv, NextEvaluation
    PROVE  SyncInv'
<1>1. /\ transport = "channel" /\ wire' = [l \in Links |-> << >>] /\ gone' = {}
      /\ transport' = transport /\ queued' = queued /\ reset' = reset
      /\ \A p \in Parties : at[p] = "done" /\ done[p] < Evals
      /\ at' = [p \in Parties |-> FirstRound(Len(pool[p]))]
      /\ sub' = [p \in Parties |-> "send"]
      /\ count' = [p \in Parties |-> Target(Len(pool[p]))]
      /\ UNCHANGED <<heard, flips, level, done, triples, astray, zeros, log, pool, z, shown>>
  BY DEF NextEvaluation, Trio
<1>2. OrderInv /\ NetTypeOK /\ Domains /\ flips \in 0..MaxFlips /\ \A x \in Parties : PartyOK(x) /\ PlaceInv(x)
  BY TypeParts DEF SyncInv, Typed
<1>3. queued = [l \in Links |-> << >>] /\ reset = {}
  BY <1>1, <1>2 DEF OrderInv
<1>4. PICK e \in 0..Evals : \A p \in Parties : done[p] = e
  <2>1. 0 \in Parties
    BY DEF Parties
  <2>2. done[0] \in 0..Evals
    BY <1>2, <2>1 DEF PartyOK
  <2>3. \A p, q \in Parties : done[p] = done[q]
    BY <1>1, AllDone
  <2> QED BY <2>1, <2>2, <2>3
<1>5. ASSUME NEW p \in Parties PROVE Starts(p, e)'
  <2>1. /\ level[p] = 1 /\ triples[p] = NoVector /\ Len(pool[p]) = StockIn(Tag(p)) /\ Len(log[p]) = Logged(Tag(p))
    BY <1>1, <1>2, <1>5 DEF PlaceInv, Drawn, RefillRounds, Generating
  <2>2. Tag(p)[1] = e /\ Tag(p)[2] = "done"
    BY <1>1, <1>4, <1>5, TagFacts
  <2>3. Len(pool[p]) = StockAt(e) /\ Len(log[p]) = 0
    BY <2>1, <2>2, TagValues
  <2>4. log[p] = NoVector
    BY <1>2, <2>3 DEF PartyOK, NoVector
  <2> QED BY <1>1, <1>4, <1>5, <2>1, <2>3, <2>4 DEF Starts
<1>6. \A p \in Parties : Starts(p, e)'
  BY <1>5
<1>7. \A p \in Parties : PlaceInv(p)' /\ Tag(p)' = First(e) /\ ~Ended(p)' /\ count'[p] \in 0..Batch
  <2>1. StartsWell'
    BY StartFacts, PTL
  <2>2. First(e)' = First(e)
    BY DEF First
  <2> QED BY <1>4, <1>6, <2>1, <2>2 DEF StartsWell
<1>8. Domains'
  BY <1>1, <1>2 DEF Domains
<1>9. \A p \in Parties : PartyOK(p)'
  <2> SUFFICES ASSUME NEW p \in Parties PROVE PartyOK(p)'
    OBVIOUS
  <2>1. count'[p] \in 0..MaxOf(Levels, MinBatch)
    BY <1>7 DEF Batch
  <2>2. at'[p] \in Rounds \cup {"done", "aborted"} /\ sub'[p] = "send"
    BY <1>1 DEF FirstRound, Rounds, Resharing, Generating
  <2>3. triples[p] = NoVector
    BY <1>6, <1>1 DEF Starts
  <2> QED BY <1>1, <1>2, <2>1, <2>2, <2>3 DEF PartyOK
<1>10. OrderInv'
  <2>1. \A p \in Parties : Tag(p)' = First(e) /\ ~Ended(p)' /\ sub'[p] = "send"
    BY <1>1, <1>7
  <2>2. First(e)' = First(e)
    BY DEF First
  <2>3. Fresh'
    BY <1>1, <1>3, <1>4, <2>1, <2>2 DEF Fresh
  <2> QED BY <2>3, FreshOrder, PTL
<1>11. (TypeOK /\ Shapes)'
  <2>1. NetTypeOK'
    BY <1>1, <1>2, <1>3 DEF NetTypeOK
  <2>2. Typed'
    BY <1>1, <1>2, <1>8, <1>9, <2>1 DEF Typed
  <2> QED BY <2>2, TypeParts, PTL
<1> QED BY <1>7, <1>10, <1>11 DEF SyncInv

-----------------------------------------------------------------------------
(* The theorems on the course of an evaluation. *)

(* At the start everyone is about to make triples.                         *)
LEMMA StartSync == Init => SyncInv
<1> SUFFICES ASSUME Init PROVE SyncInv
  OBVIOUS
<1>1. /\ transport \in Transports /\ queued = [l \in Links |-> << >>] /\ wire = [l \in Links |-> << >>]
      /\ gone = {} /\ reset = {}
      /\ at = [p \in Parties |-> FirstRound(0)] /\ sub = [p \in Parties |-> "send"]
      /\ level = [p \in Parties |-> 1] /\ done = [p \in Parties |-> 0]
      /\ count = [p \in Parties |-> Target(0)]
      /\ triples = [p \in Parties |-> NoVector] /\ astray = [p \in Parties |-> FALSE]
      /\ zeros = [p \in Parties |-> NoVector] /\ heard = [p \in Parties |-> NoVector]
      /\ log = [p \in Parties |-> NoVector] /\ pool = [p \in Parties |-> NoVector]
      /\ z = [p \in Parties |-> Clear] /\ shown = [p \in Parties |-> 0] /\ flips = 0
  BY DEF Init, NetInit
<1>2. Levels \in Nat \ {0} /\ Evals \in Nat \ {0} /\ MaxFlips \in 0..1
  BY SizesAssumption, MaxFlipsAssumption
<1>3. StockAt(0) = 0 /\ 0 \in 0..Evals
  BY <1>2, StockAtStart
<1>4. ASSUME NEW p \in Parties PROVE Starts(p, 0)
  BY <1>1, <1>2, <1>3 DEF Starts, NoVector
<1>5. \A p \in Parties : PlaceInv(p) /\ Tag(p) = First(0) /\ ~Ended(p) /\ count[p] \in 0..Batch
  BY <1>3, <1>4, StartFacts DEF StartsWell
<1>6. OrderInv
  <2>1. Fresh
    BY <1>1, <1>3, <1>5 DEF Fresh
  <2> QED BY <2>1, FreshOrder
<1>7. Domains
  BY <1>1 DEF Domains
<1>8. ASSUME NEW p \in Parties PROVE PartyOK(p)
  <2>1. at[p] \in Rounds
    BY <1>1 DEF FirstRound, Rounds, Resharing, Generating
  <2>2. count[p] \in 0..MaxOf(Levels, MinBatch)
    BY <1>5 DEF Batch
  <2>3. pool[p] \in Seq(Errors) /\ log[p] \in Seq(Errors) /\ Len(pool[p]) = 0
    BY <1>1 DEF NoVector
  <2>4. 0 <= StockLimit
    BY <1>3, StockBounds
  <2>5. z[p] \in Errors \X Errors /\ shown[p] \in Errors
    BY <1>1 DEF Clear, Errors
  <2> QED BY <1>1, <1>2, <2>1, <2>2, <2>3, <2>4, <2>5 DEF PartyOK
<1>9. NetTypeOK /\ flips \in 0..MaxFlips
  BY <1>1, <1>2, TransportsAssumption DEF NetTypeOK
<1>10. TypeOK /\ Shapes
  BY <1>7, <1>8, <1>9, TypeParts DEF Typed
<1> QED BY <1>5, <1>6, <1>10 DEF SyncInv

(* Every step keeps the parties in step.                                   *)
LEMMA StepSync == SyncInv /\ [Next]_vars => SyncInv'
<1> SUFFICES ASSUME SyncInv, [Next]_vars PROVE SyncInv'
  OBVIOUS
<1>1. ASSUME NEW p \in Parties, PartyStep(p) PROVE SyncInv'
  <2>1. CASE SendShares(p)
    BY <2>1, SendSharesSync
  <2>2. CASE SendHash(p)
    BY <2>2, SendHashSync
  <2>3. CASE HearPrev(p)
    BY <2>3, HearPrevSync
  <2>4. CASE TakeTriples(p)
    BY <2>4, TakeTriplesSync
  <2>5. CASE TakeCoin(p)
    BY <2>5, TakeCoinSync
  <2>6. CASE TakeCut(p)
    BY <2>6, TakeCutSync
  <2>7. CASE TakePairs(p)
    BY <2>7, TakePairsSync
  <2>8. CASE ZeroChecked(p)
    BY <2>8, ZeroCheckedSync
  <2>9. CASE Refilled(p)
    BY <2>9, RefilledSync
  <2>10. CASE TakeLevel(p)
    BY <2>10, TakeLevelSync
  <2>11. CASE Evaluated(p)
    BY <2>11, EvaluatedGoesOn, EvaluatedReturns
  <2>12. CASE TakeOpen(p)
    BY <2>12, TakeOpenSync
  <2>13. CASE OpensWords(p)
    BY <2>13, OpensWordsSync
  <2>14. CASE HandOver(p)
    BY <2>14, HandOverSync
  <2>15. CASE Exit(p)
    BY <2>15, ExitSync
  <2>16. CASE CutFails(p) \/ ZeroFails(p) \/ ViewsFail(p) \/ Cascade(p) \/ SendFails(p)
    BY <2>16, FailsSync
  <2> QED BY <1>1, <2>1, <2>2, <2>3, <2>4, <2>5, <2>6, <2>7, <2>8, <2>9, <2>10, <2>11, <2>12, <2>13,
             <2>14, <2>15, <2>16 DEF PartyStep
<1>2. CASE Reconstruct
  BY <1>2, ReconstructSync
<1>3. CASE NextEvaluation
  BY <1>3, NextEvaluationSync
<1>4. ASSUME NEW l \in Links, Writer(l) PROVE SyncInv'
  BY <1>4, WriterSync
<1>5. CASE UNCHANGED vars
  <2>1. /\ UNCHANGED <<transport, queued, wire, gone, reset, at, sub, heard, flips>>
        /\ UNCHANGED <<level, done, count, triples, astray, zeros, log, pool, z, shown>>
    BY <1>5 DEF vars, netVars, local
  <2>2. NetTypeOK /\ Domains /\ flips \in 0..MaxFlips /\ \A x \in Parties : PartyOK(x) /\ PlaceInv(x)
    BY TypeParts DEF SyncInv, Typed
  <2>3. \A x : Stays(x)
    BY <2>1 DEF Stays
  <2>4. Domains' /\ flips' \in 0..MaxFlips /\ reset' \subseteq SUBSET Parties /\ transport' = transport
    BY <2>1, <2>2 DEF Domains, NetTypeOK
  <2>5. \A x \in Parties : PartyOK(x)' /\ PlaceInv(x)'
    BY <2>1, <2>2, <2>3, PartyKept
  <2>6. OrderInv'
    <3>1. \A q, p : Msgs(q, p)' = Msgs(q, p)
      BY <2>1 DEF Msgs
    <3>2. ASSUME NEW x
          PROVE  /\ Ended(x)' = Ended(x) /\ Complete(x)' = Complete(x)
                 /\ \A y : ToSend(x, y)' = ToSend(x, y) /\ ToRead(x, y)' = ToRead(x, y)
      BY <2>1, PlaceKept
    <3>3. OrderInv
      BY DEF SyncInv
    <3>4. ASSUME NEW q \in Parties, NEW p \in Parties, q # p PROVE LinkInv(q, p)'
      BY <2>1, <3>1, <3>2, <3>3, <3>4, LinkKept
    <3>5. gone' = {p \in Parties : Ended(p)'}
      BY <2>1, <3>2, <3>3 DEF OrderInv
    <3> QED BY <2>1, <3>1, <3>3, <3>4, <3>5 DEF OrderInv
  <2>7. 0 \in Parties
    BY DEF Parties
  <2> QED BY <2>3, <2>4, <2>5, <2>6, <2>7, SyncFrom
<1> QED BY <1>1, <1>2, <1>3, <1>4, <1>5 DEF Next

(* Parties go through the same rounds in the same order: a wire holds the  *)
(* messages of consecutive rounds, from the one its reader is in to the    *)
(* one its writer is in, whatever is changed on the way (mal.rs; the       *)
(* messages of net.rs carry no round).                                     *)
THEOREM RoundsFollowed == Spec => []SyncInv
<1>1. Init => SyncInv
  BY StartSync
<1>2. SyncInv /\ [Next]_vars => SyncInv'
  BY StepSync
<1> QED BY <1>1, <1>2, PTL DEF Spec

(* Types; the stock of triples never exceeds what one refill adds to one   *)
(* that was too small (ensure, mal.rs).                                    *)
THEOREM MalTypeOK == Spec => []TypeOK
<1>1. SyncInv => TypeOK
  BY DEF SyncInv
<1> QED BY <1>1, RoundsFollowed, PTL

(* What a party finds on the wire it reads was sent in the round it is in. *)
LEMMA ReadInStep == SyncInv => InStep
<1> SUFFICES ASSUME SyncInv, NEW p \in Parties, NEW q \in Awaited(p), Readable(q, p)
             PROVE  Incoming(q, p).tag = Tag(p)
  BY DEF InStep
<1>1. CASE at[p] = "hand" /\ p = 0
  <2>1. q \in {1, 2}
    BY <1>1 DEF Awaited
  <2>2. q \in Parties /\ q # p /\ ~Ended(p)
    BY <1>1, <2>1 DEF Parties, Ended
  <2>3. ToRead(p, q) = Due(q, p, Tag(p))
    BY <1>1, SubFacts DEF ToRead, HasRead
  <2>4. Due(q, p, Tag(p)) = Tag(p)
    BY <1>1, TagFacts DEF Due, NextExchange, Generating
  <2> QED BY <2>2, <2>3, <2>4, Got
<1>2. CASE ~(at[p] = "hand" /\ p = 0) /\ sub[p] = "fromNext"
  <2>1. q = NextOf(p)
    BY <1>2 DEF Awaited
  <2>2. ~Ended(p)
    BY <1>2, SubFacts DEF Ended
  <2>3. FromNext(p).tag = Tag(p)
    BY <2>1, <2>2, GotNext
  <2> QED BY <2>1, <2>3 DEF FromNext
<1>3. CASE ~(at[p] = "hand" /\ p = 0) /\ sub[p] = "fromPrev"
  <2>1. q = PrevOf(p) /\ q \in Parties /\ q # p /\ p # PrevOf(q)
    BY <1>3, RingFacts DEF Awaited
  <2>2. at[p] \in Exchanges /\ ~Ended(p) /\ Tag(p)[2] = at[p]
    <3>1. at[p] \in Exchanges
      BY <1>3, SubFacts
    <3>2. at[p] \notin {"done", "aborted"}
      BY <3>1 DEF Exchanges
    <3> QED BY <3>1, <3>2, TagFacts DEF Ended
  <2>3. ToRead(p, q) = Due(q, p, Tag(p))
    BY <1>3 DEF ToRead, HasRead
  <2>4. Due(q, p, Tag(p)) = Tag(p)
    BY <2>1, <2>2 DEF Due, NextExchange, Generating, Exchanges
  <2> QED BY <2>1, <2>2, <2>3, <2>4, Got
<1>4. CASE ~(at[p] = "hand" /\ p = 0) /\ sub[p] \notin {"fromNext", "fromPrev"}
  BY <1>4 DEF Awaited
<1> QED BY <1>1, <1>2, <1>3, <1>4

(* What a party finds on the wire it reads was sent in the round it is in: *)
(* the messages carry no round, and neighbours run ahead of each other.    *)
THEOREM RoundsInStep == Spec => []InStep
BY ReadInStep, RoundsFollowed, PTL

-----------------------------------------------------------------------------
(* What a step is to the parties and to what is on its way. *)

Sends(p) == SendShares(p) \/ SendHash(p) \/ HandOver(p)
Takes(p) ==
    \/ TakeTriples(p) \/ TakeCoin(p) \/ TakeCut(p) \/ TakePairs(p)
    \/ ZeroChecked(p) \/ Refilled(p) \/ TakeLevel(p) \/ TakeOpen(p)
    \/ (Evaluated(p) /\ (transport = "tcp" \/ Opening))
Returns(p) == OpensWords(p) \/ (Evaluated(p) /\ ~(transport = "tcp" \/ Opening))
Fails(p) == CutFails(p) \/ ZeroFails(p) \/ ViewsFail(p) \/ Cascade(p) \/ SendFails(p)
Quits(p) == Exit(p) \/ (p = 0 /\ Reconstruct)

(* These are all the steps of a party.                                     *)
LEMMA StepKinds ==
    ASSUME NEW p \in Parties, PartyStep(p)
    PROVE  Sends(p) \/ HearPrev(p) \/ Takes(p) \/ Returns(p) \/ Fails(p) \/ Quits(p)
BY DEF PartyStep, Sends, Takes, Returns, Fails, Quits

(* A step is one party's, a writer's, or the session's.                    *)
LEMMA NextKinds ==
    ASSUME Next
    PROVE  \/ \E p \in Parties : Sends(p) \/ HearPrev(p) \/ Takes(p) \/ Returns(p) \/ Fails(p) \/ Quits(p)
           \/ NextEvaluation \/ \E l \in Links : Writer(l)
<1>1. ASSUME Reconstruct PROVE \E p \in Parties : Quits(p)
  BY <1>1 DEF Quits, Parties
<1> QED BY <1>1, StepKinds DEF Next

(* A party that sends has its data left as they are, and nobody else has   *)
(* anything changed.                                                       *)
LEMMA SendsKeep ==
    ASSUME SyncInv, NEW p \in Parties, Sends(p)
    PROVE  /\ \A x \in Parties : x # p => Stays(x)
           /\ at' = at /\ heard' = heard /\ UNCHANGED local /\ ~Ended(p) /\ transport' = transport
           /\ sub'[p] # "send" /\ (at[p] \in Exchanges => sub'[p] # "fromNext")
           /\ sub[p] \in {"send", "sendNext"}
<1>1. Domains
  BY TypeParts DEF SyncInv, Typed
<1>2. /\ at' = at /\ heard' = heard /\ UNCHANGED local /\ transport' = transport
      /\ \E next : sub' = [sub EXCEPT ![p] = next] /\ next # "send"
                   /\ (at[p] \in Exchanges => next # "fromNext")
      /\ at[p] \in Rounds /\ sub[p] \in {"send", "sendNext"}
  <2>1. CASE SendShares(p)
    <3>1. at[p] \in Resharing /\ at[p] \in Rounds /\ at[p] \notin Exchanges
      BY <2>1 DEF SendShares, Rounds, Resharing, Exchanges, Generating
    <3> QED BY <2>1, <3>1 DEF SendShares, Send, Transmit
  <2>2. CASE SendHash(p)
    <3>1. at[p] \in Rounds
      BY <2>2 DEF SendHash, Rounds
    <3> QED BY <2>2, <3>1 DEF SendHash, Send, Transmit
  <2>3. CASE HandOver(p)
    <3>1. at[p] = "hand" /\ at[p] \in Rounds /\ at[p] \notin Exchanges
      BY <2>3 DEF HandOver, Rounds, Exchanges
    <3> QED BY <2>3, <3>1 DEF HandOver, Send, Transmit
  <2> QED BY <2>1, <2>2, <2>3 DEF Sends
<1>3. \A x \in Parties : x # p => Stays(x)
  BY <1>1, <1>2 DEF Stays, local, Domains
<1>4. ~Ended(p)
  BY <1>2 DEF Ended, Rounds, Resharing, Exchanges, Generating
<1> QED BY <1>1, <1>2, <1>3, <1>4 DEF Domains

(* A party that takes what it was waiting for goes on to the next round.   *)
LEMMA TakesKeep ==
    ASSUME SyncInv, NEW p \in Parties, Takes(p)
    PROVE  /\ \A x \in Parties : x # p => Stays(x)
           /\ at[p] \in Resharing \cup Exchanges /\ Gets(p, at[p]) /\ ~Ended(p) /\ Readable(NextOf(p), p)
           /\ Read(NextOf(p), p) /\ sub[p] = "fromNext" /\ sub'[p] = "send" /\ flips' = flips
           /\ transport' = transport /\ at'[p] \in Rounds
<1>1. Domains
  BY TypeParts DEF SyncInv, Typed
<1> DEFINE Moves(round, next) ==
             /\ Gets(p, round) /\ at' = [at EXCEPT ![p] = next] /\ sub' = [sub EXCEPT ![p] = "send"]
             /\ Read(NextOf(p), p) /\ flips' = flips
<1>2. \A x \in Parties : x # p => Stays(x)
  <2>1. CASE TakeTriples(p)
    BY <1>1, <2>1 DEF TakeTriples, GoesTo, Domains, Stays
  <2>2. CASE TakeCoin(p)
    BY <1>1, <2>2 DEF TakeCoin, Opened, GoesTo, Domains, Stays
  <2>3. CASE TakeCut(p)
    BY <1>1, <2>3 DEF TakeCut, Opened, GoesTo, Domains, Stays
  <2>4. CASE TakePairs(p)
    BY <1>1, <2>4 DEF TakePairs, Opened, GoesTo, Domains, Stays
  <2>5. CASE ZeroChecked(p)
    BY <1>1, <2>5 DEF ZeroChecked, local, GoesTo, Domains, Stays
  <2>6. CASE Refilled(p)
    BY <1>1, <2>6 DEF Refilled, GoesTo, Domains, Stays
  <2>7. CASE TakeLevel(p)
    BY <1>1, <2>7 DEF TakeLevel, Opened, GoesTo, Domains, Stays
  <2>8. CASE TakeOpen(p)
    BY <1>1, <2>8 DEF TakeOpen, Opened, GoesTo, Domains, Stays
  <2>9. CASE Evaluated(p) /\ (transport = "tcp" \/ Opening)
    BY <1>1, <2>9 DEF Evaluated, GoesTo, Domains, Stays
  <2> QED BY <2>1, <2>2, <2>3, <2>4, <2>5, <2>6, <2>7, <2>8, <2>9 DEF Takes
<1>3. \E round \in Resharing \cup Exchanges, next \in Rounds : Moves(round, next)
  <2>1. CASE TakeTriples(p)
    <3>1. Moves("triples", "coin")
      BY <2>1 DEF TakeTriples, GoesTo
    <3> QED BY <3>1 DEF Rounds, Resharing, Exchanges, Generating
  <2>2. CASE TakeCoin(p)
    <3>1. Moves("coin", "cut")
      BY <2>2 DEF TakeCoin, GoesTo
    <3> QED BY <3>1 DEF Rounds, Resharing, Exchanges, Generating
  <2>3. CASE TakeCut(p)
    <3>1. Moves("cut", "pairs")
      BY <2>3 DEF TakeCut, GoesTo
    <3> QED BY <3>1 DEF Rounds, Resharing, Exchanges, Generating
  <2>4. CASE TakePairs(p)
    <3>1. Moves("pairs", "zero")
      BY <2>4 DEF TakePairs, GoesTo
    <3> QED BY <3>1 DEF Rounds, Resharing, Exchanges, Generating
  <2>5. CASE ZeroChecked(p)
    <3>1. Moves("zero", "views")
      BY <2>5 DEF ZeroChecked, GoesTo
    <3> QED BY <3>1 DEF Rounds, Resharing, Exchanges, Generating
  <2>6. CASE Refilled(p)
    <3>1. Moves("views", FirstRound(Len(pool[p]) + count[p]))
      BY <2>6 DEF Refilled, GoesTo
    <3>2. FirstRound(Len(pool[p]) + count[p]) \in Rounds /\ "views" \in Exchanges
      BY DEF FirstRound, Rounds, Resharing, Exchanges, Generating
    <3> HIDE DEF Moves
    <3> QED BY <3>1, <3>2
  <2>7. CASE TakeLevel(p)
    <3>1. \E next \in {"level", "check"} : Moves("level", next)
      BY <2>7 DEF TakeLevel, GoesTo
    <3> HIDE DEF Moves
    <3> QED BY <3>1 DEF Rounds, Resharing, Exchanges, Generating
  <2>8. CASE TakeOpen(p)
    <3>1. Moves("open", "shown")
      BY <2>8 DEF TakeOpen, GoesTo
    <3> QED BY <3>1 DEF Rounds, Resharing, Exchanges, Generating
  <2>9. CASE Evaluated(p) /\ (transport = "tcp" \/ Opening)
    <3>1. \E next \in {FirstRound(Len(pool[p])), "hand", "open"} : Moves("check", next)
      BY <2>9 DEF Evaluated, GoesTo
    <3>2. {FirstRound(Len(pool[p])), "hand", "open"} \subseteq Rounds /\ "check" \in Exchanges
      BY DEF FirstRound, Rounds, Resharing, Exchanges, Generating
    <3> HIDE DEF Moves
    <3> QED BY <3>1, <3>2
  <2> QED BY <2>1, <2>2, <2>3, <2>4, <2>5, <2>6, <2>7, <2>8, <2>9 DEF Takes
<1>4. PICK round \in Resharing \cup Exchanges, next \in Rounds : Moves(round, next)
  BY <1>3
<1>5. at[p] = round /\ sub[p] = "fromNext" /\ Readable(NextOf(p), p) /\ ~Ended(p)
  BY <1>4, Gotten
<1>6. at'[p] = next /\ sub'[p] = "send" /\ transport' = transport
  BY <1>1, <1>4 DEF Domains, Read
<1> QED BY <1>2, <1>4, <1>5, <1>6

-----------------------------------------------------------------------------
(* What a step is to what is on its way. *)

Others(l) == \A a, b \in Parties : a # b /\ <<a, b>> # l => Msgs(a, b)' = Msgs(a, b)
Puts(p, q, m) == Msgs(p, q)' = Append(Msgs(p, q), m) /\ Others(<<p, q>>)
Pulls(p, q) == Msgs(q, p) # << >> /\ Msgs(q, p)' = Tail(Msgs(q, p)) /\ Others(<<q, p>>)
Drops(p) ==
    \A a, b \in Parties : a # b => Msgs(a, b)' = IF b = p THEN << >> ELSE Msgs(a, b)

(* No message is new. *)
Fewer ==
    \A a, b \in Parties : a # b =>
        \A i \in DOMAIN Msgs(a, b)' : \E j \in DOMAIN Msgs(a, b) : Msgs(a, b)'[i] = Msgs(a, b)[j]

(* What a party is due to send. *)
Part(p) ==
    IF at[p] \in Resharing THEN Seconds(p) ELSE IF at[p] = "hand" THEN z[p] ELSE Said(p)

(* Sent as it should be, or changed. *)
AsDue(p, m) == flips' = flips /\ ~m.changed /\ m.body = Part(p)
WordChanged(p, m) ==
    /\ flips = 0 /\ flips' = 1 /\ p = 1 /\ transport = "channel" /\ at[p] \in Resharing /\ ~m.changed
    /\ \E i \in DOMAIN Part(p) : m.body = [Part(p) EXCEPT ![i] = Xor(@, 1)]
HashSpoilt(p, m) ==
    /\ flips = 0 /\ flips' = 1 /\ p = 1 /\ transport = "channel" /\ at[p] \in Exchanges
    /\ m.changed /\ m.body = Part(p)

(* What a party sends is a message of the round it is in, as due or        *)
(* changed, to one that within a process has not ended.                    *)
LEMMA SendsPut ==
    ASSUME SyncInv, NEW p \in Parties, Sends(p)
    PROVE  \E q \in Parties, m \in MessagesIn(Tag(p)) :
               /\ q # p /\ Puts(p, q, m) /\ (at[p] \in Resharing => q = PrevOf(p))
               /\ AsDue(p, m) \/ WordChanged(p, m) \/ HashSpoilt(p, m)
               /\ transport = "channel" => ~Ended(q)
               /\ transport' = transport /\ Tag(p) \in Tags
<1>1. ASSUME NEW q \in Parties, q # p, NEW m \in MessagesIn(Tag(p)), Transmit(p, q, m)
      PROVE  Puts(p, q, m) /\ transport' = transport
  <2>1. Tag(p) \in Tags
    <3>1. ~Ended(p)
      BY SendsKeep
    <3> QED BY <3>1, TagFacts DEF Ended
  <2>2. m \in Messages /\ m \in MessagesIn(m.tag)
    BY <2>1, MessagesOfRound
  <2>3. OrderInv /\ transport \in {"channel", "tcp"}
    BY DEF SyncInv, TypeOK, NetTypeOK
  <2> QED BY <1>1, <2>2, <2>3, TransmitFacts DEF Puts, Others
<1>2. \A q \in Parties : transport = "channel" /\ SendMayPass(q) => ~Ended(q)
  BY DEF SendMayPass, SyncInv, OrderInv
<1>3. ~Ended(p) /\ Tag(p) \in Tags /\ Tag(p)[2] = at[p]
  <2>1. ~Ended(p)
    BY SendsKeep
  <2> QED BY <2>1, TagFacts DEF Ended
<1>4. NextOf(p) \in Parties /\ PrevOf(p) \in Parties /\ NextOf(p) # p /\ PrevOf(p) # p
  BY RingFacts
<1>5. CASE SendShares(p)
  <2>1. at[p] \in Resharing /\ SendMayPass(PrevOf(p)) /\ Part(p) = Seconds(p)
    BY <1>5 DEF SendShares, Part
  <2>2. PICK m \in MessagesIn(Tag(p)) :
               /\ Transmit(p, PrevOf(p), m) /\ flips' \in 0..MaxFlips /\ ~m.changed
               /\ \/ flips' = flips /\ m.body = Seconds(p)
                  \/ /\ flips = 0 /\ flips' = 1 /\ p = 1 /\ transport = "channel"
                     /\ \E i \in DOMAIN Seconds(p) : m.body = [Seconds(p) EXCEPT ![i] = Xor(@, 1)]
    BY <1>5, SharesSent
  <2>3. AsDue(p, m) \/ WordChanged(p, m)
    BY <2>1, <2>2 DEF AsDue, WordChanged
  <2>4. Puts(p, PrevOf(p), m) /\ transport' = transport
    BY <1>1, <1>4, <2>2
  <2> HIDE DEF Part
  <2> QED BY <1>2, <1>3, <1>4, <2>1, <2>3, <2>4
<1>6. CASE SendHash(p)
  <2>1. at[p] \in Exchanges /\ Part(p) = Said(p) /\ at[p] \notin Resharing
    BY <1>6 DEF SendHash, Part, Exchanges, Resharing, Generating
  <2>2. PICK q \in {PrevOf(p), NextOf(p)} :
               SendMayPass(q) /\ Send(p, q, HashOf(p, Said(p)), ChangedHash(HashOf(p, Said(p))))
    BY <1>6 DEF SendHash
  <2>3. q \in Parties /\ q # p
    BY <1>4
  <2>4. PICK m \in MessagesIn(Tag(p)) :
               /\ Transmit(p, q, m) /\ flips' \in 0..MaxFlips /\ m.body = Said(p)
               /\ \/ flips' = flips /\ ~m.changed
                  \/ flips = 0 /\ flips' = 1 /\ p = 1 /\ transport = "channel" /\ m.changed
    BY <2>1, <2>2, <2>3, HashSent
  <2>5. AsDue(p, m) \/ HashSpoilt(p, m)
    BY <2>1, <2>4 DEF AsDue, HashSpoilt
  <2>6. Puts(p, q, m) /\ transport' = transport
    BY <1>1, <2>3, <2>4
  <2> HIDE DEF Part
  <2> QED BY <1>2, <1>3, <2>1, <2>2, <2>3, <2>5, <2>6
<1>7. CASE HandOver(p)
  <2> DEFINE m0 == Words(p, z[p])
  <2>1. at[p] = "hand" /\ SendMayPass(0) /\ p # 0 /\ Send(p, 0, m0, ChangedWords(m0))
    BY <1>7 DEF HandOver
  <2>2. transport = "tcp" /\ Part(p) = z[p] /\ at[p] \notin Resharing
    BY <2>1 DEF SyncInv, PlaceInv, Part, Resharing, Generating
  <2>3. Transmit(p, 0, m0) /\ flips' = flips
    BY <2>1, <2>2 DEF Send
  <2>4. m0 \in MessagesIn(Tag(p)) /\ ~m0.changed /\ m0.body = z[p]
    <3>1. m0 = [tag |-> Tag(p), body |-> z[p], changed |-> FALSE]
      BY DEF Words
    <3>2. z[p] \in Vectors(Size(Tag(p)))
      <4>1. Size(Tag(p)) = 2
        BY <1>3, <2>1, TagValues
      <4>2. z[p] \in Errors \X Errors
        BY TypeParts DEF SyncInv, Typed, PartyOK
      <4> QED BY <4>1, <4>2 DEF Vectors
    <3>3. [tag |-> Tag(p), body |-> z[p], changed |-> FALSE] \in MessagesIn(Tag(p))
      BY <1>3, <3>2, MessageFacts
    <3> HIDE DEF m0
    <3> QED BY <3>1, <3>3
  <2> HIDE DEF m0
  <2>5. 0 \in Parties
    BY DEF Parties
  <2>6. Puts(p, 0, m0) /\ transport' = transport
    BY <1>1, <2>1, <2>3, <2>4, <2>5
  <2>7. AsDue(p, m0)
    BY <2>2, <2>3, <2>4 DEF AsDue
  <2> QED BY <1>3, <2>1, <2>2, <2>4, <2>5, <2>6, <2>7
<1> QED BY <1>5, <1>6, <1>7 DEF Sends

(* A party that goes on has read from its next neighbour, one that hears   *)
(* from its previous one.                                                  *)
LEMMA ReadsPull ==
    ASSUME SyncInv, NEW p \in Parties, NEW q \in Parties, q # p, Readable(q, p), Read(q, p)
    PROVE  Pulls(p, q) /\ transport' = transport /\ Incoming(q, p) = Msgs(q, p)[1]
BY ReadLinkFacts DEF SyncInv, Pulls, Others

(* Nothing that is read was not sent.                                      *)
LEMMA PullsFewer ==
    ASSUME SyncInv, NEW p \in Parties, NEW q \in Parties, q # p, Pulls(p, q)
    PROVE  Fewer
<1> SUFFICES ASSUME NEW a \in Parties, NEW b \in Parties, a # b, NEW i \in DOMAIN Msgs(a, b)'
             PROVE  \E j \in DOMAIN Msgs(a, b) : Msgs(a, b)'[i] = Msgs(a, b)[j]
  BY DEF Fewer
<1>1. Msgs(a, b) \in Seq(Messages)
  BY MsgsFacts DEF SyncInv
<1>2. Msgs(a, b)' = Msgs(a, b) \/ (Msgs(a, b) # << >> /\ Msgs(a, b)' = Tail(Msgs(a, b)))
  BY DEF Pulls, Others
<1> PICK u : u = Msgs(a, b)'
  OBVIOUS
<1> PICK w : w = Msgs(a, b)
  OBVIOUS
<1>3. CASE u = w
  BY <1>3
<1>4. CASE w # << >> /\ u = Tail(w)
  <2>1. i \in 1..(Len(w) - 1) /\ u[i] = w[i + 1]
    BY <1>1, <1>4
  <2>2. i + 1 \in DOMAIN w
    BY <1>1, <2>1
  <2> QED BY <2>1, <2>2
<1> QED BY <1>2, <1>3, <1>4

(* The elements of the parts of a sequence are elements of it.             *)
LEMMA PartsOf ==
    ASSUME NEW S, NEW u \in Seq(S), NEW v \in Seq(S)
    PROVE  /\ \A i \in DOMAIN u : \E j \in DOMAIN (u \o v) : u[i] = (u \o v)[j]
           /\ \A i \in DOMAIN v : \E j \in DOMAIN (u \o v) : v[i] = (u \o v)[j]
<1>1. ASSUME NEW i \in DOMAIN u PROVE \E j \in DOMAIN (u \o v) : u[i] = (u \o v)[j]
  <2>1. i \in DOMAIN (u \o v) /\ u[i] = (u \o v)[i]
    OBVIOUS
  <2> QED BY <2>1
<1>2. ASSUME NEW i \in DOMAIN v PROVE \E j \in DOMAIN (u \o v) : v[i] = (u \o v)[j]
  <2>1. Len(u) + i \in DOMAIN (u \o v) /\ v[i] = (u \o v)[Len(u) + i]
    OBVIOUS
  <2> QED BY <2>1
<1> QED BY <1>1, <1>2

(* A party that ends takes away what is on its way to it, and over TCP     *)
(* what it had not written.                                                *)
LEMMA EndsDrop ==
    ASSUME SyncInv, NEW p \in Parties, NEW how, Ends(p, how)
    PROVE  /\ transport' = transport /\ Fewer /\ (transport = "channel" => Drops(p))
           /\ at'[p] = how /\ sub'[p] = "send" /\ heard'[p] = NoVector /\ flips' = flips
           /\ \A x \in Parties : x # p => at'[x] = at[x] /\ sub'[x] = sub[x] /\ heard'[x] = heard[x]
<1>1. Domains /\ OrderInv
  BY TypeParts DEF SyncInv, Typed
<1>2. /\ transport' = transport /\ flips' = flips
      /\ queued' = [l \in Links |-> IF l[1] = p THEN << >> ELSE queued[l]]
      /\ wire' = [l \in Links |-> IF l[2] = p THEN << >> ELSE wire[l]]
  BY DEF Ends, Leave
<1>3. /\ at'[p] = how /\ sub'[p] = "send" /\ heard'[p] = NoVector
      /\ \A x \in Parties : x # p => at'[x] = at[x] /\ sub'[x] = sub[x] /\ heard'[x] = heard[x]
  BY <1>1 DEF Ends, Domains
<1>4. ASSUME NEW a \in Parties, NEW b \in Parties, a # b
      PROVE  /\ \A i \in DOMAIN Msgs(a, b)' : \E j \in DOMAIN Msgs(a, b) : Msgs(a, b)'[i] = Msgs(a, b)[j]
             /\ transport = "channel" => Msgs(a, b)' = IF b = p THEN << >> ELSE Msgs(a, b)
  <2>1. <<a, b>> \in Links /\ Msgs(a, b)' = wire'[<<a, b>>] \o queued'[<<a, b>>]
    BY <1>4, LinkFacts DEF Msgs
  <2>2. PICK u, v : u = wire[<<a, b>>] /\ v = queued[<<a, b>>]
    OBVIOUS
  <2>3. u \in Seq(Messages) /\ v \in Seq(Messages) /\ Msgs(a, b) = u \o v
    BY <1>1, <1>4, <2>2, MsgsFacts DEF Msgs
  <2>4. wire'[<<a, b>>] = (IF b = p THEN << >> ELSE u) /\ queued'[<<a, b>>] = (IF a = p THEN << >> ELSE v)
    BY <1>2, <2>1, <2>2
  <2>5. << >> \in Seq(Messages) /\ u \o << >> = u /\ << >> \o v = v /\ << >> \o << >> = << >>
    BY <2>3
  <2>6. transport = "channel" => v = << >>
    BY <1>1, <1>4, <2>2, MsgsFacts
  <2>7. Msgs(a, b)' \in {u \o v, u, v, << >>}
    BY <1>4, <2>1, <2>4, <2>5
  <2>8. \A i \in DOMAIN Msgs(a, b)' : \E j \in DOMAIN Msgs(a, b) : Msgs(a, b)'[i] = Msgs(a, b)[j]
    <3> PICK w : w = Msgs(a, b)'
      OBVIOUS
    <3>1. CASE w = u \o v
      BY <2>3, <3>1
    <3>2. CASE w = u
      BY <2>3, <3>2, PartsOf
    <3>3. CASE w = v
      BY <2>3, <3>3, PartsOf
    <3>4. CASE w = << >>
      BY <3>4
    <3> QED BY <2>7, <3>1, <3>2, <3>3, <3>4
  <2> QED BY <1>4, <2>1, <2>3, <2>4, <2>5, <2>6, <2>8
<1> QED BY <1>2, <1>3, <1>4 DEF Fewer, Drops

(* A writer thread adds nothing to what is on its way.                     *)
LEMMA WriterFewer ==
    ASSUME SyncInv, NEW l \in Links, Writer(l)
    PROVE  transport # "channel" /\ transport' = transport /\ Fewer
<1>1. OrderInv /\ queued[l] # << >>
  BY DEF Writer, Write, SyncInv
<1>2. transport # "channel"
  BY <1>1 DEF OrderInv
<1>3. ASSUME NEW a \in Parties, NEW b \in Parties, a # b, NEW i \in DOMAIN Msgs(a, b)'
      PROVE  \E j \in DOMAIN Msgs(a, b) : Msgs(a, b)'[i] = Msgs(a, b)[j]
  <2>1. <<a, b>> \in Links /\ Msgs(a, b)' = wire'[<<a, b>>] \o queued'[<<a, b>>]
    BY <1>3, LinkFacts DEF Msgs
  <2>2. PICK u, v : u = wire[<<a, b>>] /\ v = queued[<<a, b>>]
    OBVIOUS
  <2>3. u \in Seq(Messages) /\ v \in Seq(Messages) /\ Msgs(a, b) = u \o v
    BY <1>1, <1>3, <2>2, MsgsFacts DEF Msgs
  <2> PICK w : w = Msgs(a, b)'
    OBVIOUS
  <2>4. CASE <<a, b>> # l
    <3>1. wire'[<<a, b>>] = u /\ queued'[<<a, b>>] = v
      BY <2>1, <2>2, <2>4, <1>1 DEF Writer, Write, Extended, OrderInv
    <3> QED BY <1>3, <2>1, <2>3, <3>1
  <2>5. CASE <<a, b>> = l
    <3>1. v # << >> /\ queued'[<<a, b>>] = Tail(v)
      BY <1>1, <2>2, <2>5 DEF Writer, Write, OrderInv
    <3>2. wire'[<<a, b>>] = u \/ wire'[<<a, b>>] = Append(u, Head(v))
      BY <1>1, <2>2, <2>5 DEF Writer, Write, Extended, OrderInv
    <3>3. Append(u, Head(v)) \o Tail(v) = u \o v
      BY <2>3, <3>1
    <3>4. w = u \o v \/ w = u \o Tail(v)
      BY <2>1, <3>1, <3>2, <3>3
    <3>5. CASE w = u \o v
      BY <1>3, <2>3, <3>5
    <3>6. CASE w = u \o Tail(v)
      <4>1. i \in 1..(Len(u) + Len(v) - 1) /\ Len(v) \in Nat \ {0} /\ Len(u) \in Nat
        BY <1>3, <2>3, <3>1, <3>6
      <4>2. CASE i <= Len(u)
        <5>1. i \in DOMAIN (u \o v) /\ w[i] = (u \o v)[i]
          BY <2>3, <3>1, <3>6, <4>1, <4>2
        <5> QED BY <2>3, <5>1
      <4>3. CASE i > Len(u)
        <5>1. i + 1 \in DOMAIN (u \o v) /\ w[i] = (u \o v)[i + 1]
          BY <2>3, <3>1, <3>6, <4>1, <4>3, SMTT(30)
        <5> QED BY <2>3, <5>1
      <4> QED BY <4>1, <4>2, <4>3
    <3> QED BY <3>4, <3>5, <3>6
  <2> QED BY <2>4, <2>5
<1> QED BY <1>2, <1>3 DEF Fewer, Writer, Write

(* New wires have nothing on them.                                         *)
LEMMA NextEmpties ==
    ASSUME SyncInv, NextEvaluation
    PROVE  /\ \A a, b \in Parties : a # b => Msgs(a, b)' = << >>
           /\ transport' = transport /\ flips' = flips /\ Fewer
           /\ \A p \in Parties : at[p] = "done" /\ sub'[p] = "send" /\ at'[p] \in {"triples", "level"}
<1>1. queued = [l \in Links |-> << >>]
  BY DEF NextEvaluation, Trio, SyncInv, OrderInv
<1>2. /\ wire' = [l \in Links |-> << >>] /\ queued' = queued /\ transport' = transport
      /\ flips' = flips
  BY DEF NextEvaluation, Trio
<1>3. ASSUME NEW a \in Parties, NEW b \in Parties, a # b PROVE Msgs(a, b)' = << >>
  <2>1. wire'[<<a, b>>] = << >> /\ queued'[<<a, b>>] = << >>
    BY <1>1, <1>2, <1>3, LinkFacts
  <2> QED BY <2>1 DEF Msgs
<1>4. \A p \in Parties : at[p] = "done" /\ sub'[p] = "send" /\ at'[p] \in {"triples", "level"}
  BY DEF NextEvaluation, FirstRound
<1> QED BY <1>2, <1>3, <1>4 DEF Fewer

-----------------------------------------------------------------------------
(* What a step leaves a party. *)

Holds(p, products, lost, sharings, opened, stock, value, output) ==
    /\ triples'[p] = products /\ astray'[p] = lost /\ zeros'[p] = sharings /\ log'[p] = opened
    /\ pool'[p] = stock /\ z'[p] = value /\ shown'[p] = output
Unmoved(x) == Holds(x, triples[x], astray[x], zeros[x], log[x], pool[x], z[x], shown[x])

(* What a party that goes on, or returns, holds after each round.          *)
LEMMA TakesHold ==
    ASSUME SyncInv, NEW p \in Parties, Takes(p) \/ Returns(p)
    PROVE  /\ at[p] = "triples" =>
                Holds(p, Inbound(p), astray[p], zeros[p], log[p], pool[p], z[p], shown[p])
           /\ at[p] = "coin" =>
                Holds(p, triples[p], astray[p] \/ Inbound(p)[1] = 1, zeros[p],
                      log[p] \o Inbound(p), pool[p], z[p], shown[p])
           /\ at[p] = "cut" =>
                /\ Holds(p, triples[p], astray[p], zeros[p], log[p] \o CutValues(p), pool[p], z[p], shown[p])
                /\ \A i \in 1..Cut : Opens(p, i) # <<0, 0, 1>>
           /\ at[p] = "pairs" =>
                Holds(p, triples[p], astray[p], ZeroSharings(p), log[p] \o PairErrors(p),
                      pool[p], z[p], shown[p])
           /\ at[p] = "zero" =>
                Unmoved(p) /\ SameFor(heard[p], Column(p, 2)) /\ SameFor(FromNext(p), Column(p, 1))
           /\ at[p] = "views" =>
                /\ Holds(p, NoVector, astray[p], NoVector, NoVector, pool[p] \o Survivors(p), z[p], shown[p])
                /\ ViewsAgree(p)
           /\ at[p] = "level" =>
                Holds(p, triples[p], astray[p], zeros[p], log[p] \o <<LevelD(p), LevelE(p)>>,
                      SubSeq(pool[p], 1, Len(pool[p]) - 1), LevelZ(p), shown[p])
           /\ at[p] \in {"check", "shown"} =>
                /\ Holds(p, triples[p], astray[p], zeros[p], NoVector, pool[p], z[p], shown[p])
                /\ ViewsAgree(p)
           /\ at[p] = "open" =>
                Holds(p, triples[p], astray[p], zeros[p], log[p] \o <<LevelD(p)>>, pool[p], z[p], LevelD(p))
           /\ at[p] \in Resharing \cup Exchanges /\ Gets(p, at[p])
<1>1. Domains
  BY TypeParts DEF SyncInv, Typed
<1>2. Resharing \cup Exchanges =
          {"triples", "coin", "cut", "pairs", "zero", "views", "check", "shown", "level", "open"}
  BY DEF Resharing, Exchanges, Generating
<1>3. CASE TakeTriples(p)
  <2>1. at[p] = "triples" /\ Gets(p, at[p])
    BY <1>3 DEF TakeTriples, Gets
  <2>2. Holds(p, Inbound(p), astray[p], zeros[p], log[p], pool[p], z[p], shown[p])
    BY <1>1, <1>3 DEF TakeTriples, Holds, Domains
  <2> QED BY <1>2, <2>1, <2>2
<1>4. CASE TakeCoin(p)
  <2>1. at[p] = "coin" /\ Gets(p, at[p])
    BY <1>4 DEF TakeCoin, Gets
  <2>2. Holds(p, triples[p], astray[p] \/ Inbound(p)[1] = 1, zeros[p],
              log[p] \o Inbound(p), pool[p], z[p], shown[p])
    BY <1>1, <1>4 DEF TakeCoin, Opened, Holds, Domains
  <2> QED BY <1>2, <2>1, <2>2
<1>5. CASE TakeCut(p)
  <2>1. at[p] = "cut" /\ Gets(p, at[p]) /\ \A i \in 1..Cut : Opens(p, i) # <<0, 0, 1>>
    BY <1>5 DEF TakeCut, Gets
  <2>2. Holds(p, triples[p], astray[p], zeros[p], log[p] \o CutValues(p), pool[p], z[p], shown[p])
    BY <1>1, <1>5 DEF TakeCut, Opened, Holds, Domains
  <2> QED BY <1>2, <2>1, <2>2
<1>6. CASE TakePairs(p)
  <2>1. at[p] = "pairs" /\ Gets(p, at[p])
    BY <1>6 DEF TakePairs, Gets
  <2>2. /\ log' = [log EXCEPT ![p] = @ \o PairErrors(p)]
        /\ zeros' = [zeros EXCEPT ![p] = ZeroSharings(p)]
        /\ UNCHANGED <<triples, astray, pool, z, shown>>
    BY <1>6 DEF TakePairs, Opened, PairErrors, ZeroSharings, Known, Kept
  <2>3. Holds(p, triples[p], astray[p], ZeroSharings(p), log[p] \o PairErrors(p), pool[p], z[p], shown[p])
    BY <1>1, <2>2 DEF Holds, Domains
  <2> QED BY <1>2, <2>1, <2>3
<1>7. CASE ZeroChecked(p)
  <2>1. /\ at[p] = "zero" /\ Gets(p, at[p])
        /\ SameFor(heard[p], Column(p, 2)) /\ SameFor(FromNext(p), Column(p, 1))
    BY <1>7 DEF ZeroChecked, Gets
  <2>2. Unmoved(p)
    BY <1>7 DEF ZeroChecked, Unmoved, Holds, local
  <2> QED BY <1>2, <2>1, <2>2
<1>8. CASE Refilled(p)
  <2>1. at[p] = "views" /\ Gets(p, at[p]) /\ ViewsAgree(p)
    BY <1>8 DEF Refilled, Gets
  <2>2. Holds(p, NoVector, astray[p], NoVector, NoVector, pool[p] \o Survivors(p), z[p], shown[p])
    BY <1>1, <1>8 DEF Refilled, Holds, Domains
  <2> QED BY <1>2, <2>1, <2>2
<1>9. CASE TakeLevel(p)
  <2>1. at[p] = "level" /\ Gets(p, at[p])
    BY <1>9 DEF TakeLevel, Gets
  <2>2. /\ log' = [log EXCEPT ![p] = @ \o <<LevelD(p), LevelE(p)>>]
        /\ z' = [z EXCEPT ![p] = LevelZ(p)] /\ pool' = [pool EXCEPT ![p] = SubSeq(@, 1, Len(@) - 1)]
        /\ UNCHANGED <<triples, astray, zeros, shown>>
    BY <1>9 DEF TakeLevel, Opened, LevelD, LevelE, LevelZ
  <2>3. Holds(p, triples[p], astray[p], zeros[p], log[p] \o <<LevelD(p), LevelE(p)>>,
              SubSeq(pool[p], 1, Len(pool[p]) - 1), LevelZ(p), shown[p])
    BY <1>1, <2>2 DEF Holds, Domains
  <2> QED BY <1>2, <2>1, <2>3
<1>10. CASE Evaluated(p)
  <2>1. at[p] = "check" /\ Gets(p, at[p]) /\ ViewsAgree(p)
    BY <1>10 DEF Evaluated, Gets
  <2>2. Holds(p, triples[p], astray[p], zeros[p], NoVector, pool[p], z[p], shown[p])
    BY <1>1, <1>10 DEF Evaluated, Holds, Domains
  <2> QED BY <1>2, <2>1, <2>2
<1>11. CASE OpensWords(p)
  <2>1. at[p] = "shown" /\ Gets(p, at[p]) /\ ViewsAgree(p)
    BY <1>11 DEF OpensWords, Gets
  <2>2. Holds(p, triples[p], astray[p], zeros[p], NoVector, pool[p], z[p], shown[p])
    BY <1>1, <1>11 DEF OpensWords, Holds, Domains
  <2> QED BY <1>2, <2>1, <2>2
<1>12. CASE TakeOpen(p)
  <2>1. at[p] = "open" /\ Gets(p, at[p])
    BY <1>12 DEF TakeOpen, Gets
  <2>2. Holds(p, triples[p], astray[p], zeros[p], log[p] \o <<LevelD(p)>>, pool[p], z[p], LevelD(p))
    BY <1>1, <1>12 DEF TakeOpen, Opened, LevelD, Holds, Domains
  <2> QED BY <1>2, <2>1, <2>2
<1> QED BY <1>3, <1>4, <1>5, <1>6, <1>7, <1>8, <1>9, <1>10, <1>11, <1>12 DEF Takes, Returns

(* A thread that returns has agreed with the others, and leaves.           *)
LEMMA ReturnsKeep ==
    ASSUME SyncInv, NEW p \in Parties, Returns(p)
    PROVE  /\ Ends(p, "done") /\ \A x \in Parties : x # p => Unmoved(x) /\ Stays(x)
           /\ at[p] \in {"check", "shown"} /\ sub[p] = "fromNext" /\ Readable(NextOf(p), p) /\ ~Ended(p)
           /\ transport = "channel" /\ Tag(p)' = After(Tag(p))
<1>1. Domains /\ transport \in {"channel", "tcp"} /\ PlaceInv(p)
  BY TypeParts DEF SyncInv, Typed, NetTypeOK
<1>2. CASE OpensWords(p)
  <2>1. at[p] = "shown" /\ sub[p] = "fromNext" /\ Readable(NextOf(p), p) /\ Ends(p, "done")
    BY <1>2 DEF OpensWords, Gets
  <2>2. transport = "channel"
    BY <1>1, <2>1 DEF PlaceInv
  <2>3. \A x \in Parties : x # p => Unmoved(x) /\ Stays(x)
    BY <1>1, <1>2 DEF OpensWords, Ends, Unmoved, Holds, Stays, Domains
  <2>4. done'[p] = done[p] /\ at'[p] = "done"
    BY <1>1, <1>2 DEF OpensWords, Ends, Domains
  <2>5. Tag(p) = <<done[p], "shown", 0>> /\ Tag(p)' = <<done[p], "done", 0>>
    BY <2>1, <2>4 DEF Tag
  <2>6. After(Tag(p)) = <<done[p], "done", 0>>
    BY <2>5 DEF After
  <2> QED BY <2>1, <2>2, <2>3, <2>5, <2>6 DEF Ended
<1>3. CASE Evaluated(p) /\ ~(transport = "tcp" \/ Opening)
  <2>1. at[p] = "check" /\ sub[p] = "fromNext" /\ Readable(NextOf(p), p)
    BY <1>3 DEF Evaluated, Gets
  <2>2. transport = "channel" /\ Ends(p, "done") /\ UNCHANGED count
    BY <1>1, <1>3 DEF Evaluated
  <2>3. \A x \in Parties : x # p => Unmoved(x) /\ Stays(x)
    BY <1>1, <1>3, <2>2 DEF Evaluated, Ends, Unmoved, Holds, Stays, Domains
  <2>4. done'[p] = done[p] + 1 /\ at'[p] = "done"
    BY <1>1, <1>3, <2>2 DEF Evaluated, Ends, Domains
  <2>5. Tag(p) = <<done[p], "check", 0>> /\ Tag(p)' = <<done[p] + 1, "done", 0>>
    BY <2>1, <2>4 DEF Tag
  <2>6. After(Tag(p)) = <<done[p] + 1, "done", 0>>
    BY <1>3, <2>5 DEF After
  <2> QED BY <2>1, <2>2, <2>3, <2>5, <2>6 DEF Ended
<1> QED BY <1>2, <1>3 DEF Returns

(* A party that fails, or has handed its result over, leaves with what it  *)
(* had.                                                                    *)
LEMMA LeavesKeep ==
    ASSUME SyncInv, NEW p \in Parties, Fails(p) \/ Quits(p)
    PROVE  /\ UNCHANGED local /\ \A x \in Parties : Unmoved(x)
           /\ \E how \in {"done", "aborted"} : Ends(p, how)
           /\ Fails(p) => Ends(p, "aborted")
           /\ Quits(p) => transport = "tcp"
<1>1. Fails(p) => Ends(p, "aborted") /\ UNCHANGED local
  BY DEF Fails, CutFails, ZeroFails, ViewsFail, Cascade, SendFails
<1>2. Quits(p) => UNCHANGED local /\ at[p] = "hand" /\ \E how \in {"done", "aborted"} : Ends(p, how)
  BY SubFacts DEF Quits, Exit, Reconstruct
<1>3. at[p] = "hand" => transport = "tcp"
  BY DEF SyncInv, PlaceInv
<1>4. UNCHANGED local => \A x \in Parties : Unmoved(x)
  BY DEF Unmoved, Holds, local
<1> QED BY <1>1, <1>2, <1>3, <1>4

-----------------------------------------------------------------------------
(* Nothing wrong comes of what is right. *)

(* Sequences without an error.                                             *)
LEMMA ZeroFacts ==
    /\ Zero(NoVector)
    /\ \A s, t \in Seq(Errors) : Zero(s) /\ Zero(t) => Zero(s \o t)
    /\ \A s \in Seq(Errors), n \in Nat : n <= Len(s) /\ Zero(s) => Zero(SubSeq(s, 1, n))
    /\ \A n \in Nat : Zero(All(n, 0))
    /\ \A a, b : a = 0 /\ b = 0 => Zero(<<a, b>>) /\ Zero(<<a>>)
    /\ Xor(0, 0) = 0
<1>1. ASSUME NEW s \in Seq(Errors), NEW t \in Seq(Errors), Zero(s), Zero(t) PROVE Zero(s \o t)
  BY <1>1 DEF Zero
<1>2. ASSUME NEW s \in Seq(Errors), NEW n \in Nat, n <= Len(s), Zero(s) PROVE Zero(SubSeq(s, 1, n))
  <2>1. SubSeq(s, 1, n) \in Seq(Errors) /\ Len(SubSeq(s, 1, n)) = n
        /\ \A i \in 1..n : SubSeq(s, 1, n)[i] = s[i]
    BY <1>2, FrontFacts
  <2> QED BY <1>2, <2>1 DEF Zero
<1>3. Zero(NoVector) /\ \A n \in Nat : Zero(All(n, 0))
  BY DEF Zero, NoVector, All
<1>4. \A a, b : a = 0 /\ b = 0 => Zero(<<a, b>>) /\ Zero(<<a>>)
  BY DEF Zero
<1>5. Xor(0, 0) = 0
  BY XorFacts DEF Errors
<1> QED BY <1>1, <1>2, <1>3, <1>4, <1>5

(* The third components that are opened are among those generated.         *)
LEMMA CutIndex ==
    ASSUME SyncInv, NEW p \in Parties, at[p] = "cut"
    PROVE  /\ Cut \in Nat /\ Generated(p) \in Nat /\ Generated(p) >= Cut
           /\ triples[p] \in Vectors(Generated(p)) /\ DOMAIN triples[p] = 1..Generated(p)
           /\ \A i \in 1..(3 * Cut) : i % 3 = 0 => i \div 3 \in DOMAIN triples[p] /\ i \div 3 \in 1..Cut
           /\ DOMAIN CutShares(p) = 1..(3 * Cut)
           /\ Zero(triples[p]) => Zero(CutShares(p))
<1>1. Generated(p) \in Nat /\ Generated(p) >= Cut /\ triples[p] \in Vectors(Generated(p)) /\ Cut \in Nat
  BY RefillFacts, SizeFacts DEF SyncInv, PlaceInv, Drawn, RefillRounds, Generating
<1>2. DOMAIN triples[p] = 1..Generated(p)
  BY <1>1, VectorFacts
<1>3. \A i \in 1..(3 * Cut) : i % 3 = 0 => i \div 3 \in 1..Generated(p) /\ i \div 3 \in 1..Cut
  BY <1>1
<1>4. DOMAIN CutShares(p) = 1..(3 * Cut)
  BY DEF CutShares
<1>5. Zero(triples[p]) => Zero(CutShares(p))
  BY <1>2, <1>3, <1>4 DEF Zero, CutShares
<1> QED BY <1>1, <1>2, <1>3, <1>4, <1>5

(* Nothing is wrong in what party p works with, whatever it has opened.    *)
Sober(p) ==
    /\ Zero(pool[p]) /\ Zero(triples[p]) /\ ~astray[p] /\ z[p] = Clear /\ shown[p] = 0

(* A party that reads nothing wrong goes on with nothing wrong.            *)
LEMMA TakesSober ==
    ASSUME SyncInv, NEW p \in Parties, Takes(p) \/ Returns(p), Sober(p),
           at[p] \in Resharing => Zero(Inbound(p))
    PROVE  Sober(p)' /\ (Zero(log[p]) => Zero(log'[p]))
<1>1. /\ Zero(pool[p]) /\ ~astray[p] /\ z[p] = Clear /\ shown[p] = 0 /\ Zero(triples[p])
  BY DEF Sober
<1>2. at[p] \in Resharing \cup Exchanges /\ Gets(p, at[p])
  BY TakesHold
<1>3. ~Ended(p) /\ Readable(NextOf(p), p) /\ PartyOK(p)
  BY <1>2, Gotten
<1>4. /\ Inbound(p) \in Seq(Errors) /\ DOMAIN Inbound(p) = 1..Size(Tag(p)) /\ Tag(p)[2] = at[p]
      /\ Len(Inbound(p)) = Size(Tag(p))
  BY <1>3, GotNext, TagFacts DEF Ended
<1>5. pool[p] \in Seq(Errors) /\ log[p] \in Seq(Errors)
  BY <1>3 DEF PartyOK
<1>6. Resharing \cup Exchanges =
          {"triples", "coin", "cut", "pairs", "zero", "views", "check", "shown", "level", "open"}
      /\ Resharing = {"triples", "coin", "cut", "pairs", "level", "open"}
  BY DEF Resharing, Exchanges, Generating
<1> DEFINE Good(products, lost, opened, stock, value, output) ==
             /\ Zero(stock) /\ ~lost /\ value = Clear /\ output = 0 /\ Zero(products)
             /\ Zero(log[p]) => Zero(opened)
<1>7. ASSUME NEW a, NEW b, NEW c, NEW d, NEW e, NEW f, NEW g,
             Holds(p, a, b, c, d, e, f, g), Good(a, b, d, e, f, g)
      PROVE  Sober(p)' /\ (Zero(log[p]) => Zero(log'[p]))
  BY <1>7 DEF Holds, Sober
<1>8. CASE at[p] = "triples"
  <2>1. Good(Inbound(p), astray[p], log[p], pool[p], z[p], shown[p])
    BY <1>1, <1>6, <1>8
  <2> HIDE DEF Good
  <2> QED BY <1>7, <1>8, <2>1, TakesHold
<1>9. CASE at[p] = "coin"
  <2>1. Zero(Inbound(p)) /\ Inbound(p)[1] = 0
    BY <1>4, <1>6, <1>9, TagValues DEF Zero
  <2>2. Zero(log[p]) => Zero(log[p] \o Inbound(p))
    BY <1>1, <1>4, <1>5, <2>1, ZeroFacts
  <2>3. Good(triples[p], astray[p] \/ Inbound(p)[1] = 1, log[p] \o Inbound(p), pool[p], z[p], shown[p])
    BY <1>1, <2>1, <2>2
  <2> HIDE DEF Good
  <2> QED BY <1>7, <1>9, <2>3, TakesHold
<1>10. CASE at[p] = "cut"
  <2>1. Zero(CutValues(p)) /\ CutValues(p) \in Seq(Errors)
    <3>1. Zero(CutShares(p)) /\ Zero(Inbound(p)) /\ DOMAIN CutShares(p) = 1..(3 * Cut)
      BY <1>1, <1>6, <1>10, CutIndex
    <3>2. DOMAIN Inbound(p) = 1..(3 * Cut)
      BY <1>4, <1>10, TagValues
    <3>3. \A i \in 1..(3 * Cut) : CutValues(p)[i] = 0
      BY <1>1, <3>1, <3>2, ZeroFacts DEF CutValues, Zero
    <3>4. CutValues(p) \in Vectors(3 * Cut) /\ 3 * Cut \in Nat
      BY <1>2, <1>10, CutFacts, SizeFacts
    <3> QED BY <3>3, <3>4, VectorFacts DEF Zero
  <2>2. Zero(log[p]) => Zero(log[p] \o CutValues(p))
    BY <1>1, <1>5, <2>1, ZeroFacts
  <2>3. Good(triples[p], astray[p], log[p] \o CutValues(p), pool[p], z[p], shown[p])
    BY <1>1, <2>2
  <2> HIDE DEF Good
  <2> QED BY <1>7, <1>10, <2>3, TakesHold
<1>11. CASE at[p] = "pairs"
  <2>1. Zero(Inbound(p)) /\ PairErrors(p) = Inbound(p)
    BY <1>1, <1>6, <1>11 DEF PairErrors
  <2>2. Zero(log[p]) => Zero(log[p] \o PairErrors(p))
    BY <1>1, <1>4, <1>5, <2>1, ZeroFacts
  <2>3. Good(triples[p], astray[p], log[p] \o PairErrors(p), pool[p], z[p], shown[p])
    BY <1>1, <2>2
  <2> HIDE DEF Good
  <2> QED BY <1>7, <1>11, <2>3, TakesHold
<1>12. CASE at[p] = "zero"
  <2>1. Unmoved(p)
    BY <1>12, TakesHold
  <2> QED BY <1>1, <2>1 DEF Unmoved, Holds, Sober
<1>13. CASE at[p] = "views"
  <2>1. Zero(Survivors(p)) /\ Survivors(p) \in Seq(Errors)
    <3>1. /\ triples[p] \in Vectors(Generated(p)) /\ Generated(p) = CountIn(done[p]) * Bucket + Cut
          /\ count[p] = CountIn(done[p]) /\ CountIn(done[p]) \in Nat \ {0} /\ Generated(p) \in Nat
          /\ Cut \in Nat
      BY <1>13, RefillFacts, SizeFacts DEF SyncInv, PlaceInv, Drawn, RefillRounds, Generating
    <3>2. \A b \in 1..count[p] : HeadOf(b) \in 1..Generated(p)
      <4>1. \A b \in 1..count[p] : HeadOf(b) \in (Cut + 1)..Generated(p)
        BY <3>1, HeadFacts
      <4>2. (Cut + 1)..Generated(p) \subseteq 1..Generated(p)
        BY <3>1
      <4> QED BY <4>1, <4>2
    <3>3. \A b \in 1..count[p] : Survivors(p)[b] = 0
      BY <1>1, <3>1, <3>2, VectorFacts DEF Survivors, Zero
    <3>4. Survivors(p) = [b \in 1..count[p] |-> 0] /\ 0 \in Errors
      BY <3>3 DEF Survivors, Errors
    <3> QED BY <3>1, <3>4 DEF Zero
  <2>2. Zero(pool[p] \o Survivors(p))
    BY <1>1, <1>5, <2>1, ZeroFacts
  <2>3. Good(NoVector, astray[p], NoVector, pool[p] \o Survivors(p), z[p], shown[p])
    BY <1>1, <2>2, ZeroFacts DEF NoVector
  <2> HIDE DEF Good
  <2> QED BY <1>7, <1>13, <2>3, TakesHold
<1>14. at[p] \in {"level", "open"} => LevelD(p) = 0 /\ z[p][1] = 0 /\ z[p][2] = 0
  <2> SUFFICES ASSUME at[p] \in {"level", "open"} PROVE LevelD(p) = 0 /\ z[p][1] = 0 /\ z[p][2] = 0
    OBVIOUS
  <2>1. Inbound(p)[1] = 0
    BY <1>4, <1>6, TagValues DEF Zero
  <2> QED BY <1>1, <2>1, ZeroFacts DEF LevelD, Clear
<1>15. CASE at[p] = "level"
  <2>1. LevelD(p) = 0 /\ LevelE(p) = 0
    BY <1>4, <1>6, <1>14, <1>15, TagValues DEF LevelE, Zero
  <2>2. Len(pool[p]) \in Nat \ {0} /\ <<LevelD(p), LevelE(p)>> \in Seq(Errors)
    <3>1. Gets(p, "level")
      BY <1>2, <1>15
    <3>2. Len(pool[p]) \in Nat \ {0} /\ <<LevelD(p), LevelE(p)>> \in Vectors(2)
      BY <3>1, LevelFacts
    <3> QED BY <3>2, VectorFacts
  <2>3. (Zero(log[p]) => Zero(log[p] \o <<LevelD(p), LevelE(p)>>)) /\ Zero(SubSeq(pool[p], 1, Len(pool[p]) - 1))
    <3>1. Zero(<<LevelD(p), LevelE(p)>>)
      BY <2>1, ZeroFacts
    <3>2. Zero(log[p]) => Zero(log[p] \o <<LevelD(p), LevelE(p)>>)
      BY <1>1, <1>5, <2>2, <3>1, ZeroFacts
    <3>3. Len(pool[p]) - 1 \in Nat /\ Len(pool[p]) - 1 <= Len(pool[p])
      BY <2>2
    <3> QED BY <1>1, <1>5, <3>2, <3>3, ZeroFacts
  <2>4. LevelZ(p) = Clear
    BY <1>1, <1>5, <2>1, <2>2 DEF LevelZ, Zero, Clear
  <2>5. Good(triples[p], astray[p], log[p] \o <<LevelD(p), LevelE(p)>>,
             SubSeq(pool[p], 1, Len(pool[p]) - 1), LevelZ(p), shown[p])
    BY <1>1, <2>3, <2>4
  <2> HIDE DEF Good
  <2> QED BY <1>7, <1>15, <2>5, TakesHold
<1>16. CASE at[p] \in {"check", "shown"}
  <2>1. Good(triples[p], astray[p], NoVector, pool[p], z[p], shown[p])
    BY <1>1, ZeroFacts
  <2> HIDE DEF Good
  <2> QED BY <1>7, <1>16, <2>1, TakesHold
<1>17. CASE at[p] = "open"
  <2>1. Zero(log[p]) => Zero(log[p] \o <<LevelD(p)>>)
    <3>1. <<LevelD(p)>> \in Seq(Errors) /\ Zero(<<LevelD(p)>>)
      <4>1. LevelD(p) = 0 /\ 0 \in Errors
        BY <1>14, <1>17 DEF Errors
      <4>2. <<LevelD(p)>> \in Seq(Errors)
        BY <4>1
      <4>3. Zero(<<LevelD(p)>>)
        BY <4>1 DEF Zero
      <4> QED BY <4>2, <4>3
    <3> QED BY <1>1, <1>5, <3>1, ZeroFacts
  <2>2. Good(triples[p], astray[p], log[p] \o <<LevelD(p)>>, pool[p], z[p], LevelD(p))
    BY <1>1, <1>14, <1>17, <2>1
  <2> HIDE DEF Good
  <2> QED BY <1>7, <1>17, <2>2, TakesHold
<1> QED BY <1>2, <1>6, <1>8, <1>9, <1>10, <1>11, <1>12, <1>13, <1>15, <1>16, <1>17

(* Its sharings of zero are right.                                         *)
LEMMA TakesZeros ==
    ASSUME SyncInv, NEW p \in Parties, Gets(p, "pairs"), Zero(Inbound(p)), ~astray[p], Zero(triples[p])
    PROVE  \A k \in DOMAIN ZeroSharings(p) : ZeroSharings(p)[k] = Clear
<1>1. /\ at[p] = "pairs" /\ ~Ended(p) /\ Readable(NextOf(p), p)
      /\ Tag(p)[2] = "pairs" /\ Tag(p)[1] = done[p]
  BY Gotten DEF Resharing, Generating
<1>2. DOMAIN Inbound(p) = 1..(2 * PairsIn(done[p])) /\ PairErrors(p) = Inbound(p)
  BY <1>1, GotNext, TagValues DEF PairErrors
<1>3. Generated(p) \in Nat /\ triples[p] \in Vectors(Generated(p))
  BY <1>1, RefillFacts DEF SyncInv, PlaceInv, Drawn, RefillRounds, Generating
<1>4. ASSUME NEW k \in Pairs(p) PROVE ZeroSharings(p)[k] = Clear
  <2>1. /\ HeadOf(BucketOf(k)) \in 1..Generated(p) /\ PartnerOf(k) \in 1..Generated(p)
        /\ 2 * k \in 1..(2 * PairsIn(done[p])) /\ 2 * k - 1 \in 1..(2 * PairsIn(done[p]))
    BY <1>4, SacrificeFacts
  <2>2. Known(p, k)
    BY <1>2, <2>1 DEF Known, Zero
  <2>3. triples[p][HeadOf(BucketOf(k))] = 0 /\ triples[p][PartnerOf(k)] = 0
    BY <1>3, <2>1, VectorFacts DEF Zero
  <2>4. Kept(p, k) = Clear
    BY <2>3, ZeroFacts DEF Kept, Clear
  <2> QED BY <1>4, <2>2, <2>4 DEF ZeroSharings
<1> QED BY <1>4 DEF ZeroSharings

(* A party that reads nothing wrong has nothing wrong.                     *)
LEMMA TakesRested ==
    ASSUME SyncInv, NEW p \in Parties, Takes(p) \/ Returns(p), Rested(p),
           at[p] \in Resharing => Zero(Inbound(p))
    PROVE  Rested(p)'
<1>1. Sober(p) /\ Zero(log[p]) /\ \A k \in DOMAIN zeros[p] : zeros[p][k] = Clear
  BY DEF Rested, Calm, Sober
<1>2. Sober(p)' /\ Zero(log[p])'
  BY <1>1, TakesSober
<1>3. at[p] \in Resharing \cup Exchanges /\ Gets(p, at[p])
  BY TakesHold
<1>4. zeros'[p] \in {zeros[p], NoVector} \/ (at[p] = "pairs" /\ zeros'[p] = ZeroSharings(p))
  BY <1>3, TakesHold DEF Holds, Unmoved, Resharing, Exchanges, Generating
<1>5. at[p] = "pairs" => \A k \in DOMAIN ZeroSharings(p) : ZeroSharings(p)[k] = Clear
  BY <1>1, <1>3, TakesZeros DEF Sober, Resharing, Generating
<1>6. \A k \in DOMAIN zeros'[p] : zeros'[p][k] = Clear
  BY <1>1, <1>4, <1>5 DEF NoVector
<1> QED BY <1>2, <1>6 DEF Rested, Calm, Sober

(* What a party with nothing wrong sends has nothing wrong.                *)
LEMMA RestedSays ==
    ASSUME SyncInv, NEW p \in Parties, at[p] \in Rounds, Rested(p)
    PROVE  Zero(Part(p))
<1>1. /\ Zero(log[p]) /\ ~astray[p] /\ z[p] = Clear /\ Zero(triples[p])
      /\ \A k \in DOMAIN zeros[p] : zeros[p][k] = Clear
  BY DEF Rested, Calm
<1>2. CASE at[p] \in Resharing
  <2>1. Part(p) = Seconds(p)
    BY <1>2 DEF Part
  <2>2. CASE at[p] = "triples"
    <3>1. Generated(p) \in Nat
      BY <2>2, RefillFacts DEF RefillRounds, Generating
    <3>2. Zero(All(Generated(p), 0))
      BY <3>1, ZeroFacts
    <3> QED BY <2>1, <2>2, <3>2 DEF Seconds
  <2>3. CASE at[p] = "coin"
    BY <2>1, <2>3, ZeroFacts DEF Seconds
  <2>4. CASE at[p] = "cut"
    BY <1>1, <2>1, <2>4, CutIndex DEF Seconds
  <2>5. CASE at[p] = "pairs"
    <3>1. 2 * Cardinality(Pairs(p)) \in Nat
      <4>1. Cardinality(Pairs(p)) \in Nat
        BY <2>5, RefillFacts DEF RefillRounds, Generating
      <4> QED BY <4>1
    <3>2. Zero(All(2 * Cardinality(Pairs(p)), 0))
      BY <3>1, ZeroFacts
    <3> QED BY <1>1, <2>1, <2>5, <3>2 DEF Seconds
  <2>6. CASE at[p] = "level"
    <3>1. Seconds(p) = <<z[p][2], 0>> /\ z[p][2] = 0
      BY <1>1, <2>6 DEF Seconds, Clear
    <3> QED BY <2>1, <3>1 DEF Zero
  <2>7. CASE at[p] = "open"
    <3>1. Seconds(p) = <<z[p][2]>> /\ z[p][2] = 0
      BY <1>1, <2>7 DEF Seconds, Clear
    <3> QED BY <2>1, <3>1 DEF Zero
  <2> QED BY <1>2, <2>2, <2>3, <2>4, <2>5, <2>6, <2>7 DEF Resharing, Generating
<1>3. CASE at[p] \notin Resharing
  <2>1. Zero(z[p])
    BY <1>1 DEF Zero, Clear
  <2>2. Zero(Claimed(p))
    BY <1>1, ZeroFacts DEF Claimed, Zero, Clear
  <2> QED BY <1>1, <1>3, <2>1, <2>2 DEF Part, Said
<1> QED BY <1>2, <1>3

(* A step leaves the other parties as they are.                            *)
LEMMA OthersStay ==
    ASSUME SyncInv, NEW p \in Parties,
           Sends(p) \/ HearPrev(p) \/ Takes(p) \/ Returns(p) \/ Fails(p) \/ Quits(p)
    PROVE  \A x \in Parties : x # p => Stays(x)
<1>1. CASE HearPrev(p)
  <2>1. Domains
    BY TypeParts DEF SyncInv, Typed
  <2> QED BY <1>1, <2>1 DEF HearPrev, Stays, Domains, local
<1>2. CASE Fails(p) \/ Quits(p)
  <2>1. PICK how \in {"done", "aborted"} : Ends(p, how)
    BY <1>2, LeavesKeep
  <2>2. UNCHANGED local
    BY <1>2, LeavesKeep
  <2>3. \A x \in Parties : x # p => at'[x] = at[x] /\ sub'[x] = sub[x] /\ heard'[x] = heard[x]
    BY <2>1, EndsDrop
  <2> QED BY <2>2, <2>3 DEF Stays, local
<1> QED BY <1>1, <1>2, SendsKeep, TakesKeep, ReturnsKeep

(* What is true of a party that a step does not touch stays true.          *)
LEMMA StaysFacts ==
    ASSUME NEW x, Stays(x)
    PROVE  /\ Unmoved(x) /\ Calm(x)' = Calm(x) /\ Rested(x)' = Rested(x) /\ Tag(x)' = Tag(x)
           /\ Listening(x)' = Listening(x) /\ HeardZero(x)' = HeardZero(x) /\ Ended(x)' = Ended(x)
           /\ heard'[x] = heard[x] /\ at'[x] = at[x] /\ sub'[x] = sub[x]
<1>1. Unmoved(x) /\ heard'[x] = heard[x] /\ at'[x] = at[x] /\ sub'[x] = sub[x]
  BY DEF Stays, Unmoved, Holds
<1>2. Calm(x)' = Calm(x)
  BY <1>1 DEF Unmoved, Holds, Calm
<1>3. Rested(x)' = Rested(x)
  BY <1>1, <1>2 DEF Unmoved, Holds, Rested
<1>4. Listening(x)' = Listening(x) /\ Ended(x)' = Ended(x)
  BY <1>1 DEF Listening, Ended
<1>5. HeardZero(x)' = HeardZero(x)
  BY <1>1, <1>4 DEF HeardZero
<1>6. Tag(x)' = Tag(x)
  BY DEF Stays, Tag
<1> QED BY <1>1, <1>2, <1>3, <1>4, <1>5, <1>6

(* What a party knows that has moved nothing.                              *)
LEMMA UnmovedFacts ==
    ASSUME NEW x, Unmoved(x)
    PROVE  Calm(x)' = Calm(x) /\ Rested(x)' = Rested(x)
<1>1. Calm(x)' = Calm(x)
  BY DEF Unmoved, Holds, Calm
<1>2. Rested(x)' = Rested(x)
  BY <1>1 DEF Unmoved, Holds, Rested
<1> QED BY <1>1, <1>2

(* A party hears what its previous neighbour sent it.                      *)
LEMMA HearsKeep ==
    ASSUME SyncInv, NEW p \in Parties, HearPrev(p)
    PROVE  /\ \A x \in Parties : Unmoved(x)
           /\ at' = at /\ flips' = flips /\ sub'[p] = "fromNext" /\ ~Ended(p) /\ Tag(p)' = Tag(p)
           /\ at[p] \in Exchanges /\ sub[p] = "fromPrev" /\ Listening(p)' /\ ~Listening(p)
           /\ Pulls(p, PrevOf(p)) /\ transport' = transport
           /\ heard'[p] = Msgs(PrevOf(p), p)[1] /\ heard'[p].tag = Tag(p)
<1>1. Domains
  BY TypeParts DEF SyncInv, Typed
<1>2. /\ at[p] \in Exchanges /\ sub[p] = "fromPrev" /\ Readable(PrevOf(p), p) /\ Read(PrevOf(p), p)
      /\ at' = at /\ flips' = flips /\ sub'[p] = "fromNext"
      /\ heard'[p] = Incoming(PrevOf(p), p) /\ UNCHANGED local
  BY <1>1 DEF HearPrev, Domains
<1>3. ~Ended(p)
  BY <1>2 DEF Exchanges, Ended
<1>4. PrevOf(p) \in Parties /\ PrevOf(p) # p /\ NextOf(PrevOf(p)) = p /\ p # PrevOf(PrevOf(p))
  BY RingFacts
<1>5. Pulls(p, PrevOf(p)) /\ transport' = transport /\ Incoming(PrevOf(p), p) = Msgs(PrevOf(p), p)[1]
  BY <1>2, <1>4, ReadsPull
<1>6. Incoming(PrevOf(p), p).tag = Tag(p)
  <2>1. Incoming(PrevOf(p), p).tag = ToRead(p, PrevOf(p))
    BY <1>2, <1>3, <1>4, Got
  <2>2. ToRead(p, PrevOf(p)) = NextExchange(Tag(p))
    BY <1>2, <1>4 DEF ToRead, HasRead, Due
  <2>3. Tag(p)[2] = at[p]
    BY DEF Tag
  <2>4. NextExchange(Tag(p)) = Tag(p)
    BY <1>2, <2>3 DEF NextExchange, Exchanges, Generating
  <2> QED BY <2>1, <2>2, <2>4
<1>7. (\A x \in Parties : Unmoved(x)) /\ Tag(p)' = Tag(p)
  BY <1>2 DEF Unmoved, Holds, local, Tag
<1> QED BY <1>2, <1>3, <1>5, <1>6, <1>7 DEF Listening

(* What is on its way stays right when nothing is added,                   *)
LEMMA CleanKept ==
    ASSUME Fewer, NEW a \in Parties, NEW b \in Parties, a # b, Clean(a, b)
    PROVE  Clean(a, b)'
BY DEF Fewer, Clean

(* or nothing that is wrong.                                               *)
LEMMA CleanPut ==
    ASSUME SyncInv, NEW p \in Parties, NEW q \in Parties, q # p, NEW m, Puts(p, q, m),
           NEW a \in Parties, NEW b \in Parties, a # b, Clean(a, b), <<a, b>> = <<p, q>> => Zero(m.body)
    PROVE  Clean(a, b)'
<1>1. CASE <<a, b>> # <<p, q>>
  BY <1>1 DEF Puts, Others, Clean
<1>2. CASE a = p /\ b = q
  <2>1. Msgs(a, b)' = Append(Msgs(a, b), m) /\ Msgs(a, b) \in Seq(Messages) /\ Zero(m.body)
    BY <1>2, MsgsFacts DEF Puts, SyncInv
  <2> PICK u : u = Msgs(a, b)'
    OBVIOUS
  <2>2. \A i \in DOMAIN u : Zero(u[i].body)
    BY <2>1 DEF Clean
  <2> QED BY <2>2 DEF Clean
<1> QED BY <1>1, <1>2

(* What a party waits for is right if what is on its way is.               *)
LEMMA InboundZero ==
    ASSUME SyncInv, NEW p \in Parties, ~Ended(p), Readable(NextOf(p), p), Clean(NextOf(p), p)
    PROVE  Zero(Inbound(p))
<1>1. NextOf(p) \in Parties /\ NextOf(p) # p
  BY RingFacts
<1> DEFINE q == NextOf(p)
<1>2. Readable(q, p) /\ q \in Parties /\ q # p
  BY <1>1
<1> HIDE DEF q
<1>3. Incoming(q, p) = Msgs(q, p)[1] /\ 1 \in DOMAIN Msgs(q, p)
  <2>1. /\ Incoming(q, p) = Msgs(q, p)[1] /\ Msgs(q, p) \in Seq(Messages)
        /\ 1 \in 1..Len(Msgs(q, p))
    BY <1>2, Got
  <2> QED BY <2>1
<1> QED BY <1>3 DEF q, Clean, Inbound

(* A party with nothing wrong that reads nothing wrong has nothing wrong.  *)
LEMMA StepRested ==
    ASSUME SyncInv, NEW p \in Parties,
           Sends(p) \/ HearPrev(p) \/ Takes(p) \/ Returns(p) \/ Fails(p) \/ Quits(p), Rested(p),
           (Takes(p) \/ Returns(p)) /\ at[p] \in Resharing => Zero(Inbound(p))
    PROVE  Rested(p)'
<1>1. CASE Takes(p) \/ Returns(p)
  BY <1>1, TakesRested
<1>2. CASE Sends(p)
  <2>1. Unmoved(p)
    BY <1>2, SendsKeep DEF Unmoved, Holds, local
  <2> QED BY <2>1, UnmovedFacts
<1>3. CASE HearPrev(p) \/ Fails(p) \/ Quits(p)
  BY <1>3, HearsKeep, LeavesKeep, UnmovedFacts
<1> QED BY <1>1, <1>2, <1>3

(* Nor has it heard anything wrong.                                        *)
LEMMA StepHeard ==
    ASSUME SyncInv, NEW p \in Parties,
           Sends(p) \/ HearPrev(p) \/ Takes(p) \/ Returns(p) \/ Fails(p) \/ Quits(p)
    PROVE  /\ HearPrev(p) /\ Clean(PrevOf(p), p) => HeardZero(p)'
           /\ ~HearPrev(p) => ~Listening(p)' /\ HeardZero(p)'
<1>1. ASSUME HearPrev(p), Clean(PrevOf(p), p) PROVE HeardZero(p)'
  <2>1. heard'[p] = Msgs(PrevOf(p), p)[1] /\ Msgs(PrevOf(p), p) # << >>
    BY <1>1, HearsKeep DEF Pulls
  <2>2. PrevOf(p) \in Parties /\ PrevOf(p) # p
    BY RingFacts
  <2>3. Msgs(PrevOf(p), p) \in Seq(Messages)
    BY <2>2, MsgsFacts DEF SyncInv
  <2>4. 1 \in DOMAIN Msgs(PrevOf(p), p)
    BY <2>1, <2>3
  <2> QED BY <1>1, <2>1, <2>4 DEF Clean, HeardZero
<1>2. ASSUME Sends(p) PROVE ~Listening(p)'
  BY <1>2, SendsKeep DEF Listening
<1>3. ASSUME Takes(p) PROVE ~Listening(p)'
  BY <1>3, TakesKeep DEF Listening
<1>4. ASSUME Returns(p) \/ Fails(p) \/ Quits(p) PROVE ~Listening(p)'
  <2>1. \E how : Ends(p, how)
    BY <1>4, ReturnsKeep, LeavesKeep
  <2> QED BY <2>1, EndsDrop DEF Listening
<1> QED BY <1>1, <1>2, <1>3, <1>4 DEF HeardZero

(* Nothing new is on its way when no party sends.                          *)
LEMMA StepFewer ==
    ASSUME SyncInv, NEW p \in Parties, HearPrev(p) \/ Takes(p) \/ Returns(p) \/ Fails(p) \/ Quits(p)
    PROVE  Fewer /\ transport' = transport /\ flips' = flips
<1>1. PrevOf(p) \in Parties /\ PrevOf(p) # p /\ NextOf(p) \in Parties /\ NextOf(p) # p
  BY RingFacts
<1>2. CASE HearPrev(p)
  BY <1>1, <1>2, HearsKeep, PullsFewer
<1>3. CASE Takes(p)
  <2>1. Readable(NextOf(p), p) /\ Read(NextOf(p), p) /\ flips' = flips
    BY <1>3, TakesKeep
  <2> QED BY <1>1, <2>1, ReadsPull, PullsFewer
<1>4. CASE Returns(p) \/ Fails(p) \/ Quits(p)
  <2>1. \E how : Ends(p, how)
    BY <1>4, ReturnsKeep, LeavesKeep
  <2> QED BY <2>1, EndsDrop
<1> QED BY <1>2, <1>3, <1>4

(* Where nothing is wrong nothing goes wrong while nothing is sent,        *)
LEMMA QuietSteps ==
    ASSUME SyncInv, Quiet, NEW p \in Parties,
           HearPrev(p) \/ Takes(p) \/ Returns(p) \/ Fails(p) \/ Quits(p)
    PROVE  Quiet'
<1>1. ASSUME NEW x \in Parties PROVE Rested(x)' /\ HeardZero(x)'
  <2>1. CASE x = p
    <3>1. PrevOf(p) \in Parties \ {p} /\ NextOf(p) \in Parties \ {p}
      BY RingFacts
    <3>2. Clean(PrevOf(p), p) /\ Clean(NextOf(p), p) /\ Rested(p)
      BY <3>1 DEF Quiet
    <3>3. Takes(p) \/ Returns(p) => Zero(Inbound(p))
      BY <3>2, TakesKeep, ReturnsKeep, InboundZero
    <3> QED BY <2>1, <3>2, <3>3, StepRested, StepHeard
  <2>2. CASE x # p
    BY <2>2, OthersStay, StaysFacts DEF Quiet
  <2> QED BY <2>1, <2>2
<1>2. ASSUME NEW a \in Parties, NEW b \in Parties, a # b PROVE Clean(a, b)'
  BY <1>2, StepFewer, CleanKept DEF Quiet
<1> QED BY <1>1, <1>2 DEF Quiet

(* The same of the writer threads, and of a session's next evaluation.     *)
LEMMA QuietElse ==
    ASSUME SyncInv, Quiet, NextEvaluation \/ \E l \in Links : Writer(l)
    PROVE  Quiet' /\ flips' = flips /\ transport' = transport /\ Fewer
           /\ \A x \in Parties : /\ at'[x] = "aborted" <=> at[x] = "aborted"
                                 /\ Listening(x)' => Listening(x) /\ heard'[x] = heard[x]
<1>1. Fewer /\ transport' = transport /\ flips' = flips
  BY NextEmpties, WriterFewer DEF Writer
<1>2. UNCHANGED <<heard, triples, astray, zeros, log, pool, z, shown>>
  BY DEF NextEvaluation, Writer, local
<1>3. /\ \A x \in Parties : Rested(x)' = Rested(x)
      /\ \A x \in Parties : heard'[x] = heard[x]
  BY <1>2 DEF Rested, Calm
<1>4. \A x \in Parties : /\ at'[x] = "aborted" <=> at[x] = "aborted"
                         /\ Listening(x)' => Listening(x)
  <2>1. CASE NextEvaluation
    BY <2>1, NextEmpties DEF Listening, Exchanges
  <2>2. CASE \E l \in Links : Writer(l)
    BY <2>2 DEF Writer, Listening
  <2> QED BY <2>1, <2>2
<1>5. ASSUME NEW a \in Parties, NEW b \in Parties, a # b PROVE Clean(a, b)'
  BY <1>1, <1>5, CleanKept DEF Quiet
<1>6. \A x \in Parties : HeardZero(x)'
  BY <1>3, <1>4 DEF HeardZero, Quiet
<1> QED BY <1>1, <1>3, <1>4, <1>5, <1>6 DEF Quiet

-----------------------------------------------------------------------------
(* Within a process nobody fails before an item is changed. *)

(* Where nothing is wrong no triple that is opened is.                     *)
LEMMA CutRight ==
    ASSUME SyncInv, NEW p \in Parties, Gets(p, "cut"), Rested(p), Zero(Inbound(p))
    PROVE  \A i \in 1..Cut : Opens(p, i) = <<0, 0, 0>>
<1>1. at[p] = "cut" /\ Readable(NextOf(p), p) /\ ~Ended(p) /\ Tag(p)[2] = "cut"
  BY Gotten DEF Resharing, Generating
<1>2. Zero(CutShares(p)) /\ DOMAIN CutShares(p) = 1..(3 * Cut) /\ Cut \in Nat
  BY <1>1, CutIndex DEF Rested
<1>3. DOMAIN Inbound(p) = 1..(3 * Cut)
  BY <1>1, GotNext, TagValues
<1>4. \A i \in 1..(3 * Cut) : CutValues(p)[i] = 0
  BY <1>2, <1>3, ZeroFacts DEF CutValues, Zero, Rested, Calm
<1>5. ASSUME NEW i \in 1..Cut PROVE Opens(p, i) = <<0, 0, 0>>
  <2>1. 3 * i - 2 \in 1..(3 * Cut) /\ 3 * i - 1 \in 1..(3 * Cut) /\ 3 * i \in 1..(3 * Cut)
    BY <1>2
  <2> QED BY <1>4, <2>1 DEF Opens
<1> QED BY <1>5

(* Hashes of what is right are the same.                                   *)
LEMMA NoDifference ==
    ASSUME NEW m, NEW errors, ~m.changed, Zero(m.body), Zero(errors), DOMAIN errors \subseteq DOMAIN m.body
    PROVE  ~DiffersFor(m, errors)
BY ZeroFacts DEF DiffersFor, Zero

(* What a party compares in an exchange has the size of what it hears.     *)
LEMMA Compared ==
    ASSUME SyncInv, NEW p \in Parties, NEW round \in Exchanges, Gets(p, round)
    PROVE  /\ heard[p].body \in Vectors(Size(Tag(p))) /\ FromNext(p).body \in Vectors(Size(Tag(p)))
           /\ DOMAIN heard[p].body = 1..Size(Tag(p)) /\ DOMAIN FromNext(p).body = 1..Size(Tag(p))
           /\ heard[p].tag = Tag(p) /\ FromNext(p).tag = Tag(p)
           /\ FromNext(p) = Msgs(NextOf(p), p)[1] /\ 1 \in DOMAIN Msgs(NextOf(p), p)
           /\ round = "zero" => /\ Size(Tag(p)) = PairsIn(done[p]) /\ Pairs(p) = 1..PairsIn(done[p])
                                /\ DOMAIN zeros[p] = Pairs(p)
           /\ round # "zero" => Size(Tag(p)) = Len(log[p]) /\ log[p] \in Seq(Errors)
           /\ Listening(p)
<1>1. round \in Resharing \cup Exchanges /\ round \in {"zero", "views", "check", "shown"}
  BY DEF Exchanges
<1>2. /\ at[p] = round /\ sub[p] = "fromNext" /\ Readable(NextOf(p), p) /\ ~Ended(p)
      /\ PartyOK(p) /\ PlaceInv(p) /\ Tag(p) \in Tags /\ Tag(p)[1] = done[p] /\ Tag(p)[2] = round
      /\ heard[p] \in MessagesIn(Tag(p))
  BY <1>1, Gotten
<1>3. FromNext(p) \in MessagesIn(Tag(p)) /\ FromNext(p).tag = Tag(p) /\ Size(Tag(p)) \in Nat
  BY <1>2, GotNext
<1>4. /\ heard[p].body \in Vectors(Size(Tag(p))) /\ FromNext(p).body \in Vectors(Size(Tag(p)))
      /\ heard[p].tag = Tag(p)
  BY <1>2, <1>3 DEF MessagesIn
<1>5. FromNext(p) = Msgs(NextOf(p), p)[1] /\ 1 \in DOMAIN Msgs(NextOf(p), p)
  <2>1. NextOf(p) \in Parties /\ NextOf(p) # p
    BY RingFacts
  <2> PICK q : q = NextOf(p)
    OBVIOUS
  <2>2. /\ Incoming(q, p) = Msgs(q, p)[1] /\ Msgs(q, p) \in Seq(Messages)
        /\ 1 \in 1..Len(Msgs(q, p))
    BY <1>2, <2>1, Got
  <2> QED BY <2>2 DEF FromNext
<1>6. /\ round = "zero" => /\ Size(Tag(p)) = PairsIn(done[p]) /\ Pairs(p) = 1..PairsIn(done[p])
                           /\ DOMAIN zeros[p] = Pairs(p)
  BY <1>2, TagValues, RefillFacts DEF RefillRounds, PlaceInv
<1>7. round # "zero" => Size(Tag(p)) = Len(log[p]) /\ log[p] \in Seq(Errors)
  <2>1. round # "zero" => Len(log[p]) = Logged(Tag(p)) /\ Logged(Tag(p)) = Size(Tag(p))
    BY <1>1, <1>2, TagValues DEF PlaceInv
  <2> QED BY <1>2, <2>1 DEF PartyOK
<1>8. DOMAIN heard[p].body = 1..Size(Tag(p)) /\ DOMAIN FromNext(p).body = 1..Size(Tag(p))
  BY <1>3, <1>4, VectorFacts
<1> QED BY <1>2, <1>3, <1>4, <1>5, <1>6, <1>7, <1>8 DEF Listening

(* No check finds anything.                                                *)
LEMMA NothingFound ==
    ASSUME SyncInv, NEW p \in Parties, Rested(p), HeardZero(p), Clean(NextOf(p), p),
           Listening(p) => ~heard[p].changed,
           \A i \in DOMAIN Msgs(NextOf(p), p) : ~Msgs(NextOf(p), p)[i].changed
    PROVE  ~CutFails(p) /\ ~ZeroFails(p) /\ ~ViewsFail(p)
<1>1. ASSUME CutFails(p) PROVE FALSE
  <2>1. Gets(p, "cut") /\ \E i \in 1..Cut : Opens(p, i) # <<0, 0, 0>>
    BY <1>1 DEF CutFails
  <2>2. ~Ended(p) /\ Readable(NextOf(p), p)
    BY <2>1 DEF Gets, Ended
  <2> QED BY <2>1, <2>2, InboundZero, CutRight
<1>2. ASSUME NEW round \in Exchanges, Gets(p, round)
      PROVE  /\ ~heard[p].changed /\ Zero(heard[p].body)
             /\ ~FromNext(p).changed /\ Zero(FromNext(p).body)
  <2>1. FromNext(p) = Msgs(NextOf(p), p)[1] /\ 1 \in DOMAIN Msgs(NextOf(p), p) /\ Listening(p)
    BY <1>2, Compared
  <2> QED BY <2>1 DEF HeardZero, Clean
<1>3. ASSUME ZeroFails(p) PROVE FALSE
  <2>1. /\ Gets(p, "zero") /\ "zero" \in Exchanges
        /\ DiffersFor(heard[p], Column(p, 2)) \/ DiffersFor(FromNext(p), Column(p, 1))
    BY <1>3 DEF ZeroFails, Exchanges
  <2>2. /\ DOMAIN heard[p].body = Pairs(p) /\ DOMAIN FromNext(p).body = Pairs(p) /\ DOMAIN zeros[p] = Pairs(p)
    BY <2>1, Compared
  <2>3. \A i \in {1, 2} : Zero(Column(p, i)) /\ DOMAIN Column(p, i) = Pairs(p)
    BY <2>2 DEF Zero, Column, Rested, Clear
  <2> QED BY <1>2, <2>1, <2>2, <2>3, NoDifference
<1>4. ASSUME ViewsFail(p) PROVE FALSE
  <2>1. PICK round \in {"views", "check", "shown"} : Gets(p, round)
    BY <1>4 DEF ViewsFail
  <2>2. round \in Exchanges /\ round # "zero" /\ ViewsDiffer(p)
    BY <1>4 DEF ViewsFail, Exchanges
  <2>3. /\ DOMAIN heard[p].body = 1..Len(log[p]) /\ DOMAIN FromNext(p).body = 1..Len(log[p])
        /\ log[p] \in Seq(Errors)
    BY <2>1, <2>2, Compared
  <2>4. DOMAIN log[p] = 1..Len(log[p]) /\ Zero(log[p])
    BY <2>3 DEF Rested, Calm
  <2> QED BY <1>2, <2>1, <2>2, <2>3, <2>4, NoDifference DEF ViewsDiffer
<1> QED BY <1>1, <1>3, <1>4

(* Nobody is left behind by a party that has returned.                     *)
LEMMA NobodyLeft ==
    ASSUME SyncInv, transport = "channel", \A x \in Parties : at[x] # "aborted", NEW p \in Parties
    PROVE  ~Cascade(p) /\ ~SendFails(p)
<1>1. /\ gone = {x \in Parties : Ended(x)} /\ reset = {} /\ OrderInv
      /\ \A x \in Parties : at[x] # "hand" /\ Complete(x)
  BY DEF SyncInv, OrderInv, PlaceInv, Complete
<1>2. NextOf(p) \in Parties /\ PrevOf(p) \in Parties /\ NextOf(p) # p /\ PrevOf(p) # p
      /\ PrevOf(NextOf(p)) = p /\ NextOf(PrevOf(p)) = p /\ NextOf(p) # PrevOf(p)
      /\ PrevOf(PrevOf(p)) # p
  BY RingFacts
<1>3. Tag(p) \in Stages /\ Tag(p)[2] = at[p]
  BY TagFacts
<1>4. ASSUME NEW q \in gone, q # p
      PROVE  /\ q \in Parties /\ Tag(q)[2] = "done" /\ Tag(q) \in Stages
             /\ ToSend(q, p) = Tag(q) /\ ToRead(q, p) = Tag(q)
             /\ NotAfter(Tag(q), ToSend(p, q)) /\ NotAfter(ToRead(p, q), Tag(q))
             /\ ~Ended(p) /\ wire[<<q, p>>] = << >> => Tag(q) = ToRead(p, q)
  <2>1. q \in Parties /\ at[q] = "done"
    BY <1>1, <1>4 DEF Ended
  <2>2. sub[q] = "send" /\ Tag(q) \in Stages /\ Tag(q)[2] = "done"
    BY <2>1, SubFacts, TagFacts DEF Ended
  <2>3. ToSend(q, p) = Tag(q) /\ ToRead(q, p) = Tag(q)
    BY <2>2 DEF ToSend, ToRead, HasSent, HasRead, Due, NextExchange, Generating
  <2>4. LinkInv(q, p) /\ LinkInv(p, q)
    BY <1>1, <1>4, <2>1, MsgsFacts
  <2>5. NotAfter(Tag(q), ToSend(p, q)) /\ NotAfter(ToRead(p, q), Tag(q))
    BY <1>1, <2>1, <2>3, <2>4 DEF LinkInv
  <2>6. ASSUME ~Ended(p), wire[<<q, p>>] = << >> PROVE Tag(q) = ToRead(p, q)
    <3>1. Msgs(q, p) = << >>
      BY <1>1, <1>4, <2>1, <2>6, MsgsFacts
    <3> QED BY <1>1, <2>1, <2>3, <2>4, <2>6, <3>1 DEF LinkInv
  <2> QED BY <2>1, <2>2, <2>3, <2>5, <2>6
<1>5. ASSUME Cascade(p) PROVE FALSE
  <2>1. PICK q \in Awaited(p) : ReadFails(q, p)
    BY <1>5 DEF Cascade
  <2>2. ~Ended(p) /\ q \in gone /\ wire[<<q, p>>] = << >>
    BY <1>1, <1>5, <2>1 DEF Cascade, ReadFails, Readable
  <2>3. \/ sub[p] = "fromNext" /\ q = NextOf(p)
        \/ sub[p] = "fromPrev" /\ q = PrevOf(p)
    BY <1>1, <2>1 DEF Awaited
  <2>4. Tag(q)[2] = "done" /\ Tag(q) = ToRead(p, q)
    BY <1>2, <1>4, <2>2, <2>3
  <2>5. CASE q = NextOf(p)
    <3>1. ToRead(p, q) = Tag(p)
      BY <1>2, <2>5 DEF ToRead, HasRead, Due
    <3> QED BY <1>3, <2>2, <2>4, <3>1 DEF Ended
  <2>6. CASE sub[p] = "fromPrev" /\ q = PrevOf(p)
    <3>1. at[p] \in Exchanges
      BY <2>6, SubFacts
    <3>2. ToRead(p, q) = NextExchange(Tag(p))
      BY <1>2, <2>6 DEF ToRead, HasRead, Due
    <3>3. NextExchange(Tag(p)) = Tag(p)
      BY <1>3, <3>1 DEF NextExchange, Exchanges, Generating
    <3> QED BY <1>3, <2>2, <2>4, <3>2, <3>3 DEF Ended
  <2> QED BY <2>3, <2>5, <2>6
<1>6. ASSUME SendFails(p) PROVE FALSE
  <2>1. PICK q \in SendsTo(p) : q \in gone
    BY <1>6 DEF SendFails, SendMayFail
  <2>2. ~Ended(p)
    BY <1>6 DEF SendFails
  <2>3. \/ sub[p] = "send" /\ q = PrevOf(p)
        \/ sub[p] = "sendNext" /\ q = NextOf(p)
    BY <1>1, <2>1 DEF SendsTo
  <2>4. /\ Tag(q)[2] = "done" /\ Tag(q) \in Stages
        /\ NotAfter(Tag(q), ToSend(p, q)) /\ NotAfter(ToRead(p, q), Tag(q))
    BY <1>2, <1>4, <2>1, <2>3
  <2>5. ToSend(p, q) = Tag(p)
    <3>1. CASE q = PrevOf(p)
      BY <1>2, <2>3, <3>1 DEF ToSend, HasSent, Due
    <3>2. CASE sub[p] = "sendNext" /\ q = NextOf(p)
      <4>1. at[p] \in Exchanges
        BY <3>2, SubFacts
      <4>2. ToSend(p, q) = NextExchange(Tag(p))
        BY <1>2, <3>2 DEF ToSend, HasSent, Due
      <4> QED BY <1>3, <4>1, <4>2 DEF NextExchange, Exchanges, Generating
    <3> QED BY <2>3, <3>1, <3>2
  <2>6. NotAfter(Tag(p), ToRead(p, q))
    <3>1. ToRead(p, q) = Tag(p) \/ ToRead(p, q) = NextExchange(Tag(p))
      BY <1>2, <2>3 DEF ToRead, HasRead, Due
    <3>2. NotAfter(Tag(p), Tag(p))
      BY <1>3, StageFacts, OrderFacts
    <3> QED BY <1>3, <3>1, <3>2, ExchangeFacts
  <2>7. ToRead(p, q) \in Stages
    BY <1>2, <2>3, ToFacts
  <2>8. NotAfter(Tag(p), Tag(q))
    BY <1>3, <2>4, <2>6, <2>7, StageFacts, OrderFacts
  <2>9. Rank(Tag(p)) = Rank(Tag(q)) /\ Rank(Tag(q)) = 2
    <3>1. Rank(Tag(p)) \in Int /\ Rank(Tag(q)) \in Int /\ Tag(p)[1] \in Int /\ Tag(q)[1] \in Int
      BY <1>3, <2>4, StageFacts, BatchFacts DEF Rank
    <3> QED BY <2>4, <2>5, <2>8, <3>1 DEF NotAfter, Rank
  <2>10. at[p] = "done"
    <3>1. Tag(p)[2] = "level" => Tag(p)[3] \in 1..Levels
      BY <1>3, StageFacts
    <3>2. Levels \in Nat /\ Rank(Tag(p)) = 2
      BY <2>9, BatchFacts
    <3> PICK t : t = Tag(p)
      OBVIOUS
    <3>3. t[2] # "level"
      BY <3>1, <3>2 DEF Rank
    <3>4. t[2] \in {"triples", "coin", "cut", "pairs", "zero", "views", "level", "open", "shown", "done"} => t[2] = "done"
      BY <3>2, <3>3 DEF Rank
    <3>5. t[2] \in {"check", "hand"} => FALSE
      BY <3>2 DEF Rank
    <3> QED BY <1>3, <3>4, <3>5 DEF Stages, Rounds, Resharing, Exchanges, Generating
  <2> QED BY <2>2, <2>10 DEF Ended
<1> QED BY <1>5, <1>6

-----------------------------------------------------------------------------
(* While no item has been changed. *)

(* A party that sends has nothing wrong afterwards either.                 *)
LEMMA QuietSenders ==
    ASSUME SyncInv, Quiet, NEW p \in Parties, Sends(p)
    PROVE  Zero(Part(p)) /\ \A x \in Parties : Rested(x)' /\ HeardZero(x)'
<1>1. Zero(Part(p))
  <2>1. at[p] \in Rounds
    BY SendsKeep, TypeParts DEF SyncInv, Typed, PartyOK, Ended
  <2> QED BY <2>1, RestedSays DEF Quiet
<1>2. ASSUME NEW x \in Parties PROVE Rested(x)' /\ HeardZero(x)'
  <2>1. CASE x = p
    <3>1. ~HearPrev(p)
      BY SendsKeep, HearsKeep
    <3>2. Unmoved(p)
      BY SendsKeep DEF Unmoved, Holds, local
    <3> QED BY <2>1, <3>1, <3>2, UnmovedFacts, StepHeard DEF Quiet
  <2>2. CASE x # p
    BY <2>2, OthersStay, StaysFacts DEF Quiet
  <2> QED BY <2>1, <2>2
<1> QED BY <1>1, <1>2

(* Where nothing is wrong nothing wrong is sent, unless a word is changed. *)
LEMMA QuietSends ==
    ASSUME SyncInv, Quiet, NEW p \in Parties, Sends(p), NEW q \in Parties, q # p, NEW m, Puts(p, q, m),
           m.body = Part(p)
    PROVE  Quiet'
<1>1. ASSUME NEW a \in Parties, NEW b \in Parties, a # b PROVE Clean(a, b)'
  BY <1>1, QuietSenders, CleanPut DEF Quiet
<1> QED BY <1>1, QuietSenders DEF Quiet

(* An item that is sent leaves the items on its way before it.             *)
LEMMA PutFacts ==
    ASSUME SyncInv, NEW p \in Parties, NEW q \in Parties, q # p, NEW m, Puts(p, q, m)
    PROVE  /\ Len(Msgs(p, q)) + 1 \in DOMAIN Msgs(p, q)' /\ Msgs(p, q)'[Len(Msgs(p, q)) + 1] = m
           /\ \A i \in DOMAIN Msgs(p, q) : i \in DOMAIN Msgs(p, q)' /\ Msgs(p, q)'[i] = Msgs(p, q)[i]
           /\ \A i \in DOMAIN Msgs(p, q)' :
                  \/ i = Len(Msgs(p, q)) + 1
                  \/ i \in DOMAIN Msgs(p, q) /\ Msgs(p, q)'[i] = Msgs(p, q)[i]
<1>1. Msgs(p, q)' = Append(Msgs(p, q), m) /\ Msgs(p, q) \in Seq(Messages)
  BY MsgsFacts DEF Puts, SyncInv
<1> PICK u : u = Msgs(p, q)'
  OBVIOUS
<1> PICK w : w = Msgs(p, q)
  OBVIOUS
<1>2. /\ Len(w) + 1 \in DOMAIN u /\ u[Len(w) + 1] = m
      /\ \A i \in DOMAIN w : i \in DOMAIN u /\ u[i] = w[i]
      /\ \A i \in DOMAIN u : i = Len(w) + 1 \/ (i \in DOMAIN w /\ u[i] = w[i])
  BY <1>1
<1> QED BY <1>2

(* No message is marked as changed.                                        *)
Unchanged(q, p) == \A i \in DOMAIN Msgs(q, p) : ~Msgs(q, p)[i].changed

(* It stays so when nothing is sent,                                       *)
LEMMA UnchangedKept ==
    ASSUME Fewer, NEW a \in Parties, NEW b \in Parties, a # b, Unchanged(a, b)
    PROVE  Unchanged(a, b)'
BY DEF Fewer, Unchanged

(* or nothing that is changed.                                             *)
LEMMA UnchangedPut ==
    ASSUME SyncInv, NEW p \in Parties, NEW q \in Parties, q # p, NEW m, Puts(p, q, m), ~m.changed,
           NEW a \in Parties, NEW b \in Parties, a # b, Unchanged(a, b)
    PROVE  Unchanged(a, b)'
<1>1. CASE a = p /\ b = q
  BY <1>1, PutFacts DEF Unchanged
<1>2. CASE <<a, b>> # <<p, q>>
  BY <1>2 DEF Puts, Others, Unchanged
<1> QED BY <1>1, <1>2

(* A changed word is on its way to party 0.                                *)
LEMMA WordLeaves ==
    ASSUME SyncInv, Quiet, NEW p \in Parties, Sends(p), p = 1, at[p] \in Resharing, ~Ended(0),
           NEW m \in MessagesIn(Tag(p)), Puts(p, 0, m), Tag(p) \in Tags,
           NEW i \in DOMAIN Part(p), m.body = [Part(p) EXCEPT ![i] = Xor(@, 1)]
    PROVE  InFlight'
<1>1. 0 \in Parties /\ 1 \in Parties /\ 0 # 1
  BY DEF Parties
<1>2. /\ \A x \in Parties : Rested(x)' /\ HeardZero(x)'
      /\ Zero(Part(p))
  BY QuietSenders
<1>3. ~Ended(0)'
  BY SendsKeep DEF Ended
<1>4. ASSUME NEW a \in Parties, NEW b \in Parties \ {a}, <<a, b>> # <<1, 0>> PROVE Clean(a, b)'
  BY <1>1, <1>4, CleanPut DEF Quiet
<1>5. OneWrong(m.body)
  <2>1. \A j \in DOMAIN m.body : m.body[j] = IF j = i THEN 1 ELSE 0
    <3>1. DOMAIN m.body = DOMAIN Part(p) /\ \A j \in DOMAIN Part(p) : Part(p)[j] = 0
      BY <1>2 DEF Zero
    <3>2. Xor(0, 1) = 1
      BY XorFacts DEF Errors
    <3> QED BY <3>1, <3>2
  <2> QED BY <2>1 DEF OneWrong
<1>6. m.tag = Tag(p) /\ m.tag[2] \in Resharing
  BY MessagesOfRound DEF Tag
<1> PICK k : k = Len(Msgs(1, 0)) + 1
  OBVIOUS
<1>7. k \in DOMAIN Msgs(1, 0)' /\ Msgs(1, 0)'[k] = m
  BY <1>1, PutFacts
<1>8. \A j \in DOMAIN Msgs(1, 0)' \ {k} : Zero(Msgs(1, 0)'[j].body)
  <2>1. \A j \in DOMAIN Msgs(1, 0) : Zero(Msgs(1, 0)[j].body)
    BY <1>1 DEF Quiet, Clean
  <2>2. \A j \in DOMAIN Msgs(1, 0)' : j = k \/ (j \in DOMAIN Msgs(1, 0) /\ Msgs(1, 0)'[j] = Msgs(1, 0)[j])
    BY <1>1, PutFacts
  <2> QED BY <2>1, <2>2
<1> QED BY <1>2, <1>3, <1>4, <1>5, <1>6, <1>7, <1>8 DEF InFlight

(* A changed hash is on its way to party 0 or 2.                           *)
LEMMA HashLeaves ==
    ASSUME SyncInv, Quiet, NEW p \in Parties, Sends(p), p = 1, NEW q \in Parties, q # p, ~Ended(q),
           NEW m, Puts(p, q, m), m.changed, m.body = Part(p)
    PROVE  HashChanged'
<1>1. Quiet'
  BY QuietSends
<1>2. ~Ended(q)' /\ q \in {0, 2}
  BY SendsKeep DEF Ended, Parties
<1>3. \E i \in DOMAIN Msgs(1, q)' : Msgs(1, q)'[i].changed
  BY PutFacts
<1> QED BY <1>1, <1>2, <1>3 DEF HashChanged, Refused

(* A party sends as due, or party 1's item is changed.                     *)
LEMMA UntouchedSends ==
    ASSUME SyncInv, flips = 0, Untouched, NEW p \in Parties, Sends(p)
    PROVE  ContentInv'
<1>1. Quiet
  BY DEF Untouched
<1>2. PICK q \in Parties, m \in MessagesIn(Tag(p)) :
               /\ q # p /\ Puts(p, q, m) /\ (at[p] \in Resharing => q = PrevOf(p))
               /\ AsDue(p, m) \/ WordChanged(p, m) \/ HashSpoilt(p, m)
               /\ transport = "channel" => ~Ended(q)
               /\ transport' = transport /\ Tag(p) \in Tags
  BY SendsPut
<1>3. CASE AsDue(p, m)
  <2>1. Quiet' /\ flips' = 0
    BY <1>1, <1>2, <1>3, QuietSends DEF AsDue
  <2>2. \A x \in Parties : at'[x] = at[x] /\ heard'[x] = heard[x] /\ (Listening(x)' => Listening(x))
    <3>1. at' = at /\ heard' = heard
      BY SendsKeep
    <3>2. ASSUME NEW x \in Parties, Listening(x)' PROVE Listening(x)
      <4>1. CASE x = p
        BY <3>2, <4>1, StepHeard, SendsKeep, HearsKeep
      <4>2. CASE x # p
        BY <3>2, <4>2, OthersStay, StaysFacts
      <4> QED BY <4>1, <4>2
    <3> QED BY <3>1, <3>2
  <2>3. \A a, b \in Parties : a # b => Unchanged(a, b)'
    BY <1>2, <1>3, UnchangedPut DEF Untouched, Unchanged, AsDue
  <2> QED BY <1>2, <2>1, <2>2, <2>3 DEF ContentInv, Untouched, Unchanged
<1>4. CASE WordChanged(p, m)
  <2>1. p = 1 /\ at[p] \in Resharing /\ q = PrevOf(p) /\ flips' = 1 /\ transport' = "channel"
    BY <1>2, <1>4 DEF WordChanged
  <2>2. q = 0 /\ ~Ended(0)
    BY <1>2, <1>4, <2>1 DEF PrevOf, WordChanged
  <2>3. InFlight'
    BY <1>1, <1>2, <1>4, <2>1, <2>2, WordLeaves DEF WordChanged
  <2> QED BY <2>1, <2>3 DEF ContentInv
<1>5. CASE HashSpoilt(p, m)
  <2>1. HashChanged' /\ flips' = 1 /\ transport' = "channel"
    BY <1>1, <1>2, <1>5, HashLeaves DEF HashSpoilt
  <2> QED BY <2>1 DEF ContentInv
<1> QED BY <1>2, <1>3, <1>4, <1>5

(* No party fails of its own accord, within a process.                     *)
LEMMA UntouchedSteps ==
    ASSUME SyncInv, flips = 0, Untouched, NEW p \in Parties,
           HearPrev(p) \/ Takes(p) \/ Returns(p) \/ Fails(p) \/ Quits(p)
    PROVE  ContentInv'
<1>1. Quiet' /\ Fewer /\ transport' = transport /\ flips' = 0
  BY QuietSteps, StepFewer DEF Untouched
<1>2. /\ NextOf(p) \in Parties \ {p} /\ PrevOf(p) \in Parties \ {p}
  BY RingFacts
<1>3. \A a, b \in Parties : a # b => Unchanged(a, b)'
  BY <1>1, UnchangedKept DEF Untouched, Unchanged
<1>4. ASSUME NEW x \in Parties, Listening(x)' PROVE ~heard'[x].changed
  <2>1. CASE x # p
    BY <1>4, <2>1, OthersStay, StaysFacts DEF Untouched
  <2>2. CASE x = p
    <3>1. HearPrev(p)
      BY <1>4, <2>2, StepHeard
    <3>2. heard'[p] = Msgs(PrevOf(p), p)[1] /\ Msgs(PrevOf(p), p) # << >>
      BY <3>1, HearsKeep DEF Pulls
    <3>3. Msgs(PrevOf(p), p) \in Seq(Messages)
      BY <1>2, MsgsFacts DEF SyncInv
    <3>4. 1 \in DOMAIN Msgs(PrevOf(p), p)
      BY <3>2, <3>3
    <3> QED BY <1>2, <2>2, <3>2, <3>4 DEF Untouched
  <2> QED BY <2>1, <2>2
<1>5. ASSUME transport = "channel", NEW x \in Parties PROVE at'[x] # "aborted"
  <2>1. \A y \in Parties : at[y] # "aborted"
    BY <1>5 DEF Untouched
  <2>2. CASE x # p
    BY <2>1, <2>2, OthersStay, StaysFacts
  <2>3. CASE x = p
    <3>1. ~Fails(p)
      <4>1. /\ Rested(p) /\ HeardZero(p) /\ Clean(NextOf(p), p) /\ (Listening(p) => ~heard[p].changed)
            /\ \A i \in DOMAIN Msgs(NextOf(p), p) : ~Msgs(NextOf(p), p)[i].changed
        BY <1>2 DEF Untouched, Quiet
      <4>2. ~CutFails(p) /\ ~ZeroFails(p) /\ ~ViewsFail(p)
        BY <4>1, NothingFound
      <4> QED BY <1>5, <2>1, <4>2, NobodyLeft DEF Fails
    <3>2. ~Quits(p)
      BY <1>5, LeavesKeep
    <3>3. CASE HearPrev(p)
      BY <2>1, <2>3, <3>3, HearsKeep
    <3>4. CASE Takes(p)
      BY <2>3, <3>4, TakesKeep DEF Rounds, Resharing, Exchanges, Generating
    <3>5. CASE Returns(p)
      BY <2>3, <3>5, ReturnsKeep, EndsDrop
    <3> QED BY <3>1, <3>2, <3>3, <3>4, <3>5
  <2> QED BY <2>2, <2>3
<1> QED BY <1>1, <1>3, <1>4, <1>5 DEF ContentInv, Untouched, Unchanged

(* So it is when a writer writes, or the next evaluation starts.           *)
LEMMA UntouchedElse ==
    ASSUME SyncInv, flips = 0, Untouched, NextEvaluation \/ \E l \in Links : Writer(l)
    PROVE  ContentInv'
<1>1. /\ Quiet' /\ flips' = flips /\ transport' = transport /\ Fewer
      /\ \A x \in Parties : /\ at'[x] = "aborted" <=> at[x] = "aborted"
                            /\ Listening(x)' => Listening(x) /\ heard'[x] = heard[x]
  BY QuietElse DEF Untouched
<1>2. \A a, b \in Parties : a # b => Unchanged(a, b)'
  BY <1>1, UnchangedKept DEF Untouched, Unchanged
<1> QED BY <1>1, <1>2 DEF ContentInv, Untouched, Unchanged

-----------------------------------------------------------------------------
(* A changed hash is not got past. *)

(* Whoever goes on after an exchange has heard no changed hash.            *)
LEMMA TakesAgree ==
    ASSUME SyncInv, NEW p \in Parties, Takes(p) \/ Returns(p)
    PROVE  /\ at[p] \in Exchanges => ~heard[p].changed
           /\ ~FromNext(p).changed
           /\ FromNext(p) = Msgs(NextOf(p), p)[1] /\ 1 \in DOMAIN Msgs(NextOf(p), p)
           /\ FromNext(p).tag = Tag(p)
<1>1. at[p] \in Resharing \cup Exchanges /\ Gets(p, at[p])
  BY TakesHold
<1>2. ~Ended(p) /\ Readable(NextOf(p), p) /\ Tag(p)[2] = at[p]
  BY <1>1, Gotten
<1>3. at[p] \in Exchanges => ~heard[p].changed /\ ~FromNext(p).changed
  BY TakesHold DEF SameFor, ViewsAgree, Exchanges
<1>4. FromNext(p) \in MessagesIn(Tag(p)) /\ FromNext(p).tag = Tag(p)
  BY <1>2, GotNext
<1>5. at[p] \notin Exchanges => ~FromNext(p).changed
  BY <1>2, <1>4 DEF MessagesIn
<1>6. FromNext(p) = Msgs(NextOf(p), p)[1] /\ 1 \in DOMAIN Msgs(NextOf(p), p)
  <2>1. NextOf(p) \in Parties /\ NextOf(p) # p
    BY RingFacts
  <2> PICK q : q = NextOf(p)
    OBVIOUS
  <2>2. /\ Incoming(q, p) = Msgs(q, p)[1] /\ Msgs(q, p) \in Seq(Messages)
        /\ 1 \in 1..Len(Msgs(q, p))
    BY <1>2, <2>1, Got
  <2> QED BY <2>2 DEF FromNext
<1> QED BY <1>3, <1>4, <1>5, <1>6

(* A thread that returns has read all that was sent to it.                 *)
LEMMA LastRead ==
    ASSUME SyncInv, NEW p \in Parties, Returns(p)
    PROVE  DOMAIN Msgs(NextOf(p), p) = {1} /\ Msgs(PrevOf(p), p) = << >>
<1> DEFINE s == NextOf(p)
           r == PrevOf(p)
           t == After(Tag(p))
<1>1. /\ s \in Parties /\ r \in Parties /\ s # p /\ r # p /\ PrevOf(s) = p /\ p # PrevOf(r)
  BY RingFacts
<1>2. sub[p] = "fromNext" /\ Readable(s, p) /\ ~Ended(p) /\ t[2] = "done"
  <2>1. Tag(p)' = t /\ Ends(p, "done") /\ sub[p] = "fromNext" /\ Readable(s, p) /\ ~Ended(p)
    BY ReturnsKeep
  <2>2. at'[p] = "done"
    BY <2>1, EndsDrop
  <2> QED BY <2>1, <2>2 DEF Tag
<1> HIDE DEF t
<1>3. Due(s, p, t) = t /\ Due(r, p, t) = t /\ t \notin Tags
  BY <1>1, <1>2 DEF Due, NextExchange, Generating, Tags, Rounds, Resharing, Exchanges
<1>4. /\ Msgs(s, p) \in Seq(Messages) /\ Msgs(r, p) \in Seq(Messages)
      /\ \A i \in 1..Len(Msgs(s, p)) : Msgs(s, p)[i].tag \in Tags
      /\ \A i \in 1..Len(Msgs(r, p)) : Msgs(r, p)[i].tag \in Tags
      /\ LinkInv(s, p) /\ LinkInv(r, p)
  <2> HIDE DEF s, r
  <2> QED BY <1>1, MsgsFacts DEF SyncInv
<1>5. /\ Msgs(s, p) # << >> /\ Msgs(s, p)[1].tag = Tag(p)
  <2>1. Msgs(s, p) # << >> /\ Incoming(s, p) = Msgs(s, p)[1] /\ Incoming(s, p).tag = ToRead(p, s)
    <3> HIDE DEF s
    <3> QED BY <1>1, <1>2, Got
  <2>2. ToRead(p, s) = Tag(p)
    BY <1>1, RingFacts DEF ToRead, HasRead, Due
  <2> QED BY <2>1, <2>2
<1>6. Len(Msgs(s, p)) = 1
  <2> PICK w : w = Msgs(s, p)
    OBVIOUS
  <2>5. w \in Seq(Messages) /\ w # << >>
    BY <1>4, <1>5
  <2>6. Len(w) \in Nat /\ Len(w) # 0
    BY <2>5
  <2>7. ASSUME Len(w) > 1 PROVE FALSE
    <3>1. \A i \in 1..(Len(w) - 1) : w[i + 1].tag = Following(s, p, w[i].tag)
      BY <1>2, <1>4 DEF LinkInv
    <3>2. 1 \in 1..(Len(w) - 1) /\ 2 \in 1..Len(w)
      BY <2>6, <2>7
    <3>3. w[2].tag = Following(s, p, Tag(p))
      <4>1. w[1 + 1].tag = Following(s, p, w[1].tag)
        BY <3>1, <3>2
      <4> QED BY <1>5, <4>1
    <3>4. Following(s, p, Tag(p)) = t
      BY <1>3 DEF Following, t
    <3> QED BY <1>3, <1>4, <3>2, <3>3, <3>4
  <2>8. Len(w) = 1
    <3> PICK n : n = Len(w)
      OBVIOUS
    <3>1. n \in Nat /\ n # 0 /\ ~(n > 1)
      BY <2>6, <2>7
    <3>2. n = 1
      BY <3>1
    <3> QED BY <3>2
  <2> QED BY <2>8
<1>7. Msgs(r, p) = << >>
  <2> PICK w : w = Msgs(r, p)
    OBVIOUS
  <2> SUFFICES ASSUME w # << >> PROVE FALSE
    OBVIOUS
  <2>1. w[1].tag = ToRead(p, r) /\ 1 \in 1..Len(w)
    BY <1>2, <1>4 DEF LinkInv
  <2>2. ToRead(p, r) = t
    BY <1>2, <1>3 DEF ToRead, HasRead, Following, t
  <2> QED BY <1>3, <1>4, <2>1, <2>2
<1>8. DOMAIN Msgs(s, p) = {1}
  BY <1>4, <1>6
<1> QED BY <1>7, <1>8

(* What is left of a sequence when its first element is taken.             *)
LEMMA TailFacts ==
    ASSUME NEW S, NEW w \in Seq(S), w # << >>
    PROVE  /\ \A i \in DOMAIN w : i # 1 => i - 1 \in DOMAIN Tail(w) /\ Tail(w)[i - 1] = w[i]
           /\ \A i \in DOMAIN Tail(w) : i + 1 \in DOMAIN w /\ Tail(w)[i] = w[i + 1]
           /\ 1 \in DOMAIN w
OBVIOUS

(* A step of another party, within a process, leaves what is on its way to *)
(* a party, or adds to it.                                                 *)
LEMMA OthersAdd ==
    ASSUME SyncInv, transport = "channel", NEW p \in Parties, NEW q \in Parties, q # p,
           Sends(p) \/ HearPrev(p) \/ Takes(p) \/ Returns(p) \/ Fails(p) \/ Quits(p),
           NEW a \in Parties, a # q
    PROVE  /\ \A i \in DOMAIN Msgs(a, q) : i \in DOMAIN Msgs(a, q)' /\ Msgs(a, q)'[i] = Msgs(a, q)[i]
           /\ ~Sends(p) \/ a # p => Msgs(a, q)' = Msgs(a, q)
<1>1. NextOf(p) \in Parties /\ NextOf(p) # p /\ PrevOf(p) \in Parties /\ PrevOf(p) # p
  BY RingFacts
<1>2. CASE Sends(p)
  <2>1. PICK x \in Parties, m \in MessagesIn(Tag(p)) : x # p /\ Puts(p, x, m)
    BY <1>2, SendsPut
  <2>2. CASE a = p /\ q = x
    BY <1>2, <2>1, <2>2, PutFacts
  <2>3. CASE <<a, q>> # <<p, x>>
    BY <2>1, <2>3 DEF Puts, Others
  <2> QED BY <1>2, <2>1, <2>2, <2>3 DEF Puts, Others
<1>3. CASE HearPrev(p)
  <2>1. Pulls(p, PrevOf(p))
    BY <1>3, HearsKeep
  <2> QED BY <2>1 DEF Pulls, Others
<1>4. CASE Takes(p)
  <2>1. Readable(NextOf(p), p) /\ Read(NextOf(p), p)
    BY <1>4, TakesKeep
  <2>2. Pulls(p, NextOf(p))
    BY <1>1, <2>1, ReadsPull
  <2> QED BY <2>2 DEF Pulls, Others
<1>5. CASE Returns(p) \/ Fails(p) \/ Quits(p)
  <2>1. \E how : Ends(p, how)
    BY <1>5, ReturnsKeep, LeavesKeep
  <2>2. Drops(p)
    BY <2>1, EndsDrop
  <2> QED BY <2>2 DEF Drops
<1> QED BY <1>2, <1>3, <1>4, <1>5

(* A party that a step takes out of the rounds, and one that stays.        *)
LEMMA StepEnded ==
    ASSUME SyncInv, transport = "channel", NEW p \in Parties,
           Sends(p) \/ HearPrev(p) \/ Takes(p) \/ Returns(p) \/ Fails(p) \/ Quits(p)
    PROVE  /\ ~Quits(p) /\ \A x \in Parties : x # p => Ended(x)' = Ended(x) /\ at'[x] = at[x]
           /\ ~Fails(p) => ~Ended(p)
           /\ Sends(p) \/ HearPrev(p) \/ Takes(p) => ~Ended(p)' /\ at'[p] # "aborted"
           /\ Returns(p) => at'[p] = "done"
           /\ Fails(p) => at'[p] = "aborted"
<1>1. ~Quits(p)
  BY LeavesKeep
<1>2. \A x \in Parties : x # p => Ended(x)' = Ended(x) /\ at'[x] = at[x]
  BY OthersStay, StaysFacts
<1>3. Fails(p) => at'[p] = "aborted"
  BY LeavesKeep, EndsDrop
<1>4. Returns(p) => at'[p] = "done"
  BY ReturnsKeep, EndsDrop
<1>5. ~Fails(p) => ~Ended(p)
  BY <1>1, SendsKeep, HearsKeep, TakesKeep, ReturnsKeep
<1>6. Takes(p) => ~Ended(p)' /\ at'[p] # "aborted"
  BY TakesKeep DEF Ended, Rounds, Resharing, Exchanges, Generating
<1>7. Sends(p) => at' = at /\ ~Ended(p)
  BY SendsKeep
<1>8. HearPrev(p) => at' = at /\ ~Ended(p)
  BY HearsKeep
<1> QED BY <1>1, <1>2, <1>3, <1>4, <1>5, <1>6, <1>7, <1>8 DEF Ended

(* What a party reads, within a process, is gone, and the rest moves up.   *)
LEMMA OwnReads ==
    ASSUME SyncInv, transport = "channel", NEW p \in Parties, HearPrev(p) \/ Takes(p),
           NEW a \in Parties, a # p
    PROVE  LET read == IF HearPrev(p) THEN PrevOf(p) ELSE NextOf(p)
           IN /\ a = read => /\ Msgs(a, p)' = Tail(Msgs(a, p)) /\ 1 \in DOMAIN Msgs(a, p)
                             /\ \A i \in DOMAIN Msgs(a, p) : i # 1 =>
                                   i - 1 \in DOMAIN Msgs(a, p)' /\ Msgs(a, p)'[i - 1] = Msgs(a, p)[i]
                             /\ \A i \in DOMAIN Msgs(a, p)' :
                                   i + 1 \in DOMAIN Msgs(a, p) /\ Msgs(a, p)'[i] = Msgs(a, p)[i + 1]
              /\ a # read => Msgs(a, p)' = Msgs(a, p)
<1> PICK r : r = IF HearPrev(p) THEN PrevOf(p) ELSE NextOf(p)
  OBVIOUS
<1>1. r \in Parties /\ r # p
  BY RingFacts
<1>2. Pulls(p, r)
  <2>1. CASE HearPrev(p)
    BY <2>1, HearsKeep
  <2>2. CASE Takes(p) /\ ~HearPrev(p)
    <3>1. Readable(r, p) /\ Read(r, p)
      BY <2>2, TakesKeep
    <3> QED BY <1>1, <3>1, ReadsPull
  <2> QED BY <2>1, <2>2
<1>3. a # r => Msgs(a, p)' = Msgs(a, p)
  BY <1>2 DEF Pulls, Others
<1>4. ASSUME a = r
      PROVE  /\ Msgs(a, p)' = Tail(Msgs(a, p)) /\ 1 \in DOMAIN Msgs(a, p)
             /\ \A i \in DOMAIN Msgs(a, p) : i # 1 =>
                   i - 1 \in DOMAIN Msgs(a, p)' /\ Msgs(a, p)'[i - 1] = Msgs(a, p)[i]
             /\ \A i \in DOMAIN Msgs(a, p)' :
                   i + 1 \in DOMAIN Msgs(a, p) /\ Msgs(a, p)'[i] = Msgs(a, p)[i + 1]
  <2>1. Msgs(a, p)' = Tail(Msgs(a, p)) /\ Msgs(a, p) # << >>
    BY <1>2, <1>4 DEF Pulls
  <2>2. Msgs(a, p) \in Seq(Messages)
    BY MsgsFacts DEF SyncInv
  <2> QED BY <2>1, <2>2, TailFacts
<1> QED BY <1>3, <1>4

(* Nor is it lost: who is to hear it hears it, or aborts.                  *)
LEMMA RefusedStep ==
    ASSUME SyncInv, transport = "channel", NEW p \in Parties, NEW q \in Parties, q \in {0, 2}, Refused(q),
           Sends(p) \/ HearPrev(p) \/ Takes(p) \/ Returns(p) \/ Fails(p) \/ Quits(p)
    PROVE  Refused(q)'
<1>0. 1 \in Parties /\ q # 1
  BY DEF Parties
<1>1. CASE at[q] = "aborted"
  <2>1. CASE p # q
    BY <1>1, <2>1, StepEnded DEF Refused
  <2>2. CASE p = q
    BY <1>1, <2>2, StepEnded DEF Refused, Ended
  <2> QED BY <2>1, <2>2
<1>2. CASE ~Ended(q) /\ \E i \in DOMAIN Msgs(1, q) : Msgs(1, q)[i].changed
  <2>0. PICK i \in DOMAIN Msgs(1, q) : Msgs(1, q)[i].changed
    BY <1>2
  <2>1. CASE p # q
    <3>1. i \in DOMAIN Msgs(1, q)' /\ Msgs(1, q)'[i] = Msgs(1, q)[i]
      BY <1>0, <2>1, OthersAdd
    <3>2. ~Ended(q)'
      BY <1>2, <2>1, StepEnded
    <3> QED BY <2>0, <3>1, <3>2 DEF Refused
  <2>2. CASE p = q /\ Sends(p)
    <3>1. PICK x \in Parties, m \in MessagesIn(Tag(p)) : x # p /\ Puts(p, x, m)
      BY <2>2, SendsPut
    <3>2. Msgs(1, q)' = Msgs(1, q)
      BY <1>0, <2>2, <3>1 DEF Puts, Others
    <3> QED BY <2>0, <2>2, <3>2, StepEnded DEF Refused
  <2>3. CASE p = q /\ HearPrev(p)
    <3>1. ~Ended(q)' /\ Listening(q)'
      BY <2>3, StepEnded, HearsKeep
    <3>2. CASE PrevOf(p) = 1
      <4>1. i = 1 => heard'[q] = Msgs(1, q)[i]
        BY <2>3, <3>2, HearsKeep
      <4>2. i # 1 => i - 1 \in DOMAIN Msgs(1, q)' /\ Msgs(1, q)'[i - 1] = Msgs(1, q)[i]
        BY <1>0, <2>0, <2>3, <3>2, OwnReads
      <4> QED BY <2>0, <3>1, <4>1, <4>2 DEF Refused
    <3>3. CASE PrevOf(p) # 1
      <4>1. Msgs(1, q)' = Msgs(1, q)
        BY <1>0, <2>3, <3>3, OwnReads
      <4> QED BY <2>0, <3>1, <4>1 DEF Refused
    <3> QED BY <3>2, <3>3
  <2>4. CASE p = q /\ Takes(p)
    <3>1. ~Ended(q)' /\ ~HearPrev(p)
      BY <2>4, StepEnded, HearsKeep, TakesKeep
    <3>2. CASE NextOf(p) = 1
      <4>1. i # 1
        BY <2>0, <2>4, <3>2, TakesAgree
      <4>2. i - 1 \in DOMAIN Msgs(1, q)' /\ Msgs(1, q)'[i - 1] = Msgs(1, q)[i]
        BY <1>0, <2>0, <2>4, <3>1, <3>2, <4>1, OwnReads
      <4> QED BY <2>0, <3>1, <4>2 DEF Refused
    <3>3. CASE NextOf(p) # 1
      <4>1. Msgs(1, q)' = Msgs(1, q)
        BY <1>0, <2>4, <3>1, <3>3, OwnReads
      <4> QED BY <2>0, <3>1, <4>1 DEF Refused
    <3> QED BY <3>2, <3>3
  <2>5. CASE p = q /\ Returns(p)
    <3>1. DOMAIN Msgs(NextOf(p), p) = {1} /\ Msgs(PrevOf(p), p) = << >>
      BY <2>5, LastRead
    <3>2. ~FromNext(p).changed /\ FromNext(p) = Msgs(NextOf(p), p)[1]
      BY <2>5, TakesAgree
    <3>3. 1 = NextOf(p) \/ 1 = PrevOf(p)
      BY <1>0, <2>5, RingFacts
    <3> QED BY <2>0, <2>5, <3>1, <3>2, <3>3
  <2>6. CASE p = q /\ Fails(p)
    BY <2>6, StepEnded DEF Refused
  <2> QED BY <2>1, <2>2, <2>3, <2>4, <2>5, <2>6, StepEnded
<1>3. CASE Listening(q) /\ heard[q].changed
  <2>1. CASE p # q
    BY <1>3, <2>1, OthersStay, StaysFacts DEF Refused
  <2>2. CASE p = q /\ Fails(p)
    BY <2>2, StepEnded DEF Refused
  <2>3. CASE p = q /\ ~Fails(p)
    <3>1. ~Sends(p) /\ ~HearPrev(p)
      BY <1>3, <2>3, SendsKeep, HearsKeep DEF Listening
    <3>2. ~(Takes(p) \/ Returns(p))
      BY <1>3, <2>3, TakesAgree DEF Listening
    <3> QED BY <2>3, <3>1, <3>2, StepEnded
  <2> QED BY <2>1, <2>2, <2>3
<1> QED BY <1>1, <1>2, <1>3 DEF Refused

(* Once an item has been changed, items are sent as due.                   *)
LEMMA SendsAsDue ==
    ASSUME SyncInv, transport = "channel", flips = 1, NEW p \in Parties, Sends(p)
    PROVE  \E q \in Parties, m \in MessagesIn(Tag(p)) :
               /\ q # p /\ Puts(p, q, m) /\ AsDue(p, m) /\ flips' = 1 /\ transport' = "channel"
               /\ ~Ended(q) /\ (at[p] \in Resharing => q = PrevOf(p))
               /\ m.tag = Tag(p) /\ Tag(p) \in Tags
<1>1. PICK q \in Parties, m \in MessagesIn(Tag(p)) :
               /\ q # p /\ Puts(p, q, m) /\ (at[p] \in Resharing => q = PrevOf(p))
               /\ AsDue(p, m) \/ WordChanged(p, m) \/ HashSpoilt(p, m)
               /\ transport = "channel" => ~Ended(q)
               /\ transport' = transport /\ Tag(p) \in Tags
  BY SendsPut
<1>2. AsDue(p, m) /\ flips' = 1
  BY <1>1 DEF AsDue, WordChanged, HashSpoilt
<1> QED BY <1>1, <1>2, MessagesOfRound

(* A changed hash, once it is on its way, ends the evaluation.             *)
LEMMA HashChangedStep ==
    ASSUME SyncInv, flips = 1, transport = "channel", HashChanged, Next
    PROVE  ContentInv'
<1>1. PICK q \in {0, 2} : Refused(q)
  BY DEF HashChanged
<1>2. q \in Parties /\ Quiet
  BY DEF Parties, HashChanged
<1>3. ASSUME NEW p \in Parties, Sends(p) PROVE HashChanged' /\ flips' = 1 /\ transport' = "channel"
  <2>1. PICK x \in Parties, m \in MessagesIn(Tag(p)) :
               x # p /\ Puts(p, x, m) /\ AsDue(p, m) /\ flips' = 1 /\ transport' = "channel"
    BY <1>3, SendsAsDue
  <2>2. Quiet'
    BY <1>2, <1>3, <2>1, QuietSends DEF AsDue
  <2>3. Refused(q)'
    BY <1>1, <1>2, <1>3, RefusedStep
  <2> QED BY <2>1, <2>2, <2>3 DEF HashChanged
<1>4. ASSUME NEW p \in Parties, HearPrev(p) \/ Takes(p) \/ Returns(p) \/ Fails(p) \/ Quits(p)
      PROVE  HashChanged' /\ flips' = 1 /\ transport' = "channel"
  <2>1. Refused(q)'
    BY <1>1, <1>2, <1>4, RefusedStep
  <2>2. Quiet' /\ flips' = 1 /\ transport' = "channel"
    BY <1>2, <1>4, QuietSteps, StepFewer
  <2> QED BY <2>1, <2>2 DEF HashChanged
<1>5. ASSUME NextEvaluation PROVE FALSE
  <2>1. at[q] = "done"
    BY <1>2, <1>5, NextEmpties
  <2> QED BY <1>1, <2>1 DEF Refused, Ended, Listening, Exchanges
<1>6. ~\E l \in Links : Writer(l)
  BY WriterFewer
<1> QED BY <1>3, <1>4, <1>5, <1>6, NextKinds DEF ContentInv

-----------------------------------------------------------------------------
(* What is on its way to a party that has ended. *)

(* At the start nobody has.                                                *)
LEMMA EmptiedStart == Init => Emptied
<1> SUFFICES ASSUME Init PROVE Emptied
  OBVIOUS
<1>1. \A p \in Parties : at[p] = FirstRound(0)
  BY DEF Init
<1>2. \A p \in Parties : ~Ended(p)
  BY <1>1 DEF FirstRound, Ended
<1> QED BY <1>2 DEF Emptied

(* Nothing is sent to a party that has ended, within a process.            *)
LEMMA EmptiedStep ==
    ASSUME SyncInv, Emptied, Next
    PROVE  Emptied'
<1>1. ASSUME NEW p \in Parties,
             Sends(p) \/ HearPrev(p) \/ Takes(p) \/ Returns(p) \/ Fails(p) \/ Quits(p)
      PROVE  Emptied'
  <2>1. transport' = transport
    BY <1>1, StepFewer, SendsPut
  <2> SUFFICES ASSUME transport = "channel", NEW a \in Parties, NEW b \in Parties, a # b, Ended(b)'
               PROVE  Msgs(a, b)' = << >>
    BY <2>1 DEF Emptied
  <2>2. CASE Sends(p)
    <3>1. PICK q \in Parties, m \in MessagesIn(Tag(p)) : q # p /\ Puts(p, q, m) /\ ~Ended(q)
      BY <2>2, SendsPut
    <3>2. Ended(b)
      BY <2>2, SendsKeep DEF Ended
    <3>3. Msgs(a, b)' = Msgs(a, b)
      BY <3>1, <3>2 DEF Puts, Others
    <3> QED BY <3>2, <3>3 DEF Emptied
  <2>3. CASE HearPrev(p) \/ Takes(p)
    <3>1. b # p => Ended(b)' = Ended(b)
      BY <1>1, StepEnded
    <3>2. ~Ended(p)'
      BY <2>3, StepEnded
    <3>3. Ended(b) /\ b # p /\ ~Sends(p)
      BY <2>3, <3>1, <3>2, SendsKeep, HearsKeep, TakesKeep
    <3>4. Msgs(a, b)' = Msgs(a, b)
      BY <2>3, <3>3, OthersAdd
    <3> QED BY <3>3, <3>4 DEF Emptied
  <2>4. CASE Returns(p) \/ Fails(p) \/ Quits(p)
    <3>1. \E how : Ends(p, how)
      BY <2>4, ReturnsKeep, LeavesKeep
    <3>2. Drops(p)
      BY <3>1, EndsDrop
    <3>3. b # p => Ended(b)
      BY <2>4, StepEnded
    <3> QED BY <3>2, <3>3 DEF Drops, Emptied
  <2> QED BY <1>1, <2>2, <2>3, <2>4
<1>2. CASE NextEvaluation
  BY <1>2, NextEmpties DEF Emptied
<1>3. CASE \E l \in Links : Writer(l)
  BY <1>3, WriterFewer DEF Emptied
<1> QED BY <1>1, <1>2, <1>3, NextKinds

(* A party that goes on comes to the next round.                           *)
LEMMA TakesAfter ==
    ASSUME SyncInv, NEW p \in Parties, Takes(p)
    PROVE  Tag(p)' = After(Tag(p)) /\ Tag(p) \in Tags /\ Tag(p)[2] = at[p] /\ Tag(p)[1] = done[p]
<1>1. /\ Domains /\ Tag(p) \in Tags /\ Tag(p)[2] = at[p] /\ Tag(p)[1] = done[p]
      /\ Tag(p) = <<Tag(p)[1], Tag(p)[2], Tag(p)[3]>>
      /\ Tag(p)[3] = (IF at[p] = "level" THEN level[p] ELSE 0) /\ PartyOK(p) /\ PlaceInv(p)
  <2>1. at[p] \in Resharing \cup Exchanges /\ Gets(p, at[p])
    BY TakesKeep
  <2>2. /\ Domains /\ Tag(p) \in Tags /\ Tag(p)[2] = at[p] /\ Tag(p)[1] = done[p] /\ PartyOK(p) /\ PlaceInv(p)
        /\ Tag(p)[3] = (IF at[p] = "level" THEN level[p] ELSE 0)
    BY <2>1, Gotten
  <2> QED BY <2>2, TagIsStage, StageFacts
<1> DEFINE Moves(round, next) ==
             /\ at[p] = round /\ at' = [at EXCEPT ![p] = next] /\ done' = done
<1>2. ASSUME NEW round, NEW next, Moves(round, next),
             <<round, next>> \in {<<"triples", "coin">>, <<"coin", "cut">>, <<"cut", "pairs">>,
                                  <<"pairs", "zero">>, <<"zero", "views">>, <<"open", "shown">>}
      PROVE  Tag(p)' = After(Tag(p))
  <2>1. at[p] = round /\ at'[p] = next /\ done'[p] = done[p]
    BY <1>1, <1>2 DEF Domains
  <2>2. Tag(p)' = <<done[p], next, 0>>
    BY <1>2, <2>1, NextTag
  <2>3. After(Tag(p)) = <<done[p], next, 0>>
    BY <1>1, <1>2, <2>1 DEF After
  <2> QED BY <2>2, <2>3
<1>3. CASE TakeTriples(p)
  <2>1. Moves("triples", "coin")
    BY <1>3 DEF TakeTriples, GoesTo, Gets
  <2> HIDE DEF Moves
  <2> QED BY <1>1, <1>2, <2>1
<1>4. CASE TakeCoin(p)
  <2>1. Moves("coin", "cut")
    BY <1>4 DEF TakeCoin, GoesTo, Gets
  <2> HIDE DEF Moves
  <2> QED BY <1>1, <1>2, <2>1
<1>5. CASE TakeCut(p)
  <2>1. Moves("cut", "pairs")
    BY <1>5 DEF TakeCut, GoesTo, Gets
  <2> HIDE DEF Moves
  <2> QED BY <1>1, <1>2, <2>1
<1>6. CASE TakePairs(p)
  <2>1. Moves("pairs", "zero")
    BY <1>6 DEF TakePairs, GoesTo, Gets
  <2> HIDE DEF Moves
  <2> QED BY <1>1, <1>2, <2>1
<1>7. CASE ZeroChecked(p)
  <2>1. Moves("zero", "views")
    BY <1>7 DEF ZeroChecked, GoesTo, Gets, local
  <2> HIDE DEF Moves
  <2> QED BY <1>1, <1>2, <2>1
<1>8. CASE TakeOpen(p)
  <2>1. Moves("open", "shown")
    BY <1>8 DEF TakeOpen, GoesTo, Gets
  <2> HIDE DEF Moves
  <2> QED BY <1>1, <1>2, <2>1
<1>9. CASE Refilled(p)
  <2>1. /\ at[p] = "views" /\ at' = [at EXCEPT ![p] = FirstRound(Len(pool[p]) + count[p])]
        /\ done' = done /\ level' = level
    BY <1>9 DEF Refilled, GoesTo, Gets
  <2>2. /\ count[p] = CountIn(done[p]) /\ Refills(done[p]) /\ Len(pool[p]) = StockAt(done[p])
        /\ level[p] = 1 /\ done[p] \in Nat
    <3>1. Len(pool[p]) = StockIn(Tag(p)) /\ StockIn(Tag(p)) = StockAt(done[p]) /\ level[p] = 1
      BY <1>1, <2>1, TagValues DEF PlaceInv
    <3> QED BY <2>1, <3>1, RefillFacts DEF RefillRounds
  <2>3. FirstRound(Len(pool[p]) + count[p]) = "level"
    <3>1. Len(pool[p]) + count[p] = Filled(done[p])
      BY <2>2 DEF Filled
    <3>2. Filled(done[p]) \in Nat /\ Filled(done[p]) >= Levels /\ Levels \in Nat
      BY <2>2, StockNext, BatchFacts
    <3> QED BY <3>1, <3>2 DEF FirstRound
  <2>4. at'[p] = "level" /\ done'[p] = done[p] /\ level'[p] = 1
    BY <1>1, <2>1, <2>2, <2>3 DEF Domains
  <2>5. Tag(p)' = <<done[p], "level", 1>>
    BY <2>4 DEF Tag
  <2>6. After(Tag(p)) = <<done[p], "level", 1>>
    BY <1>1, <2>1 DEF After
  <2> QED BY <1>1, <2>5, <2>6
<1>10. CASE TakeLevel(p)
  <2>1. /\ at[p] = "level" /\ done' = done
        /\ IF level[p] < Levels
             THEN level' = [level EXCEPT ![p] = @ + 1] /\ at' = [at EXCEPT ![p] = "level"]
             ELSE level' = [level EXCEPT ![p] = 1] /\ at' = [at EXCEPT ![p] = "check"]
    BY <1>10 DEF TakeLevel, GoesTo, Gets
  <2>2. After(Tag(p)) = IF level[p] < Levels THEN <<done[p], "level", level[p] + 1>>
                                              ELSE <<done[p], "check", 0>>
    BY <1>1, <2>1 DEF After
  <2>3. Tag(p)' = IF level[p] < Levels THEN <<done[p], "level", level[p] + 1>>
                                        ELSE <<done[p], "check", 0>>
    BY <1>1, <2>1 DEF Tag, Domains
  <2> QED BY <1>1, <2>2, <2>3
<1>11. CASE Evaluated(p) /\ (transport = "tcp" \/ Opening)
  <2> DEFINE e == done[p] + 1
             more == transport = "tcp" /\ e < Evals
             next == IF more THEN FirstRound(StockAt(e)) ELSE IF transport = "tcp" THEN "hand" ELSE "open"
  <2>1. /\ at[p] = "check" /\ done[p] \in Nat /\ e \in 0..Evals /\ level[p] = 1
        /\ Len(pool[p]) = StockAt(e) /\ transport \in {"channel", "tcp"}
    BY <1>11, EvaluatedFacts DEF Evaluated
  <2>2. at' = [at EXCEPT ![p] = next] /\ done' = [done EXCEPT ![p] = @ + 1] /\ level' = level
    BY <1>11, <2>1 DEF Evaluated, GoesTo
  <2>3. at'[p] = next /\ done'[p] = e /\ level'[p] = 1
    BY <1>1, <2>1, <2>2 DEF Domains
  <2>4. CASE more
    <3>1. /\ First(e)[2] = next /\ First(e)[1] = e /\ First(e) = <<First(e)[1], First(e)[2], First(e)[3]>>
          /\ First(e)[3] = IF First(e)[2] = "level" THEN 1 ELSE 0
      BY <2>1, <2>4, FirstFacts, StageFacts
    <3>2. After(Tag(p)) = First(e)
      BY <1>1, <2>1, <2>4 DEF After
    <3> QED BY <1>1, <2>3, <3>1, <3>2 DEF Tag
  <2>5. CASE ~more
    <3>1. After(Tag(p)) = <<e, next, 0>> /\ next # "level"
      BY <1>1, <1>11, <2>1, <2>5 DEF After
    <3> QED BY <1>1, <2>3, <3>1 DEF Tag
  <2> QED BY <2>4, <2>5
<1> QED BY <1>1, <1>3, <1>4, <1>5, <1>6, <1>7, <1>8, <1>9, <1>10, <1>11 DEF Takes

-----------------------------------------------------------------------------
(* While a changed word is on its way to party 0. *)

(* What a party with nothing wrong sends adds nothing wrong.               *)
LEMMA DueClean ==
    ASSUME SyncInv, NEW p \in Parties, Sends(p), Rested(p), NEW q \in Parties, q # p,
           NEW m, Puts(p, q, m), AsDue(p, m), NEW a \in Parties, NEW b \in Parties, a # b, Clean(a, b)
    PROVE  Clean(a, b)' /\ Zero(m.body)
<1>1. at[p] \in Rounds
  BY SendsKeep, TypeParts DEF SyncInv, Typed, PartyOK, Ended
<1>2. Zero(m.body)
  BY <1>1, RestedSays DEF AsDue
<1> QED BY <1>2, CleanPut

(* It stays there until party 0 goes on or aborts.                         *)
LEMMA InFlightStays ==
    ASSUME SyncInv, transport = "channel", flips = 1, InFlight, NEW p \in Parties,
           \/ Sends(p) \/ HearPrev(p)
           \/ p # 0 /\ (Takes(p) \/ Returns(p) \/ Fails(p) \/ Quits(p))
    PROVE  InFlight' /\ flips' = 1 /\ transport' = "channel"
<1>0. 0 \in Parties /\ 1 \in Parties /\ PrevOf(0) = 2 /\ NextOf(0) = 1
  BY DEF Parties, PrevOf, NextOf
<1>1. /\ ~Ended(0)
      /\ \A x \in Parties : /\ Rested(x) /\ HeardZero(x)
                            /\ \A y \in Parties \ {x} : <<y, x>> # <<1, 0>> => Clean(y, x)
  BY DEF InFlight
<1>2. PrevOf(p) \in Parties \ {p} /\ NextOf(p) \in Parties \ {p} /\ (p = 0 => PrevOf(p) # 1)
  BY <1>0, RingFacts
<1>3. ~Ended(0)'
  <2>1. CASE p # 0
    BY <1>0, <1>1, <2>1, StepEnded
  <2>2. CASE p = 0
    BY <2>2, StepEnded
  <2> QED BY <2>1, <2>2
<1>4. ASSUME NEW x \in Parties PROVE Rested(x)' /\ HeardZero(x)'
  <2>1. CASE x # p
    BY <1>1, <2>1, OthersStay, StaysFacts
  <2>2. CASE x = p
    <3>1. (Takes(p) \/ Returns(p)) => Zero(Inbound(p))
      <4> SUFFICES ASSUME Takes(p) \/ Returns(p) PROVE Zero(Inbound(p))
        OBVIOUS
      <4>1. p # 0
        BY <1>0, SendsKeep, HearsKeep, TakesKeep, ReturnsKeep
      <4>2. Clean(NextOf(p), p)
        BY <1>1, <1>2, <4>1
      <4> QED BY <4>2, TakesKeep, ReturnsKeep, InboundZero
    <3>2. Clean(PrevOf(p), p)
      BY <1>1, <1>2
    <3> QED BY <1>1, <2>2, <3>1, <3>2, StepRested, StepHeard
  <2> QED BY <2>1, <2>2
<1>5. CASE Sends(p)
  <2>1. PICK q \in Parties, m \in MessagesIn(Tag(p)) :
               q # p /\ Puts(p, q, m) /\ AsDue(p, m) /\ flips' = 1 /\ transport' = "channel"
    BY <1>5, SendsAsDue
  <2>2. ASSUME NEW a \in Parties, NEW b \in Parties \ {a}, <<a, b>> # <<1, 0>> PROVE Clean(a, b)'
    BY <1>1, <1>5, <2>1, <2>2, DueClean
  <2>3. Zero(m.body)
    BY <1>1, <1>2, <1>5, <2>1, DueClean
  <2>4. PICK k \in DOMAIN Msgs(1, 0) :
               /\ Msgs(1, 0)[k].tag[2] \in Resharing /\ OneWrong(Msgs(1, 0)[k].body)
               /\ \A i \in DOMAIN Msgs(1, 0) \ {k} : Zero(Msgs(1, 0)[i].body)
    BY DEF InFlight
  <2>5. /\ k \in DOMAIN Msgs(1, 0)' /\ Msgs(1, 0)'[k] = Msgs(1, 0)[k]
        /\ \A i \in DOMAIN Msgs(1, 0)' \ {k} : Zero(Msgs(1, 0)'[i].body)
    <3>1. CASE <<p, q>> = <<1, 0>>
      <4>1. /\ \A i \in DOMAIN Msgs(1, 0) : i \in DOMAIN Msgs(1, 0)' /\ Msgs(1, 0)'[i] = Msgs(1, 0)[i]
            /\ \A i \in DOMAIN Msgs(1, 0)' :
                  \/ Msgs(1, 0)'[i] = m
                  \/ i \in DOMAIN Msgs(1, 0) /\ Msgs(1, 0)'[i] = Msgs(1, 0)[i]
        BY <2>1, <3>1, PutFacts
      <4> QED BY <2>3, <2>4, <4>1
    <3>2. CASE <<p, q>> # <<1, 0>>
      <4>1. Msgs(1, 0)' = Msgs(1, 0)
        BY <1>0, <2>1, <3>2 DEF Puts, Others
      <4> QED BY <2>4, <4>1
    <3> QED BY <3>1, <3>2
  <2> QED BY <1>3, <1>4, <2>1, <2>2, <2>4, <2>5 DEF InFlight
<1>6. CASE ~Sends(p)
  <2>1. Fewer /\ transport' = "channel" /\ flips' = 1
    BY <1>6, StepFewer
  <2>2. ASSUME NEW a \in Parties, NEW b \in Parties \ {a}, <<a, b>> # <<1, 0>> PROVE Clean(a, b)'
    BY <1>1, <2>1, <2>2, CleanKept
  <2>3. Msgs(1, 0)' = Msgs(1, 0)
    <3>1. CASE p # 0
      BY <1>0, <1>6, <3>1, OthersAdd
    <3>2. CASE p = 0
      BY <1>0, <1>2, <1>6, <3>2, OwnReads
    <3> QED BY <3>1, <3>2
  <2> QED BY <1>3, <1>4, <2>1, <2>2, <2>3 DEF InFlight
<1> QED BY <1>5, <1>6

(* Party 0 does not return before it has read it, and when it aborts the   *)
(* word is of no account.                                                  *)
LEMMA InFlightEnds ==
    ASSUME SyncInv, transport = "channel", flips = 1, InFlight, Returns(0) \/ Fails(0)
    PROVE  HashChanged' /\ flips' = 1 /\ transport' = "channel"
<1>0. 0 \in Parties /\ 1 \in Parties /\ NextOf(0) = 1
  BY DEF Parties, NextOf
<1>1. PICK k \in DOMAIN Msgs(1, 0) : Msgs(1, 0)[k].tag[2] \in Resharing
  BY DEF InFlight
<1>2. ~Returns(0)
  <2> SUFFICES ASSUME Returns(0) PROVE FALSE
    OBVIOUS
  <2>1. k = 1
    BY <1>0, <1>1, LastRead
  <2>2. Msgs(1, 0)[1].tag = Tag(0) /\ Tag(0)[2] = at[0]
    BY <1>0, TakesAgree DEF Tag
  <2>3. at[0] \in {"check", "shown"}
    BY <1>0, ReturnsKeep
  <2> QED BY <1>1, <2>1, <2>2, <2>3 DEF Resharing, Generating
<1>3. Fails(0)
  BY <1>2
<1>4. Ends(0, "aborted") /\ \A x \in Parties : Unmoved(x)
  BY <1>0, <1>3, LeavesKeep
<1>5. at'[0] = "aborted" /\ Fewer /\ Drops(0) /\ flips' = 1 /\ transport' = "channel"
  BY <1>0, <1>4, EndsDrop
<1>6. ASSUME NEW x \in Parties PROVE Rested(x)' /\ HeardZero(x)'
  <2>1. Rested(x)'
    BY <1>4, UnmovedFacts DEF InFlight
  <2>2. HeardZero(x)'
    <3>1. CASE x = 0
      BY <1>0, <1>3, <3>1, StepHeard, HearsKeep, StepEnded DEF Ended
    <3>2. CASE x # 0
      BY <1>0, <1>3, <3>2, OthersStay, StaysFacts DEF InFlight
    <3> QED BY <3>1, <3>2
  <2> QED BY <2>1, <2>2
<1>7. ASSUME NEW a \in Parties, NEW b \in Parties \ {a} PROVE Clean(a, b)'
  <2>1. CASE b = 0
    <3>1. Msgs(a, b)' = << >>
      BY <1>5, <2>1 DEF Drops
    <3> QED BY <3>1 DEF Clean
  <2>2. CASE b # 0
    BY <1>5, <2>2, CleanKept DEF InFlight
  <2> QED BY <2>1, <2>2
<1>8. Quiet'
  BY <1>6, <1>7 DEF Quiet
<1> QED BY <1>5, <1>8 DEF HashChanged, Refused

-----------------------------------------------------------------------------
(* A mark: party 0 has opened a value otherwise than the others. *)

(* The rounds of a segment come before the check that ends it.             *)
LEMMA SegmentFacts ==
    ASSUME NEW end \in Closings
    PROVE  /\ end \in Tags /\ Size(end) = Logged(end) /\ Logged(end) \in Nat /\ end[3] = 0
           /\ end[2] \in {"views", "check", "shown"} /\ end[2] \in Exchanges /\ end[2] \notin Resharing
           /\ In(end, end)
           /\ \A t \in Stages : In(t, end) =>
                NotAfter(t, end) /\ NotAfter(NextExchange(t), end) /\ t \in Tags
<1>1. PICK e \in 0..Evals, round \in {"views", "check", "shown"} : end = <<e, round, 0>>
  BY DEF Closings
<1>2. Levels \in Nat \ {0} /\ Evals \in Nat
  BY BatchFacts
<1>3. end \in Tags
  BY <1>1, <1>2 DEF Tags, Rounds, Exchanges
<1>4. Size(end) = Logged(end) /\ Logged(end) \in Nat
  <2>1. RefillOpens(e) \in Nat /\ 2 * Levels \in Nat /\ 1 \in Nat
    BY <1>1, <1>2, SizeFacts
  <2> QED BY <1>1, <2>1, TagValues
<1>5. In(end, end)
  BY <1>1 DEF In, Segment, RefillRounds
<1>6. ASSUME NEW t \in Stages, In(t, end)
      PROVE  NotAfter(t, end) /\ NotAfter(NextExchange(t), end) /\ t \in Tags
  <2>1. /\ t[1] = e /\ Segment(t) = round /\ t[2] \in Rounds \cup {"done"}
        /\ t[2] = "level" => t[3] \in 1..Levels
    BY <1>1, <1>6, StageFacts DEF In
  <2>2. \/ round = "views" /\ t[2] \in RefillRounds
        \/ round = "check" /\ t[2] \in {"level", "check"}
        \/ round = "shown" /\ t[2] \in {"open", "shown"}
    <3> PICK s : s = t[2]
      OBVIOUS
    <3>1. round = CASE s \in RefillRounds -> "views" [] s \in {"level", "check"} -> "check"
                    [] s \in {"open", "shown"} -> "shown" [] OTHER -> "none"
      BY <2>1 DEF Segment
    <3>2. CASE s \in RefillRounds
      BY <3>1, <3>2 DEF RefillRounds, Generating
    <3>3. CASE s \in {"level", "check"}
      BY <3>1, <3>3 DEF RefillRounds, Generating
    <3>4. CASE s \in {"open", "shown"}
      BY <3>1, <3>4 DEF RefillRounds, Generating
    <3>5. CASE s \notin RefillRounds \cup {"level", "check", "open", "shown"}
      BY <3>1, <3>5
    <3> QED BY <3>2, <3>3, <3>4, <3>5
  <2>3. t[2] # "done"
    BY <2>2 DEF RefillRounds, Generating
  <2>4. Rank(end) = CASE round = "views" -> 8 [] round = "check" -> 9 + Levels [] round = "shown" -> 1
    BY <1>1 DEF Rank
  <2>5. CASE t[2] \in Generating
    <3>1. round = "views" /\ NextExchange(t) = <<e, "zero", 0>>
      BY <2>1, <2>2, <2>5 DEF Generating, NextExchange
    <3>2. Rank(t) \in 3..6 /\ Rank(NextExchange(t)) = 7
      BY <2>5, <3>1 DEF Generating, Rank
    <3> QED BY <1>1, <2>1, <2>3, <2>4, <3>1, <3>2, StageFacts DEF NotAfter
  <2>6. CASE t[2] \in {"zero", "views"}
    <3>1. round = "views" /\ NextExchange(t) = t
      BY <2>1, <2>2, <2>6 DEF Generating, NextExchange
    <3>2. Rank(t) \in 7..8
      BY <2>6 DEF Rank
    <3> QED BY <1>1, <2>1, <2>3, <2>4, <3>1, <3>2, StageFacts DEF NotAfter
  <2>7. CASE t[2] = "level"
    <3>1. round = "check" /\ NextExchange(t) = end
      BY <1>1, <2>1, <2>2, <2>7 DEF RefillRounds, Generating, NextExchange
    <3>2. Rank(t) = 8 + t[3]
      BY <2>7 DEF Rank
    <3>3. Rank(end) = 9 + Levels
      BY <2>4, <3>1
    <3> QED BY <1>1, <1>2, <2>1, <2>3, <3>1, <3>2, <3>3, StageFacts DEF NotAfter
  <2>8. CASE t[2] = "check"
    <3>1. round = "check" /\ NextExchange(t) = t
      BY <2>2, <2>8 DEF RefillRounds, Generating, NextExchange
    <3>2. Rank(t) = 9 + Levels /\ Rank(end) = 9 + Levels
      BY <2>4, <2>8, <3>1 DEF Rank
    <3> QED BY <1>1, <1>2, <2>1, <2>3, <3>1, <3>2, StageFacts DEF NotAfter
  <2>9. CASE t[2] \in {"open", "shown"}
    <3>1. round = "shown" /\ NextExchange(t) = <<e, "shown", 0>>
      <4>1. t[2] = "shown" => t[3] = 0 /\ t = <<t[1], t[2], t[3]>>
        BY StageFacts
      <4> QED BY <2>1, <2>2, <2>9, <4>1 DEF RefillRounds, Generating, NextExchange
    <3>2. Rank(t) \in 0..1 /\ Rank(NextExchange(t)) = 1 /\ Rank(end) = 1
      BY <2>4, <2>9, <3>1 DEF Rank
    <3> QED BY <1>1, <2>1, <2>3, <3>1, <3>2, StageFacts DEF NotAfter
  <2> QED BY <2>2, <2>5, <2>6, <2>7, <2>8, <2>9 DEF RefillRounds
<1> QED BY <1>1, <1>3, <1>4, <1>5, <1>6 DEF Exchanges, Resharing, Generating

(* What party 0 has, and nobody else, when it has read a changed word.     *)
MarkReady(end, pos) ==
    /\ Closes(end) /\ sub[0] = "send" /\ at[0] # "aborted" /\ In(Tag(0), end)
    /\ Zero(pool[0]) /\ Zero(triples[0]) /\ Len(log[0]) >= pos
    /\ \A i \in DOMAIN log[0] : i <= pos => log[0][i] = IF i = pos THEN 1 ELSE 0
    /\ z[0] # Clear => end[2] = "check"
    /\ \A p \in {1, 2} : Rested(p) /\ HeardZero(p)
    /\ \A q, p \in Parties : q # p => Clean(q, p)

MarksStart ==
    \A end \in Closings : \A pos \in 1..Logged(end) : MarkReady(end, pos) => Marked(end, pos)

(* The others are not past the check that is to find it, and have not yet  *)
(* heard what party 0 says there.                                          *)
LEMMA MarksStartSo == SyncInv /\ Emptied /\ transport = "channel" => MarksStart
<1> SUFFICES ASSUME SyncInv, Emptied, transport = "channel", NEW end \in Closings,
                    NEW pos \in 1..Logged(end), MarkReady(end, pos)
             PROVE  Marked(end, pos)
  BY DEF MarksStart
<1>0. 0 \in Parties /\ 1 \in Parties /\ 2 \in Parties /\ Parties = {0, 1, 2}
      /\ PrevOf(0) = 2 /\ PrevOf(1) = 0 /\ PrevOf(2) = 1
  BY DEF Parties, PrevOf
<1>1. /\ end \in Tags /\ end \in Stages /\ Size(end) = Logged(end) /\ Logged(end) \in Nat
      /\ end[2] \notin Resharing
      /\ \A t \in Stages : In(t, end) => NotAfter(t, end) /\ NotAfter(NextExchange(t), end)
  BY SegmentFacts, TagIsStage
<1>2. Tag(0) \in Stages /\ In(Tag(0), end) /\ sub[0] = "send" /\ at[0] # "aborted" /\ Complete(0)
  BY <1>0, TagFacts DEF MarkReady, Complete
<1>3. NotAfter(Tag(0), end) /\ NotAfter(NextExchange(Tag(0)), end) /\ NextExchange(Tag(0)) \in Stages
  BY <1>1, <1>2, ExchangeFacts
<1>4. /\ ToSend(0, 1) = NextExchange(Tag(0)) /\ ToSend(0, 2) = Tag(0)
  BY <1>0, <1>2 DEF ToSend, HasSent, Due
<1>5. /\ NotAfter(ToSend(0, 1), end) /\ NotAfter(ToSend(0, 2), end)
      /\ ToSend(0, 1) \in Stages /\ ToSend(0, 2) \in Stages
  BY <1>2, <1>3, <1>4
<1>6. ASSUME NEW p \in {1, 2}, at[p] # "aborted"
      PROVE  NotAfter(Tag(p), end) /\ ~(p = 1 /\ sub[p] = "fromNext" /\ Tag(p) = end)
  <2>1. p \in Parties /\ p # 0 /\ Complete(p) /\ LinkInv(0, p)
    BY <1>0, <1>6, MsgsFacts DEF Complete, SyncInv
  <2>2. NotAfter(ToRead(p, 0), ToSend(0, p)) /\ ToRead(p, 0) \in Stages
    BY <1>0, <1>2, <1>6, <2>1, ToFacts DEF LinkInv
  <2>3. NotAfter(ToRead(p, 0), end)
    BY <1>1, <1>5, <2>2, OrderFacts, StageFacts
  <2>4. Tag(p) \in Stages /\ Goes(Tag(p)) /\ Tag(p)[2] = at[p] /\ (at[p] # "done" => Tag(p) \in Tags)
    BY <1>6, <2>1, TagFacts
  <2>5. CASE HasRead(p, 0)
    <3>1. p = 1 /\ sub[p] = "fromNext" /\ ToRead(p, 0) = NextExchange(After(Tag(p)))
      BY <1>0, <2>5 DEF HasRead, ToRead, Following, Due
    <3>2. at[p] # "done" /\ Tag(p) \in Tags /\ at[p] # "hand"
      BY <2>1, <2>4, <3>1, SubFacts DEF Resharing, Exchanges, Generating
    <3>3. Before(Tag(p), After(Tag(p))) /\ After(Tag(p)) \in Stages
      BY <2>4, <3>2, AfterFacts DEF Goes
    <3>4. NotAfter(After(Tag(p)), NextExchange(After(Tag(p)))) /\ NextExchange(After(Tag(p))) \in Stages
      BY <3>3, ExchangeFacts
    <3>5. Before(Tag(p), ToRead(p, 0))
      BY <2>4, <3>1, <3>3, <3>4, OrderFacts, StageFacts
    <3>6. Before(Tag(p), end)
      BY <1>1, <2>2, <2>3, <2>4, <3>5, OrderFacts, StageFacts
    <3> QED BY <1>1, <2>4, <3>6, OrderFacts, StageFacts
  <2>6. CASE ~HasRead(p, 0)
    <3>1. ToRead(p, 0) = NextExchange(Tag(p)) \/ ToRead(p, 0) = Tag(p)
      BY <2>6 DEF ToRead, Due
    <3>2. NotAfter(Tag(p), ToRead(p, 0))
      BY <2>4, <3>1, ExchangeFacts, OrderFacts, StageFacts
    <3>3. NotAfter(Tag(p), end)
      BY <1>1, <2>2, <2>3, <2>4, <3>2, OrderFacts, StageFacts
    <3>4. ~(p = 1 /\ sub[p] = "fromNext")
      BY <1>0, <2>6 DEF HasRead
    <3> QED BY <3>3, <3>4
  <2> QED BY <2>5, <2>6
<1>7. MarkedParty(0, end, pos)
  BY <1>2, <1>3 DEF MarkReady, MarkedParty
<1>8. ASSUME NEW p \in {1, 2} PROVE MarkedParty(p, end, pos)
  <2>1. /\ Zero(pool[p]) /\ Zero(triples[p]) /\ shown[p] = 0 /\ Zero(log[p]) /\ ~astray[p] /\ z[p] = Clear
        /\ HeardZero(p) /\ p # 0 /\ p \in Parties
    BY <1>0 DEF MarkReady, Rested, Calm
  <2>2. ASSUME Tag(p) = end, sub[p] = "fromNext" PROVE p # 1 /\ heard[p].body[pos] = 0
    <3>1. at[p] = end[2]
      BY <2>2 DEF Tag
    <3>2. Listening(p) /\ at[p] # "aborted" /\ at[p] \in {"views", "check", "shown"}
      BY <2>2, <3>1, SegmentFacts DEF Listening, Exchanges
    <3>3. p # 1
      BY <1>6, <2>2, <3>2
    <3>4. heard[p] \in MessagesIn(end)
      BY <2>1, <2>2, <3>2 DEF SyncInv, PlaceInv, Listening
    <3>5. heard[p].body \in Vectors(Size(end))
      BY <3>4 DEF MessagesIn
    <3>6. DOMAIN heard[p].body = 1..Logged(end)
      BY <1>1, <3>5, VectorFacts
    <3> QED BY <2>1, <3>2, <3>3, <3>6 DEF HeardZero, Zero
  <2> QED BY <1>6, <2>1, <2>2 DEF MarkedParty, Zero
<1>9. ASSUME NEW q \in Parties, NEW p \in Parties, q # p PROVE MarkedLink(q, p, end, pos)
  <2>1. Clean(q, p)
    BY <1>9 DEF MarkReady
  <2>2. ASSUME NEW i \in DOMAIN Msgs(q, p), Msgs(q, p)[i].tag = end
        PROVE  Msgs(q, p)[i].body[pos] = IF q = 0 THEN 1 ELSE 0
    <3>1. /\ Msgs(q, p) \in Seq(Messages) /\ i \in 1..Len(Msgs(q, p)) /\ LinkInv(q, p)
      <4>1. Msgs(q, p) \in Seq(Messages) /\ LinkInv(q, p)
        BY <1>9, MsgsFacts DEF SyncInv
      <4>2. i \in 1..Len(Msgs(q, p))
        BY <4>1
      <4> QED BY <4>1, <4>2
    <3>2. Msgs(q, p)[i] \in MessagesIn(end)
      BY <1>9, <2>2, <3>1, MsgsFacts DEF SyncInv
    <3>3. Msgs(q, p)[i].body \in Vectors(Size(end))
      BY <3>2 DEF MessagesIn
    <3>4. DOMAIN Msgs(q, p)[i].body = 1..Logged(end)
      BY <1>1, <3>3, VectorFacts
    <3>5. Msgs(q, p)[i].body[pos] = 0
      BY <2>1, <3>4 DEF Clean, Zero
    <3>6. q # 0
      <4> SUFFICES ASSUME q = 0 PROVE FALSE
        OBVIOUS
      <4>1. ~Ended(p)
        BY <1>9, <2>2 DEF Emptied
      <4>2. Before(end, ToSend(0, p))
        BY <1>2, <2>2, <3>1, <4>1 DEF LinkInv
      <4>3. NotAfter(ToSend(0, p), end) /\ ToSend(0, p) \in Stages
        BY <1>0, <1>5, <1>9
      <4> QED BY <1>1, <4>2, <4>3, OrderFacts, StageFacts
    <3> QED BY <3>5, <3>6
  <2> QED BY <2>1, <2>2 DEF MarkedLink, Clean
<1> QED BY <1>0, <1>7, <1>8, <1>9 DEF Marked, MarkReady

(* The check that ends the segment a round is in.                          *)
EndOf(t) == <<t[1], Segment(t), 0>>

(* Where a party that has opened values is then.                           *)
LEMMA OpenedIn ==
    ASSUME SyncInv, NEW p \in Parties, Takes(p), at[p] \in Resharing \ {"triples"}
    PROVE  /\ EndOf(Tag(p)) \in Closings /\ Closes(EndOf(Tag(p)))
           /\ In(Tag(p), EndOf(Tag(p))) /\ In(Tag(p)', EndOf(Tag(p)))
           /\ Logged(Tag(p)) + Size(Tag(p)) <= Logged(EndOf(Tag(p)))
           /\ at[p] = "level" => EndOf(Tag(p))[2] = "check"
           /\ Logged(Tag(p)) \in Nat /\ Size(Tag(p)) \in Nat /\ Len(log[p]) = Logged(Tag(p))
<1> DEFINE t == Tag(p)
<1>1. /\ t \in Tags /\ t[2] = at[p] /\ t[1] = done[p] /\ Tag(p)' = After(t) /\ t[1] \in 0..Evals
      /\ t[2] = "level" => t[3] \in 1..Levels
  BY TakesAfter, TagIsStage, StageFacts
<1>2. PlaceInv(p) /\ at[p] # "aborted"
  BY DEF SyncInv, Resharing, Generating
<1>3. Len(log[p]) = Logged(t)
  BY <1>2 DEF PlaceInv
<1>4. Levels \in Nat \ {0} /\ Cut \in Nat /\ 3 * Cut \in Nat
  BY SizeFacts
<1> HIDE DEF t
<1>5. CASE at[p] \in {"coin", "cut", "pairs"}
  <2>1. /\ Refills(done[p]) /\ PairsIn(done[p]) \in Nat /\ RefillOpens(done[p]) \in Nat
        /\ RefillOpens(done[p]) = 1 + 3 * Cut + 2 * PairsIn(done[p])
    <3>1. Refills(done[p]) /\ done[p] \in Nat
      BY <1>5, RefillFacts DEF RefillRounds, Generating
    <3> QED BY <3>1, SizeFacts DEF RefillOpens
  <2>2. Segment(t) = "views" /\ EndOf(t) = <<done[p], "views", 0>>
    BY <1>1, <1>5 DEF Segment, RefillRounds, Generating, EndOf
  <2>3. /\ After(t)[1] = done[p] /\ After(t)[2] \in {"cut", "pairs", "zero"}
    BY <1>1, <1>5 DEF After
  <2>4. Segment(After(t)) = "views"
    BY <2>3 DEF Segment, RefillRounds, Generating
  <2>5. EndOf(t) \in Closings /\ Closes(EndOf(t))
    BY <1>1, <2>1, <2>2 DEF Closings, Closes
  <2>6. Logged(EndOf(t)) = RefillOpens(done[p])
    BY <2>2, TagValues
  <2>7. /\ Logged(t) + Size(t) <= RefillOpens(done[p]) /\ Logged(t) \in Nat /\ Size(t) \in Nat
    <3>1. CASE at[p] = "coin"
      <4>1. Logged(t) = 0 /\ Size(t) = 1
        BY <1>1, <3>1, TagValues
      <4> QED BY <1>4, <2>1, <4>1
    <3>2. CASE at[p] = "cut"
      <4>1. Logged(t) = 1 /\ Size(t) = 3 * Cut
        BY <1>1, <3>2, TagValues
      <4> QED BY <1>4, <2>1, <4>1
    <3>3. CASE at[p] = "pairs"
      <4>1. Logged(t) = 1 + 3 * Cut /\ Size(t) = 2 * PairsIn(done[p])
        BY <1>1, <3>3, TagValues
      <4> QED BY <1>4, <2>1, <4>1
    <3> QED BY <1>5, <3>1, <3>2, <3>3
  <2> QED BY <1>1, <1>3, <1>5, <2>2, <2>3, <2>4, <2>5, <2>6, <2>7 DEF In, t
<1>6. CASE at[p] = "level"
  <2>1. Segment(t) = "check" /\ EndOf(t) = <<done[p], "check", 0>>
    BY <1>1, <1>6 DEF Segment, RefillRounds, Generating, EndOf
  <2>2. /\ After(t)[1] = done[p] /\ After(t)[2] \in {"level", "check"}
    BY <1>1, <1>6 DEF After
  <2>3. Segment(After(t)) = "check"
    BY <2>2 DEF Segment, RefillRounds, Generating
  <2>4. EndOf(t) \in Closings /\ Closes(EndOf(t))
    BY <1>1, <2>1 DEF Closings, Closes
  <2>5. Logged(EndOf(t)) = 2 * Levels /\ Logged(t) = 2 * (t[3] - 1) /\ Size(t) = 2
    BY <1>1, <1>6, <2>1, TagValues
  <2>6. Logged(t) + Size(t) <= 2 * Levels /\ Logged(t) \in Nat /\ Size(t) \in Nat
    BY <1>1, <1>4, <1>6, <2>5
  <2> QED BY <1>1, <1>3, <1>6, <2>1, <2>2, <2>3, <2>4, <2>5, <2>6 DEF In, t
<1>7. CASE at[p] = "open"
  <2>1. Segment(t) = "shown" /\ EndOf(t) = <<done[p], "shown", 0>>
    BY <1>1, <1>7 DEF Segment, RefillRounds, Generating, EndOf
  <2>2. /\ After(t)[1] = done[p] /\ After(t)[2] = "shown"
    BY <1>1, <1>7 DEF After
  <2>3. Segment(After(t)) = "shown"
    BY <2>2 DEF Segment, RefillRounds, Generating
  <2>4. EndOf(t) \in Closings /\ Closes(EndOf(t))
    BY <1>1, <1>2, <1>7, <2>1 DEF Closings, Closes, PlaceInv
  <2>5. Logged(EndOf(t)) = 1 /\ Logged(t) = 0 /\ Size(t) = 1
    BY <1>1, <1>7, <2>1, TagValues
  <2> QED BY <1>1, <1>3, <1>7, <2>1, <2>2, <2>3, <2>4, <2>5 DEF In, t
<1> QED BY <1>5, <1>6, <1>7 DEF Resharing, Generating

(* What the last items of the log are, after a round.                      *)
Longer(r, s, n, f) ==
    /\ r \in Seq(Errors) /\ Len(r) = Len(s) + n
    /\ \A i \in 1..Len(s) : r[i] = 0
    /\ \A i \in 1..n : r[Len(s) + i] = f[i]

(* A log in which nothing was wrong ends with what has just been opened.   *)
LEMMA LogEnds ==
    ASSUME NEW s \in Seq(Errors), NEW n \in Nat, NEW f \in Vectors(n), Zero(s)
    PROVE  Longer(s \o f, s, n, f)
<1>1. DOMAIN s = 1..Len(s)
  OBVIOUS
<1> QED BY <1>1, LogGrows DEF Zero, Longer

(* A party with nothing wrong opens what it reads.                         *)
LEMMA WordRead ==
    ASSUME SyncInv, NEW p \in Parties, Takes(p), Rested(p), at[p] \in Resharing \ {"triples"}
    PROVE  /\ log'[p] \in Seq(Errors) /\ Len(log'[p]) = Len(log[p]) + Size(Tag(p))
           /\ \A i \in 1..Len(log[p]) : log'[p][i] = 0
           /\ \A i \in 1..Size(Tag(p)) : log'[p][Len(log[p]) + i] = Inbound(p)[i]
           /\ Zero(pool[p])' /\ Zero(triples[p])' /\ (at[p] # "level" => z'[p] = Clear)
<1>1. /\ Zero(pool[p]) /\ Zero(log[p]) /\ ~astray[p] /\ z[p] = Clear /\ Zero(triples[p])
  BY DEF Rested, Calm
<1>2. at[p] \in Resharing \cup Exchanges /\ Gets(p, at[p])
  BY TakesHold
<1>3. ~Ended(p) /\ Readable(NextOf(p), p) /\ PartyOK(p) /\ Tag(p)[2] = at[p] /\ Tag(p)[1] = done[p]
  BY <1>2, Gotten
<1>4. /\ Inbound(p) \in Vectors(Size(Tag(p))) /\ Size(Tag(p)) \in Nat
      /\ \A i \in 1..Size(Tag(p)) : Inbound(p)[i] \in Errors
  BY <1>3, GotNext
<1>5. log[p] \in Seq(Errors) /\ pool[p] \in Seq(Errors)
  BY <1>3 DEF PartyOK
<1> DEFINE Opens1(f) ==
             /\ log'[p] = log[p] \o f /\ f \in Vectors(Size(Tag(p)))
             /\ \A i \in 1..Size(Tag(p)) : f[i] = Inbound(p)[i]
<1>6. ASSUME NEW f, Opens1(f)
      PROVE  /\ log'[p] \in Seq(Errors) /\ Len(log'[p]) = Len(log[p]) + Size(Tag(p))
             /\ \A i \in 1..Len(log[p]) : log'[p][i] = 0
             /\ \A i \in 1..Size(Tag(p)) : log'[p][Len(log[p]) + i] = Inbound(p)[i]
  <2> PICK r : r = log'[p]
    OBVIOUS
  <2> PICK s : s = log[p]
    OBVIOUS
  <2> PICK n : n = Size(Tag(p))
    OBVIOUS
  <2>1. s \in Seq(Errors) /\ n \in Nat /\ f \in Vectors(n) /\ r = s \o f /\ Zero(s)
    BY <1>1, <1>4, <1>5, <1>6
  <2>2. Longer(r, s, n, f)
    BY <2>1, LogEnds
  <2> QED BY <1>6, <2>2 DEF Longer
<1>7. CASE at[p] = "coin"
  <2>1. Holds(p, triples[p], astray[p] \/ Inbound(p)[1] = 1, zeros[p],
              log[p] \o Inbound(p), pool[p], z[p], shown[p])
    BY <1>7, TakesHold
  <2>2. Opens1(Inbound(p))
    BY <1>4, <2>1 DEF Holds
  <2> HIDE DEF Opens1
  <2> QED BY <1>1, <1>6, <2>1, <2>2 DEF Holds
<1>8. CASE at[p] = "cut"
  <2>1. Holds(p, triples[p], astray[p], zeros[p], log[p] \o CutValues(p), pool[p], z[p], shown[p])
    BY <1>8, TakesHold
  <2>2. Size(Tag(p)) = 3 * Cut /\ CutValues(p) \in Vectors(3 * Cut)
    BY <1>2, <1>8, CutFacts
  <2>3. \A i \in 1..(3 * Cut) : CutShares(p)[i] = 0
    BY <1>1, <1>8, CutIndex DEF Zero
  <2>4. \A i \in 1..(3 * Cut) : CutValues(p)[i] = Inbound(p)[i]
    BY <1>1, <1>4, <2>2, <2>3, XorFacts DEF CutValues
  <2>5. Opens1(CutValues(p))
    BY <2>1, <2>2, <2>4 DEF Holds
  <2> HIDE DEF Opens1
  <2> QED BY <1>1, <1>6, <1>8, <2>1, <2>5 DEF Holds
<1>9. CASE at[p] = "pairs"
  <2>1. Holds(p, triples[p], astray[p], ZeroSharings(p), log[p] \o PairErrors(p),
              pool[p], z[p], shown[p])
    BY <1>9, TakesHold
  <2>2. PairErrors(p) = Inbound(p)
    BY <1>1 DEF PairErrors
  <2>3. Opens1(Inbound(p))
    BY <1>4, <2>1, <2>2 DEF Holds
  <2> HIDE DEF Opens1
  <2> QED BY <1>1, <1>6, <1>9, <2>1, <2>3 DEF Holds
<1>10. at[p] \in {"level", "open"} => LevelD(p) = Inbound(p)[1] /\ LevelD(p) \in Errors
  <2> SUFFICES ASSUME at[p] \in {"level", "open"} PROVE LevelD(p) = Inbound(p)[1] /\ LevelD(p) \in Errors
    OBVIOUS
  <2>1. z[p][1] = 0 /\ z[p][2] = 0 /\ Inbound(p)[1] \in Errors
    BY <1>1, <1>3, <1>4, TagValues DEF Clear
  <2> QED BY <2>1, ZeroFacts, XorFacts DEF LevelD
<1>11. CASE at[p] = "level"
  <2>1. Holds(p, triples[p], astray[p], zeros[p], log[p] \o <<LevelD(p), LevelE(p)>>,
              SubSeq(pool[p], 1, Len(pool[p]) - 1), LevelZ(p), shown[p])
    BY <1>11, TakesHold
  <2>2. Size(Tag(p)) = 2 /\ <<LevelD(p), LevelE(p)>> \in Vectors(2) /\ Len(pool[p]) \in Nat \ {0}
    <3>1. Gets(p, "level")
      BY <1>2, <1>11
    <3> QED BY <1>3, <1>11, <3>1, LevelFacts, TagValues
  <2> PICK f : f = <<LevelD(p), LevelE(p)>>
    OBVIOUS
  <2>3. \A i \in 1..2 : f[i] = Inbound(p)[i]
    BY <1>10, <1>11 DEF LevelE
  <2>4. Opens1(f)
    BY <2>1, <2>2, <2>3 DEF Holds
  <2>5. Zero(pool[p])'
    <3>1. Len(pool[p]) - 1 \in Nat /\ Len(pool[p]) - 1 <= Len(pool[p])
      BY <2>2
    <3>2. Zero(SubSeq(pool[p], 1, Len(pool[p]) - 1))
      BY <1>1, <1>5, <3>1, ZeroFacts
    <3>3. pool'[p] = SubSeq(pool[p], 1, Len(pool[p]) - 1)
      BY <2>1 DEF Holds
    <3> QED BY <3>2, <3>3
  <2> HIDE DEF Opens1
  <2> QED BY <1>1, <1>6, <1>11, <2>1, <2>4, <2>5 DEF Holds
<1>12. CASE at[p] = "open"
  <2>1. Holds(p, triples[p], astray[p], zeros[p], log[p] \o <<LevelD(p)>>, pool[p], z[p], LevelD(p))
    BY <1>12, TakesHold
  <2>2. Size(Tag(p)) = 1
    BY <1>3, <1>12, TagValues
  <2> PICK f : f = <<LevelD(p)>>
    OBVIOUS
  <2>3. f \in Vectors(1) /\ \A i \in 1..1 : f[i] = Inbound(p)[i]
    BY <1>10, <1>12 DEF Vectors
  <2>4. Opens1(f)
    BY <2>1, <2>2, <2>3 DEF Holds
  <2> HIDE DEF Opens1
  <2> QED BY <1>1, <1>6, <1>12, <2>1, <2>4 DEF Holds
<1> QED BY <1>7, <1>8, <1>9, <1>11, <1>12 DEF Resharing, Generating

(* When party 0 reads the changed word, a triple of its is wrong, or a     *)
(* value it has opened.                                                    *)
LEMMA InFlightRead ==
    ASSUME SyncInv, transport = "channel", flips = 1, InFlight, Takes(0), SyncInv', MarksStart'
    PROVE  ContentInv'
<1>0. /\ 0 \in Parties /\ 1 \in Parties /\ 2 \in Parties /\ NextOf(0) = 1 /\ PrevOf(0) = 2
      /\ Parties = {0, 1, 2} /\ ~HearPrev(0)
  BY HearsKeep, TakesKeep DEF Parties, NextOf, PrevOf
<1>1. PICK k \in DOMAIN Msgs(1, 0) :
               /\ Msgs(1, 0)[k].tag[2] \in Resharing /\ OneWrong(Msgs(1, 0)[k].body)
               /\ \A i \in DOMAIN Msgs(1, 0) \ {k} : Zero(Msgs(1, 0)[i].body)
  BY DEF InFlight
<1>2. Fewer /\ transport' = "channel" /\ flips' = 1 /\ ~Ended(0)' /\ ~Listening(0)' /\ HeardZero(0)'
  BY <1>0, StepFewer, StepEnded, StepHeard
<1>3. ASSUME NEW q \in {1, 2} PROVE Rested(q)' /\ HeardZero(q)'
  BY <1>0, OthersStay, StaysFacts DEF InFlight
<1>4. ASSUME NEW a \in Parties, NEW b \in Parties, a # b, <<a, b>> # <<1, 0>> PROVE Clean(a, b)'
  BY <1>2, <1>4, CleanKept DEF InFlight
<1>5. /\ FromNext(0) = Msgs(1, 0)[1] /\ 1 \in DOMAIN Msgs(1, 0) /\ FromNext(0).tag = Tag(0)
      /\ Inbound(0) = FromNext(0).body /\ Tag(0)[2] = at[0] /\ Rested(0)
  BY <1>0, TakesAgree DEF Inbound, FromNext, Tag, InFlight
<1>6. /\ \A i \in DOMAIN Msgs(1, 0) : i # 1 => i - 1 \in DOMAIN Msgs(1, 0)' /\ Msgs(1, 0)'[i - 1] = Msgs(1, 0)[i]
      /\ \A i \in DOMAIN Msgs(1, 0)' : i + 1 \in DOMAIN Msgs(1, 0) /\ Msgs(1, 0)'[i] = Msgs(1, 0)[i + 1]
  BY <1>0, OwnReads
<1>7. \A i \in DOMAIN Msgs(1, 0)' : i \in Nat \ {0}
  <2>1. Msgs(1, 0)' \in Seq(Messages)
    <3>1. OrderInv'
      BY DEF SyncInv
    <3>2. wire'[<<1, 0>>] \in Seq(Messages) /\ queued'[<<1, 0>>] \in Seq(Messages)
      BY <1>0, <3>1, LinkFacts DEF OrderInv
    <3> QED BY <3>2 DEF Msgs
  <2> QED BY <2>1
<1>8. CASE k # 1
  <2>1. Zero(Inbound(0))
    BY <1>1, <1>5, <1>8
  <2>2. Rested(0)'
    BY <1>0, <1>5, <2>1, StepRested
  <2>3. k \in Nat
    <3>1. Msgs(1, 0) \in Seq(Messages)
      BY <1>0, MsgsFacts DEF SyncInv
    <3> QED BY <3>1
  <2>4. \A i \in DOMAIN Msgs(1, 0)' \ {k - 1} : Zero(Msgs(1, 0)'[i].body)
    BY <1>1, <1>6, <1>7, <2>3
  <2>5. k - 1 \in DOMAIN Msgs(1, 0)' /\ Msgs(1, 0)'[k - 1] = Msgs(1, 0)[k]
    BY <1>6, <1>8
  <2>6. InFlight'
    <3>1. \A x \in Parties : Rested(x)' /\ HeardZero(x)'
      BY <1>0, <1>2, <1>3, <2>2
    <3> QED BY <1>1, <1>2, <1>4, <2>4, <2>5, <3>1 DEF InFlight
  <2> QED BY <1>2, <2>6 DEF ContentInv
<1>9. CASE k = 1
  <2>1. at[0] \in Resharing /\ OneWrong(Inbound(0))
    BY <1>1, <1>5, <1>9
  <2>2. Clean(1, 0)'
    <3>1. \A i \in DOMAIN Msgs(1, 0)' : Zero(Msgs(1, 0)'[i].body)
      BY <1>1, <1>6, <1>7, <1>9
    <3> QED BY <3>1 DEF Clean
  <2>3. \A a, b \in Parties : a # b => Clean(a, b)'
    BY <1>4, <2>2
  <2>4. PICK j \in DOMAIN Inbound(0) : \A i \in DOMAIN Inbound(0) : Inbound(0)[i] = IF i = j THEN 1 ELSE 0
    <3>1. PICK j \in DOMAIN Inbound(0) :
                   \A i \in DOMAIN Inbound(0) : Inbound(0)[i] = IF i = j THEN 1 ELSE 0
      BY <2>1 DEF OneWrong
    <3> QED BY <3>1
  <2>5. CASE at[0] = "triples"
    <3>1. Holds(0, Inbound(0), astray[0], zeros[0], log[0], pool[0], z[0], shown[0])
      BY <1>0, <2>5, TakesHold
    <3>2. Calm(0)' /\ triples'[0] = Inbound(0)
      BY <1>5, <3>1 DEF Holds, Calm, Rested
    <3>3. at'[0] = "coin"
      <4>1. Tag(0)' = After(Tag(0))
        BY <1>0, TakesAfter
      <4>2. After(Tag(0))[2] = "coin"
        BY <1>5, <2>5 DEF After
      <4> QED BY <4>1, <4>2 DEF Tag
    <3>4. WrongTriple(j)'
      BY <1>0, <2>3, <2>4, <3>2, <3>3 DEF WrongTriple, Clean
    <3>5. Spoiled'
      BY <1>0, <1>2, <1>3, <2>3, <2>4, <3>2, <3>3, <3>4 DEF Spoiled
    <3> QED BY <1>2, <3>5 DEF ContentInv
  <2>6. CASE at[0] # "triples"
    <3> PICK end : end = EndOf(Tag(0))
      OBVIOUS
    <3> PICK pos : pos = Len(log[0]) + j
      OBVIOUS
    <3>1. /\ end \in Closings /\ Closes(end) /\ In(Tag(0)', end) /\ Logged(Tag(0)) + Size(Tag(0)) <= Logged(end)
          /\ at[0] = "level" => end[2] = "check"
          /\ Logged(Tag(0)) \in Nat /\ Size(Tag(0)) \in Nat /\ Len(log[0]) = Logged(Tag(0))
      BY <1>0, <2>1, <2>6, OpenedIn
    <3>2. /\ log'[0] \in Seq(Errors) /\ Len(log'[0]) = Len(log[0]) + Size(Tag(0))
          /\ \A i \in 1..Len(log[0]) : log'[0][i] = 0
          /\ \A i \in 1..Size(Tag(0)) : log'[0][Len(log[0]) + i] = Inbound(0)[i]
          /\ Zero(pool[0])' /\ Zero(triples[0])' /\ (at[0] # "level" => z'[0] = Clear)
      BY <1>0, <1>5, <2>1, <2>6, WordRead
    <3>3. DOMAIN Inbound(0) = 1..Size(Tag(0))
      <4>1. ~Ended(0) /\ Readable(NextOf(0), 0)
        BY <1>0, TakesKeep
      <4> QED BY <1>0, <4>1, GotNext
    <3>4. pos \in 1..Logged(end) /\ pos <= Len(log'[0]) /\ Logged(end) \in Nat
      <4>1. j \in 1..Size(Tag(0)) /\ Logged(end) \in Nat
        BY <2>4, <3>1, <3>3, SegmentFacts
      <4> QED BY <3>1, <3>2, <4>1
    <3>5. \A i \in DOMAIN log'[0] : i <= pos => log'[0][i] = IF i = pos THEN 1 ELSE 0
      <4> SUFFICES ASSUME NEW i \in DOMAIN log'[0], i <= pos
                   PROVE  log'[0][i] = IF i = pos THEN 1 ELSE 0
        OBVIOUS
      <4>1. i \in 1..(Len(log[0]) + Size(Tag(0)))
        BY <3>2
      <4>2. CASE i <= Len(log[0])
        <5>1. i # pos /\ i \in 1..Len(log[0])
          BY <2>4, <3>1, <3>3, <4>1, <4>2
        <5> QED BY <3>2, <5>1
      <4>3. CASE i > Len(log[0])
        <5> DEFINE h == i - Len(log[0])
        <5>1. h \in 1..Size(Tag(0)) /\ i = Len(log[0]) + h /\ (i = pos <=> h = j)
          BY <2>4, <3>1, <3>3, <4>1, <4>3
        <5> HIDE DEF h
        <5>2. log'[0][i] = Inbound(0)[h]
          BY <3>2, <5>1
        <5> QED BY <2>4, <3>3, <5>1, <5>2
      <4> QED BY <3>1, <4>1, <4>2, <4>3
    <3>6. sub'[0] = "send" /\ at'[0] # "aborted"
      BY <1>0, <1>2, TakesKeep DEF Ended
    <3>7. MarkReady(end, pos)'
      BY <1>3, <2>3, <3>1, <3>2, <3>4, <3>5, <3>6 DEF MarkReady
    <3>8. Marked(end, pos)'
      BY <3>1, <3>4, <3>7 DEF MarksStart
    <3> QED BY <1>2, <3>1, <3>4, <3>8 DEF ContentInv
  <2> QED BY <2>5, <2>6
<1> QED BY <1>8, <1>9

(* What has happened to a changed word after a step.                       *)
LEMMA InFlightStep ==
    ASSUME SyncInv, transport = "channel", flips = 1, InFlight, Next, SyncInv', MarksStart'
    PROVE  ContentInv'
<1>0. 0 \in Parties /\ ~Ended(0)
  BY DEF Parties, InFlight
<1>1. CASE NextEvaluation
  BY <1>0, <1>1, NextEmpties DEF Ended
<1>2. CASE \E l \in Links : Writer(l)
  BY <1>2, WriterFewer
<1>3. ASSUME NEW p \in Parties, Sends(p) \/ HearPrev(p) \/ Takes(p) \/ Returns(p) \/ Fails(p) \/ Quits(p)
      PROVE  ContentInv'
  <2>1. ~Quits(p)
    BY <1>3, StepEnded
  <2>2. CASE p = 0 /\ Takes(p)
    BY <2>2, InFlightRead
  <2>3. CASE p = 0 /\ (Returns(p) \/ Fails(p))
    <3>1. HashChanged' /\ flips' = 1 /\ transport' = "channel"
      BY <2>3, InFlightEnds
    <3> QED BY <3>1 DEF ContentInv
  <2>4. CASE Sends(p) \/ HearPrev(p) \/ p # 0
    <3>1. InFlight' /\ flips' = 1 /\ transport' = "channel"
      BY <1>3, <2>1, <2>4, InFlightStays
    <3> QED BY <3>1 DEF ContentInv
  <2> QED BY <1>3, <2>1, <2>2, <2>3, <2>4
<1> QED BY <1>1, <1>2, <1>3, NextKinds

(* Quotient and remainder are what division yields.                        *)
LEMMA Quotient ==
    ASSUME NEW n \in Nat \ {0}, NEW x \in Nat
    PROVE  /\ x \div n \in Nat /\ x % n \in 0..(n - 1) /\ x = n * (x \div n) + (x % n)
<1>1. x % n \in 0..(n - 1)
  OBVIOUS
<1>2. x = n * (x \div n) + (x % n) /\ x \div n \in Int
  BY Z3
<1>3. x \div n >= 0
  BY Z3
<1> QED BY <1>1, <1>2, <1>3

(* And nothing else is.                                                    *)
LEMMA Division ==
    ASSUME NEW n \in Nat \ {0}, NEW b \in Nat, NEW r \in 0..(n - 1), NEW x, x = n * b + r
    PROVE  x \in Nat /\ x \div n = b /\ x % n = r
<1>1. x \in Nat
  <2>1. n * b \in Nat
    OBVIOUS
  <2> QED BY <2>1
<1>2. x \div n \in Nat /\ x % n \in 0..(n - 1) /\ x = n * (x \div n) + (x % n)
  BY <1>1, Quotient
<1> PICK q : q = x \div n
  OBVIOUS
<1> PICK s : s = x % n
  OBVIOUS
<1>3. q \in Nat /\ s \in 0..(n - 1) /\ n * b + r = n * q + s
  BY <1>2
<1>4. q = b
  BY <1>3, Z3
<1>5. s = r
  BY <1>3, <1>4
<1> QED BY <1>1, <1>4, <1>5

(* Bucket b + 1 has pairs m * b + 1 .. m * b + m, its partners in order.   *)
LEMMA PairOf ==
    ASSUME NEW m \in Nat \ {0}, m = Bucket - 1, NEW b \in Nat, NEW r \in 0..(m - 1),
           NEW k, k = m * b + r + 1
    PROVE  HeadOf(BucketOf(k)) = Cut + b * Bucket + 1 /\ PartnerOf(k) = Cut + b * Bucket + 1 + r + 1
<1>1. Cut \in Nat /\ Bucket \in Nat /\ Bucket >= 2
  BY SizesAssumption
<1> PICK y : y = m * b + r
  OBVIOUS
<1>3. y \in Nat /\ y \div m = b /\ y % m = r
  BY Division
<1>4. k - 1 = y /\ k = y + 1
  BY <1>3
<1>5. BucketOf(k) = b + 1
  BY <1>1, <1>3, <1>4 DEF BucketOf
<1>6. (b + 1) - 1 = b
  OBVIOUS
<1>7. HeadOf(BucketOf(k)) = Cut + b * Bucket + 1
  BY <1>5, <1>6 DEF HeadOf
<1>8. PartnerOf(k) = Cut + b * Bucket + 1 + r + 1
  BY <1>1, <1>3, <1>4, <1>7 DEF PartnerOf
<1> QED BY <1>7, <1>8

(* Every triple that is not opened is one of a pair.                       *)
LEMMA Covered ==
    ASSUME NEW c \in Nat, NEW j \in Nat, j > Cut, j <= c * Bucket + Cut
    PROVE  \E k \in 1..(c * (Bucket - 1)) : HeadOf(BucketOf(k)) = j \/ PartnerOf(k) = j
<1>1. Cut \in Nat /\ Bucket \in Nat /\ Bucket >= 2
  BY SizesAssumption
<1> DEFINE x == j - Cut - 1
           m == Bucket - 1
<1>2. x \in Nat /\ m \in Nat \ {0} /\ x < c * Bucket /\ j = Cut + x + 1
  BY <1>1, Z3
<1> PICK b : b = x \div Bucket
  OBVIOUS
<1> PICK r : r = x % Bucket
  OBVIOUS
<1>3. b \in Nat /\ r \in 0..(Bucket - 1) /\ x = Bucket * b + r
  <2>1. Bucket \in Nat \ {0}
    BY <1>1
  <2> QED BY <1>2, <2>1, Quotient
<1> HIDE DEF x
<1>4. b + 1 <= c
  BY <1>1, <1>2, <1>3, Z3
<1> PICK s : s = IF r = 0 THEN 0 ELSE r - 1
  OBVIOUS
<1>5. s \in 0..(m - 1) /\ m = Bucket - 1
  BY <1>1, <1>3
<1>8. Bucket - 1 = m
  OBVIOUS
<1> HIDE DEF m
<1> PICK k : k = m * b + s + 1
  OBVIOUS
<1>6. k \in 1..(c * m)
  BY <1>1, <1>2, <1>3, <1>4, <1>5, Z3
<1>7. HeadOf(BucketOf(k)) = Cut + b * Bucket + 1 /\ PartnerOf(k) = Cut + b * Bucket + 1 + s + 1
  BY <1>2, <1>3, <1>5, PairOf
<1>9. r = 0 => HeadOf(BucketOf(k)) = j
  BY <1>1, <1>2, <1>3, <1>7, Z3
<1>10. r # 0 => PartnerOf(k) = j
  BY <1>1, <1>2, <1>3, <1>7, Z3
<1> QED BY <1>6, <1>8, <1>9, <1>10

(* The cut opens a wrong triple among the first, whether it is the party's *)
(* own or its next neighbour's.                                            *)
LEMMA CutFinds ==
    ASSUME SyncInv, NEW p \in Parties, Gets(p, "cut"), ~astray[p], NEW j \in 1..Cut,
           \/ Zero(Inbound(p)) /\ CutShares(p) = CutOpens(j)
           \/ Inbound(p) = CutOpens(j) /\ Zero(CutShares(p))
    PROVE  Opens(p, j) = <<0, 0, 1>>
<1>1. at[p] = "cut" /\ Readable(NextOf(p), p) /\ ~Ended(p) /\ Tag(p)[2] = "cut"
  BY Gotten DEF Resharing, Generating
<1>2. DOMAIN CutShares(p) = 1..(3 * Cut) /\ Cut \in Nat
  BY <1>1, CutIndex
<1>3. DOMAIN Inbound(p) = 1..(3 * Cut)
  BY <1>1, GotNext, TagValues
<1>4. /\ 3 * j - 2 \in 1..(3 * Cut) /\ 3 * j - 1 \in 1..(3 * Cut) /\ 3 * j \in 1..(3 * Cut)
      /\ 3 * j - 2 # 3 * j /\ 3 * j - 1 # 3 * j
  BY <1>2
<1>5. \A i \in 1..(3 * Cut) : CutOpens(j)[i] = IF i = 3 * j THEN 1 ELSE 0
  BY DEF CutOpens
<1>6. Xor(0, 1) = 1 /\ Xor(1, 0) = 1 /\ Xor(0, 0) = 0
  BY DEF Xor, Either
<1>7. \A i \in 1..(3 * Cut) :
          \/ Inbound(p)[i] = 0 /\ CutShares(p)[i] = CutOpens(j)[i]
          \/ Inbound(p)[i] = CutOpens(j)[i] /\ CutShares(p)[i] = 0
  BY <1>2, <1>3 DEF Zero
<1>8. \A i \in 1..(3 * Cut) : CutValues(p)[i] = Xor(Inbound(p)[i], CutShares(p)[i])
  BY DEF CutValues
<1>9. \A i \in 1..(3 * Cut) : CutValues(p)[i] = IF i = 3 * j THEN 1 ELSE 0
  BY <1>5, <1>6, <1>7, <1>8
<1> QED BY <1>4, <1>9 DEF Opens

(* What a party with one wrong triple opens in the cut.                    *)
LEMMA CutShows ==
    ASSUME SyncInv, NEW p \in Parties, at[p] = "cut", NEW j \in DOMAIN triples[p],
           \A i \in DOMAIN triples[p] : triples[p][i] = IF i = j THEN 1 ELSE 0
    PROVE  (j <= Cut => j \in 1..Cut /\ CutShares(p) = CutOpens(j)) /\ (j > Cut => Zero(CutShares(p)))
<1>1. /\ Cut \in Nat /\ Generated(p) \in Nat /\ DOMAIN triples[p] = 1..Generated(p)
      /\ \A i \in 1..(3 * Cut) : i % 3 = 0 => i \div 3 \in DOMAIN triples[p] /\ i \div 3 \in 1..Cut
      /\ DOMAIN CutShares(p) = 1..(3 * Cut)
  BY CutIndex
<1>2. \A i \in 1..(3 * Cut) : CutShares(p)[i] = IF i % 3 = 0 /\ i \div 3 = j THEN 1 ELSE 0
  BY <1>1 DEF CutShares
<1>3. j \in Nat
  BY <1>1
<1>4. \A i \in 1..(3 * Cut) : (i % 3 = 0 /\ i \div 3 = j) <=> i = 3 * j
  BY <1>1, <1>3
<1>5. CutShares(p) = [i \in 1..(3 * Cut) |-> IF i = 3 * j THEN 1 ELSE 0]
  BY <1>2, <1>4 DEF CutShares
<1>6. j > Cut => \A i \in 1..(3 * Cut) : i # 3 * j
  BY <1>1, <1>3
<1> QED BY <1>1, <1>2, <1>4, <1>5, <1>6 DEF CutOpens, Zero

(* A party's triples are numbered from 1.                                  *)
LEMMA TripleIndex ==
    ASSUME SyncInv, NEW p \in Parties, NEW j \in DOMAIN triples[p]
    PROVE  j \in Nat \ {0} /\ Cut \in Nat
<1>1. triples[p] \in {NoVector} \cup Vectors(Generated(p)) /\ Cut \in Nat
  BY SizesAssumption DEF SyncInv, TypeOK
<1>2. CASE triples[p] = NoVector
  BY <1>2 DEF NoVector
<1>3. CASE triples[p] \in Vectors(Generated(p))
  <2>1. count[p] \in Nat /\ Bucket \in Nat
    BY BatchFacts, SizesAssumption DEF SyncInv, TypeOK, Batch
  <2>2. Generated(p) \in Nat
    BY <1>1, <2>1 DEF Generated
  <2>3. j \in 1..Generated(p)
    BY <1>3 DEF Vectors
  <2> QED BY <1>1, <2>2, <2>3
<1> QED BY <1>1, <1>2, <1>3

(* Parties 1 and 2 do not get past the cut with a wrong triple of party 0. *)
LEMMA SpoiledReads ==
    ASSUME SyncInv, Spoiled, NEW p \in {1, 2}, Takes(p) \/ Returns(p), at[p] \in Resharing
    PROVE  Zero(Inbound(p))
<1>0. /\ 0 \in Parties /\ 1 \in Parties /\ 2 \in Parties /\ p \in Parties
      /\ NextOf(1) = 2 /\ NextOf(2) = 0
  BY DEF Parties, NextOf
<1>1. Rested(p) /\ Clean(2, 1)
  BY <1>0 DEF Spoiled
<1>2. Gets(p, at[p]) /\ Readable(NextOf(p), p) /\ ~Ended(p)
  BY <1>0, TakesHold, Gotten
<1>3. CASE p = 1
  BY <1>0, <1>1, <1>2, <1>3, InboundZero
<1>4. CASE p = 2
  <2>1. FromNext(2) = Msgs(0, 2)[1] /\ 1 \in DOMAIN Msgs(0, 2) /\ FromNext(2).tag = Tag(2) /\ Tag(2)[2] = at[2]
    BY <1>0, <1>4, TakesAgree DEF Tag
  <2>2. Inbound(2) = Msgs(0, 2)[1].body
    BY <1>0, <2>1 DEF Inbound, FromNext
  <2>3. PICK j \in DOMAIN triples[0] : WrongTriple(j)
    BY DEF Spoiled
  <2>4. CASE Zero(Inbound(2))
    BY <1>4, <2>4
  <2>5. CASE at[2] = "cut" /\ j <= Cut /\ Inbound(2) = CutOpens(j)
    <3>1. Zero(CutShares(2)) /\ Cut \in Nat
      BY <1>0, <1>1, <1>4, <2>5, CutIndex DEF Rested
    <3>2. DOMAIN Inbound(2) = 1..(3 * Cut)
      BY <2>5 DEF CutOpens
    <3>3. j \in 1..Cut
      BY <1>0, <2>3, <2>5, TripleIndex
    <3>4. Opens(2, j) = <<0, 0, 1>>
      BY <1>0, <1>1, <1>2, <1>4, <2>5, <3>1, <3>3, CutFinds DEF Rested, Calm
    <3> QED BY <1>0, <1>4, <2>5, <3>3, <3>4, TakesHold
  <2> QED BY <1>4, <2>1, <2>2, <2>3, <2>4, <2>5 DEF WrongTriple
<1> QED BY <1>3, <1>4

(* What stays wrong when parties 1 and 2 take a step.                      *)
LEMMA SpoiledOthers ==
    ASSUME SyncInv, transport = "channel", flips = 1, Spoiled, NEW p \in {1, 2},
           Sends(p) \/ HearPrev(p) \/ Takes(p) \/ Returns(p) \/ Fails(p) \/ Quits(p)
    PROVE  Spoiled' /\ flips' = 1 /\ transport' = "channel"
<1>0. 0 \in Parties /\ 2 \in Parties /\ p \in Parties /\ p # 0
  BY DEF Parties
<1>1. Stays(0)
  BY <1>0, OthersStay
<1>2. /\ Calm(0)' /\ HeardZero(0)' /\ at'[0] = at[0] /\ triples'[0] = triples[0] /\ zeros'[0] = zeros[0]
  BY <1>1, StaysFacts DEF Spoiled, Stays
<1>3. ASSUME NEW q \in {1, 2} PROVE Rested(q)'
  <2>0. q \in Parties /\ Rested(q)
    BY DEF Parties, Spoiled
  <2>1. CASE q # p
    BY <1>0, <2>0, <2>1, OthersStay, StaysFacts
  <2>2. CASE q = p
    BY <1>0, <2>0, <2>2, SpoiledReads, StepRested
  <2> QED BY <2>1, <2>2
<1>4. PICK j \in DOMAIN triples[0] : WrongTriple(j)
  BY DEF Spoiled
<1>5. CASE Sends(p)
  <2>1. PICK q \in Parties, m \in MessagesIn(Tag(p)) :
               q # p /\ Puts(p, q, m) /\ AsDue(p, m) /\ flips' = 1 /\ transport' = "channel"
    BY <1>0, <1>5, SendsAsDue
  <2>2. ASSUME NEW a \in {1, 2}, NEW b \in Parties \ {a} PROVE Clean(a, b)'
    <3>1. a \in Parties /\ Clean(a, b) /\ Rested(p)
      BY DEF Parties, Spoiled
    <3> QED BY <1>0, <1>5, <2>1, <3>1, DueClean
  <2>3. Msgs(0, 2)' = Msgs(0, 2)
    BY <1>0, <2>1 DEF Puts, Others
  <2>4. WrongTriple(j)'
    BY <1>2, <1>4, <2>3 DEF WrongTriple
  <2> QED BY <1>2, <1>3, <1>4, <2>1, <2>2, <2>4 DEF Spoiled
<1>6. CASE ~Sends(p)
  <2>1. Fewer /\ transport' = "channel" /\ flips' = 1
    BY <1>0, <1>6, StepFewer
  <2>2. ASSUME NEW a \in {1, 2}, NEW b \in Parties \ {a} PROVE Clean(a, b)'
    <3>1. a \in Parties /\ Clean(a, b)
      BY DEF Parties, Spoiled
    <3> QED BY <2>1, <3>1, CleanKept
  <2>3. \A i \in DOMAIN Msgs(0, 2)' : \E h \in DOMAIN Msgs(0, 2) : Msgs(0, 2)'[i] = Msgs(0, 2)[h]
    BY <1>0, <2>1 DEF Fewer
  <2>4. WrongTriple(j)'
    <3>1. ASSUME NEW i \in DOMAIN Msgs(0, 2)', Msgs(0, 2)'[i].tag[2] \in Resharing
          PROVE  \/ Zero(Msgs(0, 2)'[i].body)
                 \/ Msgs(0, 2)'[i].tag[2] = "cut" /\ j <= Cut /\ Msgs(0, 2)'[i].body = CutOpens(j)
      <4>1. PICK h \in DOMAIN Msgs(0, 2) : Msgs(0, 2)'[i] = Msgs(0, 2)[h]
        BY <2>3
      <4> QED BY <1>4, <3>1, <4>1 DEF WrongTriple
    <3> QED BY <1>2, <1>4, <3>1 DEF WrongTriple
  <2> QED BY <1>2, <1>3, <1>4, <2>1, <2>2, <2>4 DEF Spoiled
<1> QED BY <1>5, <1>6

(* What is spoiled, where nothing but party 0 and its messages to party 2  *)
(* can have changed.                                                       *)
LEMMA SpoiledFrom ==
    ASSUME SyncInv, Spoiled, NEW j \in DOMAIN triples[0], WrongTriple(j),
           Sends(0) \/ HearPrev(0) \/ Takes(0) \/ Returns(0) \/ Fails(0) \/ Quits(0),
           triples'[0] = triples[0], Calm(0)', HeardZero(0)',
           at'[0] \in {"coin", "cut", "pairs", "zero", "aborted"},
           at'[0] \in {"pairs", "zero"} => j > Cut,
           at'[0] = "zero" => \E k \in DOMAIN zeros'[0] : zeros'[0][k][2] = 1,
           ~Sends(0) => Fewer,
           Sends(0) => \E q \in Parties, m \in MessagesIn(Tag(0)) :
                          /\ q # 0 /\ Puts(0, q, m)
                          /\ \/ q # 2 \/ m.tag[2] \notin Resharing
                             \/ Zero(m.body)
                             \/ m.tag[2] = "cut" /\ j <= Cut /\ m.body = CutOpens(j)
    PROVE  Spoiled'
<1>0. 0 \in Parties /\ 2 \in Parties
  BY DEF Parties
<1>1. ASSUME NEW q \in {1, 2} PROVE Rested(q)' /\ \A b \in Parties \ {q} : Clean(q, b)'
  <2>1. q \in Parties /\ q # 0 /\ Rested(q) /\ \A b \in Parties \ {q} : Clean(q, b)
    BY DEF Parties, Spoiled
  <2>2. Rested(q)'
    BY <1>0, <2>1, OthersStay, StaysFacts
  <2>3. ASSUME NEW b \in Parties \ {q} PROVE Clean(q, b)'
    <3>1. CASE Sends(0)
      <4>1. Msgs(q, b)' = Msgs(q, b)
        BY <2>1, <3>1 DEF Puts, Others
      <4> QED BY <2>1, <4>1 DEF Clean
    <3>2. CASE ~Sends(0)
      BY <2>1, <3>2, CleanKept
    <3> QED BY <3>1, <3>2
  <2> QED BY <2>2, <2>3
<1>2. ASSUME NEW i \in DOMAIN Msgs(0, 2)', Msgs(0, 2)'[i].tag[2] \in Resharing
      PROVE  \/ Zero(Msgs(0, 2)'[i].body)
             \/ Msgs(0, 2)'[i].tag[2] = "cut" /\ j <= Cut /\ Msgs(0, 2)'[i].body = CutOpens(j)
  <2>1. CASE \E h \in DOMAIN Msgs(0, 2) : Msgs(0, 2)'[i] = Msgs(0, 2)[h]
    BY <1>2, <2>1 DEF WrongTriple
  <2>2. CASE ~Sends(0)
    BY <1>0, <2>1, <2>2 DEF Fewer
  <2>3. CASE Sends(0)
    <3>1. PICK q \in Parties, m \in MessagesIn(Tag(0)) :
                                  /\ q # 0 /\ Puts(0, q, m)
                                  /\ \/ q # 2 \/ m.tag[2] \notin Resharing
                                     \/ Zero(m.body)
                                     \/ m.tag[2] = "cut" /\ j <= Cut /\ m.body = CutOpens(j)
      BY <2>3
    <3>2. CASE q # 2
      <4>1. Msgs(0, 2)' = Msgs(0, 2)
        BY <1>0, <3>1, <3>2 DEF Puts, Others
      <4> QED BY <2>1, <4>1
    <3>3. CASE q = 2
      <4>1. \/ Msgs(0, 2)'[i] = m
            \/ i \in DOMAIN Msgs(0, 2) /\ Msgs(0, 2)'[i] = Msgs(0, 2)[i]
        <5>1. Puts(0, 2, m)
          BY <3>1, <3>3
        <5>2. PICK n : /\ Msgs(0, 2)'[n] = m
                       /\ \A h \in DOMAIN Msgs(0, 2)' :
                             \/ h = n
                             \/ h \in DOMAIN Msgs(0, 2) /\ Msgs(0, 2)'[h] = Msgs(0, 2)[h]
          BY <1>0, <5>1, PutFacts
        <5> QED BY <1>2, <5>2
      <4> QED BY <1>2, <2>1, <3>1, <3>3, <4>1
    <3> QED BY <3>2, <3>3
  <2> QED BY <2>2, <2>3
<1>3. WrongTriple(j)'
  <2>1. j <= Cut => at'[0] \notin {"pairs", "zero"}
    BY <1>0, TripleIndex
  <2> QED BY <1>2, <2>1 DEF WrongTriple
<1> QED BY <1>1, <1>3 DEF Spoiled

(* Party 0 sends what its wrong triple makes of it.                        *)
LEMMA SpoiledSends ==
    ASSUME SyncInv, transport = "channel", flips = 1, Spoiled, Sends(0)
    PROVE  Spoiled' /\ flips' = 1 /\ transport' = "channel"
<1>0. 0 \in Parties /\ 2 \in Parties
  BY DEF Parties
<1>1. PICK q \in Parties, m \in MessagesIn(Tag(0)) :
          /\ q # 0 /\ Puts(0, q, m) /\ AsDue(0, m) /\ flips' = 1 /\ transport' = "channel"
          /\ m.tag = Tag(0)
  BY <1>0, SendsAsDue
<1>2. PICK j \in DOMAIN triples[0] : WrongTriple(j)
  BY DEF Spoiled
<1>3. /\ at' = at /\ UNCHANGED local /\ ~Ended(0) /\ sub'[0] # "send"
      /\ at[0] \in Exchanges => sub'[0] # "fromNext"
  BY <1>0, SendsKeep
<1>4. Calm(0) /\ Calm(0)' /\ triples' = triples /\ zeros' = zeros
  BY <1>3 DEF Spoiled, Calm, local
<1>5. ~HearPrev(0)
  BY <1>0, <1>3, HearsKeep
<1>6. HeardZero(0)'
  BY <1>0, <1>5, StepHeard
<1>7. at[0] \in {"coin", "cut", "pairs", "zero"}
  BY <1>3 DEF Spoiled, Ended
<1>8. at[0] \in {"pairs", "zero"} => j > Cut
  BY <1>0, <1>2, TripleIndex DEF WrongTriple
<1>9. \/ m.tag[2] \notin Resharing \/ Zero(m.body)
      \/ m.tag[2] = "cut" /\ j <= Cut /\ m.body = CutOpens(j)
  <2>1. m.tag[2] = at[0] /\ m.body = Part(0) /\ ~astray[0]
    BY <1>1, <1>4 DEF AsDue, Tag, Calm
  <2>2. CASE at[0] = "coin"
    <3>1. m.body = <<0>>
      BY <2>1, <2>2 DEF Part, Seconds, Resharing, Generating
    <3> QED BY <3>1 DEF Zero
  <2>3. CASE at[0] = "cut"
    <3>1. m.body = CutShares(0)
      BY <2>1, <2>3 DEF Part, Seconds, Resharing, Generating
    <3> QED BY <1>0, <1>2, <2>1, <2>3, <3>1, CutShows, TripleIndex DEF WrongTriple
  <2>4. CASE at[0] = "pairs"
    <3>1. m.body = All(2 * Cardinality(Pairs(0)), 0)
      BY <2>1, <2>4 DEF Part, Seconds, Resharing, Generating
    <3> QED BY <3>1 DEF Zero, All
  <2>5. CASE at[0] = "zero"
    BY <2>1, <2>5 DEF Resharing, Generating
  <2> QED BY <1>7, <2>2, <2>3, <2>4, <2>5
<1>10. at'[0] = "zero" => \E k \in DOMAIN zeros'[0] : zeros'[0][k][2] = 1
  BY <1>3, <1>4 DEF Spoiled
<1>11. Spoiled'
  BY <1>1, <1>2, <1>3, <1>4, <1>6, <1>7, <1>8, <1>9, <1>10, SpoiledFrom
<1> QED BY <1>1, <1>11

(* Hearing and aborting change nothing of it.                              *)
LEMMA SpoiledStays ==
    ASSUME SyncInv, transport = "channel", flips = 1, Spoiled, HearPrev(0) \/ Fails(0)
    PROVE  Spoiled' /\ flips' = 1 /\ transport' = "channel"
<1>0. 0 \in Parties /\ 2 \in Parties /\ PrevOf(0) = 2
  BY DEF Parties, PrevOf
<1>1. ~Sends(0) /\ Fewer /\ transport' = "channel" /\ flips' = 1
  <2>1. ~Sends(0)
    <3>1. CASE HearPrev(0)
      BY <1>0, <3>1, SendsKeep, HearsKeep
    <3>2. CASE Fails(0)
      <4>1. Ends(0, "aborted")
        BY <1>0, <3>2, LeavesKeep
      <4>2. sub'[0] = "send"
        BY <1>0, <4>1, EndsDrop
      <4> QED BY <1>0, <4>2, SendsKeep
    <3> QED BY <3>1, <3>2
  <2> QED BY <1>0, <2>1, StepFewer
<1>2. Unmoved(0) /\ at'[0] \in {at[0], "aborted"}
  <2>1. CASE HearPrev(0)
    BY <1>0, <2>1, HearsKeep
  <2>2. CASE Fails(0)
    <3>1. Ends(0, "aborted") /\ Unmoved(0)
      BY <1>0, <2>2, LeavesKeep
    <3> QED BY <1>0, <3>1, EndsDrop
  <2> QED BY <2>1, <2>2
<1>3. Calm(0)' /\ triples'[0] = triples[0] /\ zeros'[0] = zeros[0]
  BY <1>2, UnmovedFacts DEF Spoiled, Unmoved, Holds
<1>4. HeardZero(0)'
  <2>1. Clean(2, 0)
    BY <1>0 DEF Spoiled
  <2> QED BY <1>0, <2>1, StepHeard
<1>5. PICK j \in DOMAIN triples[0] : WrongTriple(j)
  BY DEF Spoiled
<1>6. at[0] \in {"pairs", "zero"} => j > Cut
  BY <1>0, <1>5, TripleIndex DEF WrongTriple
<1>7. /\ at'[0] \in {"coin", "cut", "pairs", "zero", "aborted"}
      /\ at'[0] \in {"pairs", "zero"} => j > Cut
      /\ at'[0] = "zero" => \E k \in DOMAIN zeros'[0] : zeros'[0][k][2] = 1
  BY <1>2, <1>3, <1>6 DEF Spoiled
<1>8. Spoiled'
  BY <1>1, <1>3, <1>4, <1>5, <1>7, SpoiledFrom
<1> QED BY <1>1, <1>8

(* A sacrifice with one wrong triple, which is in some pair, is not zero.  *)
LEMMA PairFinds ==
    ASSUME SyncInv, NEW p \in Parties, Gets(p, "pairs"), Zero(Inbound(p)), ~astray[p],
           NEW j \in DOMAIN triples[p], j > Cut,
           \A i \in DOMAIN triples[p] : triples[p][i] = IF i = j THEN 1 ELSE 0
    PROVE  \E k \in DOMAIN ZeroSharings(p) : ZeroSharings(p)[k][2] = 1
<1>1. at[p] = "pairs" /\ ~Ended(p) /\ Readable(NextOf(p), p) /\ Tag(p)[2] = "pairs" /\ Tag(p)[1] = done[p]
  BY Gotten DEF Resharing, Generating
<1>2. /\ Generated(p) = CountIn(done[p]) * Bucket + Cut /\ count[p] = CountIn(done[p])
      /\ CountIn(done[p]) \in Nat \ {0} /\ Generated(p) \in Nat
      /\ triples[p] \in Vectors(Generated(p))
  BY <1>1, RefillFacts DEF SyncInv, PlaceInv, Drawn, RefillRounds, Generating
<1> PICK c : c = count[p]
  OBVIOUS
<1>3. c \in Nat \ {0} /\ j \in Nat /\ j <= c * Bucket + Cut
  <2>1. j \in 1..Generated(p)
    BY <1>2 DEF Vectors
  <2> QED BY <1>2, <2>1
<1>4. PICK k \in 1..(c * (Bucket - 1)) : HeadOf(BucketOf(k)) = j \/ PartnerOf(k) = j
  BY <1>3, Covered
<1>5. PartnerOf(k) # HeadOf(BucketOf(k))
  BY <1>3, PairFacts
<1>6. k \in Pairs(p)
  BY <1>4 DEF Pairs
<1>7. /\ HeadOf(BucketOf(k)) \in 1..Generated(p) /\ PartnerOf(k) \in 1..Generated(p)
      /\ 2 * k \in 1..(2 * PairsIn(done[p])) /\ 2 * k - 1 \in 1..(2 * PairsIn(done[p]))
  BY <1>6, SacrificeFacts
<1>8. DOMAIN Inbound(p) = 1..(2 * PairsIn(done[p]))
  BY <1>1, GotNext, TagValues
<1>9. Known(p, k)
  BY <1>7, <1>8 DEF Known, PairErrors, Zero
<1>10. \/ triples[p][HeadOf(BucketOf(k))] = 1 /\ triples[p][PartnerOf(k)] = 0
       \/ triples[p][HeadOf(BucketOf(k))] = 0 /\ triples[p][PartnerOf(k)] = 1
  <2>1. DOMAIN triples[p] = 1..Generated(p)
    BY <1>2 DEF Vectors
  <2> QED BY <1>4, <1>5, <1>7, <2>1
<1>11. Xor(0, 1) = 1 /\ Xor(1, 0) = 1
  BY DEF Xor, Either
<1>12. Kept(p, k)[2] = 1
  BY <1>10, <1>11 DEF Kept
<1>13. ZeroSharings(p)[k] = Kept(p, k) /\ DOMAIN ZeroSharings(p) = Pairs(p)
  BY <1>6, <1>9 DEF ZeroSharings
<1> QED BY <1>6, <1>12, <1>13

(* A wrong triple is found in the cut, or in the sacrifice, or is still    *)
(* there.                                                                  *)
LEMMA SpoiledTakes ==
    ASSUME SyncInv, transport = "channel", flips = 1, Spoiled, Takes(0)
    PROVE  Spoiled' /\ flips' = 1 /\ transport' = "channel"
<1>0. 0 \in Parties /\ 1 \in Parties /\ 2 \in Parties /\ NextOf(0) = 1 /\ PrevOf(0) = 2
  BY DEF Parties, NextOf, PrevOf
<1>1. Gets(0, at[0]) /\ Readable(1, 0) /\ ~Ended(0) /\ Tag(0)[2] = at[0]
  <2>1. at[0] \in Resharing \cup Exchanges /\ Gets(0, at[0])
    BY <1>0, TakesHold
  <2> QED BY <1>0, <2>1, Gotten
<1>2. /\ ~Sends(0) /\ ~HearPrev(0) /\ Fewer /\ transport' = "channel" /\ flips' = 1 /\ HeardZero(0)'
  <2>1. ~Sends(0) /\ ~HearPrev(0)
    BY <1>0, SendsKeep, TakesKeep, HearsKeep
  <2> QED BY <1>0, <2>1, StepFewer, StepHeard
<1>3. Zero(Inbound(0))
  <2>1. Clean(1, 0)
    BY <1>0 DEF Spoiled
  <2> QED BY <1>0, <1>1, <2>1, InboundZero
<1>4. /\ Inbound(0) \in Seq(Errors) /\ DOMAIN Inbound(0) = 1..Size(Tag(0))
  BY <1>0, <1>1, GotNext
<1>5. /\ Calm(0) /\ Zero(pool[0]) /\ Zero(log[0]) /\ ~astray[0] /\ z[0] = Clear /\ shown[0] = 0
      /\ log[0] \in Seq(Errors)
  BY <1>0 DEF Spoiled, Calm, SyncInv, TypeOK
<1>6. PICK j \in DOMAIN triples[0] : WrongTriple(j)
  BY DEF Spoiled
<1>7. at'[0] = After(Tag(0))[2]
  <2>1. Tag(0)' = After(Tag(0))
    BY <1>0, TakesAfter
  <2>2. Tag(0)'[2] = at'[0]
    BY DEF Tag
  <2> QED BY <2>1, <2>2
<1>8. at[0] \in {"coin", "cut", "pairs", "zero"}
  BY <1>1 DEF Spoiled, Ended
<1>9. ASSUME NEW lost, NEW sharings, NEW opened,
             Holds(0, triples[0], lost, sharings, opened, pool[0], z[0], shown[0]), ~lost, Zero(opened)
      PROVE  Calm(0)' /\ triples'[0] = triples[0] /\ zeros'[0] = sharings
  BY <1>5, <1>9 DEF Holds, Calm
<1>10. CASE at[0] = "coin"
  <2>1. Inbound(0)[1] = 0
    BY <1>1, <1>3, <1>4, <1>10, TagValues DEF Zero
  <2>2. Zero(log[0] \o Inbound(0))
    BY <1>3, <1>4, <1>5, ZeroFacts
  <2>3. Calm(0)' /\ triples'[0] = triples[0]
    <3>1. Holds(0, triples[0], astray[0] \/ Inbound(0)[1] = 1, zeros[0],
                log[0] \o Inbound(0), pool[0], z[0], shown[0])
      BY <1>0, <1>10, TakesHold
    <3>2. ~(astray[0] \/ Inbound(0)[1] = 1)
      BY <1>5, <2>1
    <3> QED BY <1>9, <2>2, <3>1, <3>2
  <2>4. at'[0] = "cut"
    BY <1>1, <1>7, <1>10 DEF After
  <2>5. Spoiled'
    BY <1>2, <1>6, <2>3, <2>4, SpoiledFrom
  <2> QED BY <1>2, <2>5
<1>11. CASE at[0] = "cut"
  <2>1. j > Cut
    <3> SUFFICES ASSUME j <= Cut PROVE FALSE
      BY <1>0, <1>6, TripleIndex
    <3>1. j \in 1..Cut /\ CutShares(0) = CutOpens(j)
      BY <1>0, <1>6, <1>11, CutShows DEF WrongTriple
    <3>2. Opens(0, j) = <<0, 0, 1>>
      BY <1>0, <1>1, <1>3, <1>5, <1>11, <3>1, CutFinds
    <3> QED BY <1>0, <1>11, <3>1, <3>2, TakesHold
  <2>2. Zero(CutShares(0))
    BY <1>0, <1>6, <1>11, <2>1, CutShows DEF WrongTriple
  <2>3. Zero(CutValues(0)) /\ CutValues(0) \in Seq(Errors)
    <3>1. DOMAIN CutShares(0) = 1..(3 * Cut)
      BY <1>0, <1>11, CutIndex
    <3>2. DOMAIN Inbound(0) = 1..(3 * Cut)
      BY <1>1, <1>4, <1>11, TagValues
    <3>3. \A i \in 1..(3 * Cut) : CutValues(0)[i] = 0
      BY <1>3, <1>5, <2>2, <3>1, <3>2, ZeroFacts DEF CutValues, Zero
    <3>4. CutValues(0) \in Vectors(3 * Cut) /\ 3 * Cut \in Nat
      BY <1>0, <1>1, <1>11, CutFacts, SizeFacts
    <3> QED BY <3>3, <3>4, VectorFacts DEF Zero
  <2>4. Zero(log[0] \o CutValues(0))
    BY <1>5, <2>3, ZeroFacts
  <2>5. Calm(0)' /\ triples'[0] = triples[0]
    <3>1. Holds(0, triples[0], astray[0], zeros[0], log[0] \o CutValues(0), pool[0], z[0], shown[0])
      BY <1>0, <1>11, TakesHold
    <3> QED BY <1>5, <1>9, <2>4, <3>1
  <2>6. at'[0] = "pairs"
    BY <1>1, <1>7, <1>11 DEF After
  <2>7. Spoiled'
    BY <1>2, <1>6, <2>1, <2>5, <2>6, SpoiledFrom
  <2> QED BY <1>2, <2>7
<1>12. CASE at[0] = "pairs"
  <2>1. j > Cut
    BY <1>0, <1>6, <1>12, TripleIndex DEF WrongTriple
  <2>2. \E k \in DOMAIN ZeroSharings(0) : ZeroSharings(0)[k][2] = 1
    BY <1>0, <1>1, <1>3, <1>5, <1>6, <1>12, <2>1, PairFinds DEF WrongTriple
  <2>3. PairErrors(0) = Inbound(0)
    BY <1>5 DEF PairErrors
  <2>4. Zero(log[0] \o PairErrors(0))
    BY <1>3, <1>4, <1>5, <2>3, ZeroFacts
  <2>5. Calm(0)' /\ triples'[0] = triples[0] /\ zeros'[0] = ZeroSharings(0)
    <3>1. Holds(0, triples[0], astray[0], ZeroSharings(0), log[0] \o PairErrors(0),
                pool[0], z[0], shown[0])
      BY <1>0, <1>12, TakesHold
    <3> QED BY <1>5, <1>9, <2>4, <3>1
  <2>6. at'[0] = "zero"
    BY <1>1, <1>7, <1>12 DEF After
  <2>7. Spoiled'
    BY <1>2, <1>6, <2>1, <2>2, <2>5, <2>6, SpoiledFrom
  <2> QED BY <1>2, <2>7
<1>13. CASE at[0] = "zero"
  <2>1. PICK k \in DOMAIN zeros[0] : zeros[0][k][2] = 1
    BY <1>13 DEF Spoiled
  <2>2. SameFor(heard[0], Column(0, 2))
    BY <1>0, <1>13, TakesHold
  <2>3. DOMAIN heard[0].body = DOMAIN zeros[0] /\ Pairs(0) = DOMAIN zeros[0] /\ Listening(0)
    <3>1. Gets(0, "zero") /\ "zero" \in Exchanges
      BY <1>1, <1>13 DEF Exchanges
    <3> QED BY <1>0, <3>1, Compared
  <2>4. heard[0].body[k] = 0
    BY <2>1, <2>3 DEF Spoiled, HeardZero, Zero
  <2>5. Column(0, 2)[k] = 1 /\ k \in DOMAIN Column(0, 2)
    BY <2>1, <2>3 DEF Column
  <2>6. Xor(0, 1) = 1
    BY DEF Xor, Either
  <2> QED BY <2>2, <2>4, <2>5, <2>6 DEF SameFor
<1> QED BY <1>8, <1>10, <1>11, <1>12, <1>13

(* A wrong triple stays one, as long as it is of account.                  *)
LEMMA SpoiledStep ==
    ASSUME SyncInv, transport = "channel", flips = 1, Spoiled, Next
    PROVE  ContentInv'
<1>0. 0 \in Parties /\ Parties = {0, 1, 2}
  BY DEF Parties
<1>1. CASE NextEvaluation
  <2>1. at[0] = "done"
    BY <1>0, <1>1, NextEmpties
  <2> QED BY <2>1 DEF Spoiled
<1>2. CASE \E l \in Links : Writer(l)
  BY <1>2, WriterFewer
<1>3. ASSUME NEW p \in Parties, Sends(p) \/ HearPrev(p) \/ Takes(p) \/ Returns(p) \/ Fails(p) \/ Quits(p)
      PROVE  Spoiled' /\ flips' = 1 /\ transport' = "channel"
  <2>1. CASE p # 0
    BY <1>0, <1>3, <2>1, SpoiledOthers
  <2>2. CASE p = 0
    <3>1. ~Quits(0)
      BY <1>0, <1>3, <2>2, StepEnded
    <3>2. ~Returns(0)
      <4>1. Returns(0) => at[0] \in {"check", "shown"}
        BY <1>0, ReturnsKeep
      <4> QED BY <4>1 DEF Spoiled
    <3> QED BY <1>3, <2>2, <3>1, <3>2, SpoiledSends, SpoiledStays, SpoiledTakes
  <2> QED BY <2>1, <2>2
<1>4. \/ NextEvaluation \/ \E l \in Links : Writer(l)
      \/ Spoiled' /\ flips' = 1 /\ transport' = "channel"
  BY <1>3, NextKinds
<1> QED BY <1>1, <1>2, <1>4 DEF ContentInv

-----------------------------------------------------------------------------
(* Nobody passes the check of views that ends a marked segment. *)

(* Who has not passed a check of views and is not in it does not pass it   *)
(* with the next round.                                                    *)
LEMMA NotPassed ==
    ASSUME NEW t \in Tags, NEW end \in Closings, Closes(end), transport = "channel",
           NotAfter(t, end), t # end
    PROVE  NotAfter(After(t), end)
<1>1. /\ Levels \in Nat \ {0} /\ t = <<t[1], t[2], t[3]>>
      /\ t[1] \in 0..Evals /\ t[2] \in Rounds /\ t[3] \in 0..Levels
      /\ t[2] = "level" => t[3] \in 1..Levels
      /\ t[2] # "level" => t[3] = 0
  BY BatchFacts, TagIsStage, StageFacts DEF Tags
<1>2. PICK e \in 0..Evals, r \in {"views", "check", "shown"} : end = <<e, r, 0>>
  BY DEF Closings
<1>3. end[1] = e /\ end[2] = r /\ end[3] = 0 /\ e \in Int /\ t[1] \in Int
  BY <1>1, <1>2
<1> PICK n : n = Levels
  OBVIOUS
<1>4. Rank(end) = CASE r = "views" -> 8 [] r = "check" -> 9 + n [] OTHER -> 1
  BY <1>2, <1>3 DEF Rank
<1>5. r = "shown" => Opening
  BY <1>3 DEF Closes
<1>6. t[1] < e \/ (t[1] = e /\ Rank(t) <= Rank(end))
  BY <1>3 DEF NotAfter
<1>7. ASSUME NEW u, u[1] = t[1], t[1] = e => Rank(u) <= Rank(end)
      PROVE  NotAfter(u, end)
  BY <1>3, <1>6, <1>7 DEF NotAfter
<1>8. CASE t[2] \in {"triples", "coin", "cut", "pairs", "zero"}
  <2>1. /\ After(t)[1] = t[1] /\ After(t)[2] \in {"coin", "cut", "pairs", "zero", "views"}
        /\ Rank(After(t)) \in {4, 5, 6, 7, 8} /\ Rank(t) \in {3, 4, 5, 6, 7}
    <3>1. PICK x \in {"coin", "cut", "pairs", "zero", "views"} : After(t) = <<t[1], x, 0>>
      BY <1>8 DEF After
    <3>2. Rank(<<t[1], x, 0>>) \in {4, 5, 6, 7, 8}
      BY DEF Rank
    <3>3. Rank(t) \in {3, 4, 5, 6, 7}
      BY <1>8 DEF Rank
    <3> QED BY <3>1, <3>2, <3>3
  <2>2. t[1] = e => Rank(After(t)) <= Rank(end)
    BY <1>1, <1>4, <1>6, <2>1
  <2> QED BY <1>7, <2>1, <2>2
<1>9. CASE t[2] = "views"
  <2>1. After(t) = <<t[1], "level", 1>>
    BY <1>9 DEF After
  <2>2. Rank(After(t)) = 9 /\ Rank(t) = 8 /\ After(t)[1] = t[1]
    BY <1>9, <2>1 DEF Rank
  <2>3. t[1] = e => r # "views"
    BY <1>1, <1>2, <1>9
  <2>4. t[1] = e => Rank(After(t)) <= Rank(end)
    BY <1>1, <1>2, <1>4, <1>6, <2>2, <2>3
  <2> QED BY <1>7, <2>2, <2>4
<1>10. CASE t[2] = "level"
  <2>1. After(t) = IF t[3] < n THEN <<t[1], "level", t[3] + 1>> ELSE <<t[1], "check", 0>>
    BY <1>10 DEF After
  <2>2. /\ After(t)[1] = t[1] /\ Rank(After(t)) \in Int /\ Rank(After(t)) <= 9 + n
        /\ Rank(t) = 8 + t[3]
    BY <1>1, <1>10, <2>1 DEF Rank
  <2>3. t[1] = e => r = "check"
    BY <1>1, <1>2, <1>4, <1>6, <1>10, <2>2
  <2>4. t[1] = e => Rank(After(t)) <= Rank(end)
    BY <1>4, <2>2, <2>3
  <2> QED BY <1>7, <2>2, <2>4
<1>11. CASE t[2] = "check"
  <2>1. After(t) = <<t[1] + 1, IF Opening THEN "open" ELSE "done", 0>>
    BY <1>11 DEF After
  <2>2. After(t)[1] = t[1] + 1 /\ Rank(After(t)) = IF Opening THEN 0 ELSE 2
    BY <2>1 DEF Rank
  <2>3. t[1] # e
    <3> SUFFICES ASSUME t[1] = e PROVE FALSE
      OBVIOUS
    <3>1. Rank(t) = 9 + n
      BY <1>11 DEF Rank
    <3>2. r = "check"
      BY <1>1, <1>2, <1>4, <1>6, <3>1
    <3> QED BY <1>1, <1>2, <1>11, <3>2
  <2>4. t[1] < e
    BY <1>6, <2>3
  <2>5. t[1] + 1 = e => Rank(After(t)) <= Rank(end)
    BY <1>1, <1>2, <1>4, <1>5, <2>2
  <2> QED BY <1>3, <2>2, <2>4, <2>5 DEF NotAfter
<1>12. CASE t[2] \in {"open", "shown"}
  <2>1. /\ After(t)[1] = t[1] /\ Rank(After(t)) = IF t[2] = "open" THEN 1 ELSE 2
        /\ Rank(t) = IF t[2] = "open" THEN 0 ELSE 1
    <3>1. After(t) = <<t[1], IF t[2] = "open" THEN "shown" ELSE "done", 0>>
      BY <1>12 DEF After
    <3>2. Rank(After(t)) = IF t[2] = "open" THEN 1 ELSE 2
      BY <3>1 DEF Rank
    <3>3. Rank(t) = IF t[2] = "open" THEN 0 ELSE 1
      BY <1>12 DEF Rank
    <3> QED BY <3>1, <3>2, <3>3
  <2>2. t[1] = e /\ t[2] = "shown" => r # "shown"
    BY <1>1, <1>2
  <2>3. t[1] = e => Rank(After(t)) <= Rank(end)
    BY <1>1, <1>2, <1>4, <1>12, <2>1, <2>2
  <2> QED BY <1>7, <2>1, <2>3
<1>13. CASE t[2] = "hand"
  BY <1>13 DEF After
<1> QED BY <1>1, <1>8, <1>9, <1>10, <1>11, <1>12, <1>13 DEF Rounds, Resharing, Exchanges, Generating

(* Segments end with checks of views, and with nothing else.               *)
LEMMA SegmentGoesOn ==
    ASSUME NEW t \in Tags, NEW end \in Closings
    PROVE  /\ t[2] \in Resharing \cup {"zero"} => (In(After(t), end) <=> In(t, end))
           /\ t[2] \in {"views", "check", "shown"} /\ In(t, end) => t = end
<1>1. PICK e \in 0..Evals, r \in {"views", "check", "shown"} : end = <<e, r, 0>>
  BY DEF Closings
<1>2. end[1] = e /\ end[2] = r
  BY <1>1
<1>3. t = <<t[1], t[2], t[3]>> /\ (t[2] # "level" => t[3] = 0)
  BY TagIsStage, StageFacts
<1>4. ASSUME t[2] \in Resharing \cup {"zero"} PROVE In(After(t), end) <=> In(t, end)
  <2>1. After(t)[1] = t[1]
    BY <1>4 DEF After, Resharing, Generating
  <2>2. Segment(After(t)) = Segment(t)
    <3>1. CASE t[2] \in {"triples", "coin", "cut", "pairs", "zero"}
      <4>1. After(t)[2] \in {"coin", "cut", "pairs", "zero", "views"}
        BY <3>1 DEF After
      <4> QED BY <3>1, <4>1 DEF Segment, RefillRounds, Generating
    <3>2. CASE t[2] = "level"
      <4>1. After(t)[2] \in {"level", "check"}
        BY <3>2 DEF After
      <4> QED BY <3>2, <4>1 DEF Segment, RefillRounds, Generating
    <3>3. CASE t[2] = "open"
      <4>1. After(t)[2] = "shown"
        BY <3>3 DEF After
      <4> QED BY <3>3, <4>1 DEF Segment, RefillRounds, Generating
    <3> QED BY <1>4, <3>1, <3>2, <3>3 DEF Resharing, Generating
  <2> QED BY <2>1, <2>2 DEF In
<1>5. ASSUME t[2] \in {"views", "check", "shown"}, In(t, end) PROVE t = end
  <2>1. Segment(t) = t[2]
    BY <1>5 DEF Segment, RefillRounds, Generating
  <2> QED BY <1>1, <1>2, <1>3, <1>5, <2>1 DEF In
<1> QED BY <1>4, <1>5

MarkedItem(q, m, end, pos) ==
    /\ m.tag[2] \in Resharing => Zero(m.body) \/ (In(m.tag, end) /\ Logged(m.tag) >= pos)
    /\ m.tag = end => m.body[pos] = IF q = 0 THEN 1 ELSE 0

(* One party's step keeps the mark, if it keeps it in its own state and in *)
(* what it sends.                                                          *)
LEMMA MarkedFrom ==
    ASSUME SyncInv, NEW end, NEW pos, Marked(end, pos), NEW p \in Parties,
           Sends(p) \/ HearPrev(p) \/ Takes(p) \/ Returns(p) \/ Fails(p) \/ Quits(p),
           MarkedParty(p, end, pos)', ~Sends(p) => Fewer,
           Sends(p) => \E q \in Parties, m \in MessagesIn(Tag(p)) :
                          q # p /\ Puts(p, q, m) /\ MarkedItem(p, m, end, pos)
    PROVE  Marked(end, pos)'
<1>1. ASSUME NEW x \in Parties, x # p PROVE MarkedParty(x, end, pos)'
  <2>1. Stays(x)
    BY <1>1, OthersStay
  <2>2. Tag(x)' = Tag(x)
    BY <2>1, StaysFacts
  <2>3. MarkedParty(x, end, pos)
    BY DEF Marked
  <2> QED BY <2>1, <2>2, <2>3 DEF MarkedParty, Stays
<1>2. ASSUME NEW a \in Parties, NEW b \in Parties, a # b, NEW i \in DOMAIN Msgs(a, b)
      PROVE  MarkedItem(a, Msgs(a, b)[i], end, pos)
  BY <1>2 DEF Marked, MarkedLink, MarkedItem
<1>3. ASSUME NEW a \in Parties, NEW b \in Parties, a # b, NEW i \in DOMAIN Msgs(a, b)'
      PROVE  MarkedItem(a, Msgs(a, b)'[i], end, pos)
  <2>1. CASE ~Sends(p)
    <3>1. PICK j \in DOMAIN Msgs(a, b) : Msgs(a, b)'[i] = Msgs(a, b)[j]
      BY <1>3, <2>1 DEF Fewer
    <3> QED BY <1>2, <1>3, <3>1
  <2>2. CASE Sends(p)
    <3>1. PICK q \in Parties, m \in MessagesIn(Tag(p)) :
              q # p /\ Puts(p, q, m) /\ MarkedItem(p, m, end, pos)
      BY <2>2
    <3>2. CASE <<a, b>> # <<p, q>>
      <4>1. Msgs(a, b)' = Msgs(a, b)
        BY <1>3, <3>1, <3>2 DEF Puts, Others
      <4> QED BY <1>2, <1>3, <4>1
    <3>3. CASE <<a, b>> = <<p, q>>
      <4>1. PICK n : /\ Msgs(p, q)'[n] = m
                     /\ \A h \in DOMAIN Msgs(p, q)' :
                           \/ h = n
                           \/ h \in DOMAIN Msgs(p, q) /\ Msgs(p, q)'[h] = Msgs(p, q)[h]
        BY <3>1, PutFacts
      <4>2. a = p /\ b = q
        BY <3>3
      <4>3. \/ Msgs(a, b)'[i] = m
            \/ i \in DOMAIN Msgs(a, b) /\ Msgs(a, b)'[i] = Msgs(a, b)[i]
        BY <1>3, <4>1, <4>2
      <4> QED BY <1>2, <1>3, <3>1, <4>2, <4>3
    <3> QED BY <3>2, <3>3
  <2> QED BY <2>1, <2>2
<1>4. ASSUME NEW a \in Parties, NEW b \in Parties, a # b PROVE MarkedLink(a, b, end, pos)'
  BY <1>3, <1>4 DEF MarkedLink, MarkedItem
<1>5. Closes(end)
  BY DEF Marked
<1> QED BY <1>1, <1>4, <1>5 DEF Marked

(* Somebody who compares views at the mark finds them different.           *)
LEMMA MarkStops ==
    ASSUME SyncInv, NEW end \in Closings, NEW pos \in 1..Logged(end), Marked(end, pos),
           NEW p \in Parties, Takes(p) \/ Returns(p)
    PROVE  Tag(p) # end
<1> SUFFICES ASSUME Tag(p) = end PROVE FALSE
  OBVIOUS
<1>0. /\ 0 \in Parties /\ 1 \in Parties /\ 2 \in Parties /\ p \in {0, 1, 2}
      /\ NextOf(0) = 1 /\ NextOf(1) = 2 /\ NextOf(2) = 0
  BY DEF Parties, NextOf
<1>1. at[p] = end[2] /\ at[p] \in {"views", "check", "shown"} /\ end \in Tags /\ In(Tag(p), end)
  BY SegmentFacts DEF Tag
<1>2. Gets(p, at[p]) /\ ViewsAgree(p)
  BY <1>1, TakesHold
<1>3. /\ DOMAIN log[p] = 1..Logged(end) /\ Listening(p) /\ sub[p] = "fromNext"
      /\ FromNext(p) = Msgs(NextOf(p), p)[1] /\ 1 \in DOMAIN Msgs(NextOf(p), p) /\ FromNext(p).tag = end
  <2>1. at[p] \in Exchanges /\ at[p] # "zero"
    BY <1>1 DEF Exchanges
  <2>2. Size(end) = Logged(end)
    BY SegmentFacts
  <2>3. /\ Size(Tag(p)) = Len(log[p]) /\ log[p] \in Seq(Errors) /\ Listening(p)
        /\ FromNext(p) = Msgs(NextOf(p), p)[1] /\ 1 \in DOMAIN Msgs(NextOf(p), p)
        /\ FromNext(p).tag = Tag(p)
    BY <1>2, <2>1, Compared
  <2> QED BY <1>2, <2>2, <2>3 DEF Gets
<1>4. MarkedParty(p, end, pos) /\ at[p] # "aborted"
  BY <1>1 DEF Marked
<1>5. /\ heard[p].body[pos] = IF p = 1 THEN 1 ELSE 0
      /\ log[p][pos] = IF p = 0 THEN 1 ELSE 0
  BY <1>1, <1>3, <1>4 DEF MarkedParty
<1>6. FromNext(p).body[pos] = IF NextOf(p) = 0 THEN 1 ELSE 0
  <2>1. MarkedLink(NextOf(p), p, end, pos)
    BY RingFacts DEF Marked
  <2> QED BY <1>3, <2>1 DEF MarkedLink
<1>7. Xor(0, 1) = 1 /\ Xor(1, 0) = 1
  BY DEF Xor, Either
<1>8. /\ Xor(heard[p].body[pos], log[p][pos]) # 1
      /\ Xor(FromNext(p).body[pos], log[p][pos]) # 1
  BY <1>2, <1>3 DEF ViewsAgree, SameFor
<1> QED BY <1>0, <1>5, <1>6, <1>7, <1>8

(* What is sent in a marked segment is right behind the mark.              *)
LEMMA MarkedSends ==
    ASSUME SyncInv, transport = "channel", flips = 1, NEW end \in Closings, NEW pos \in 1..Logged(end),
           Marked(end, pos), NEW p \in Parties, Sends(p)
    PROVE  Marked(end, pos)' /\ flips' = 1 /\ transport' = "channel"
<1>1. PICK q \in Parties, m \in MessagesIn(Tag(p)) :
          /\ q # p /\ Puts(p, q, m) /\ AsDue(p, m) /\ flips' = 1 /\ transport' = "channel"
          /\ m.tag = Tag(p) /\ Tag(p) \in Tags
  BY SendsAsDue
<1>2. /\ at' = at /\ UNCHANGED local /\ ~Ended(p) /\ (at[p] \in Exchanges => sub'[p] # "fromNext")
      /\ heard' = heard
  BY SendsKeep
<1>3. MarkedParty(p, end, pos) /\ at[p] # "aborted" /\ Tag(p)' = Tag(p) /\ Tag(p)[2] = at[p]
  BY <1>2 DEF Marked, Ended, Tag, local
<1>4. Tag(p) = end => at[p] \in Exchanges
  BY <1>3, SegmentFacts
<1>5. MarkedParty(p, end, pos)'
  BY <1>2, <1>3, <1>4 DEF MarkedParty, local
<1>6. log[p] \in Seq(Errors) /\ Len(log[p]) = Logged(Tag(p)) /\ z[p] \in Errors \X Errors
  BY <1>3 DEF SyncInv, PlaceInv, TypeOK
<1>7. ASSUME at[p] \in Resharing
      PROVE  Zero(m.body) \/ (In(m.tag, end) /\ Logged(m.tag) >= pos)
  <2>1. m.body = Seconds(p)
    BY <1>1, <1>7 DEF AsDue, Part
  <2>2. Zero(triples[p]) /\ (astray[p] \/ z[p] # Clear => In(Tag(p), end) /\ Len(log[p]) >= pos)
        /\ (z[p] # Clear => end[2] = "check")
    BY <1>3 DEF MarkedParty
  <2>3. ASSUME ~(In(m.tag, end) /\ Logged(m.tag) >= pos) PROVE ~astray[p] /\ z[p] = Clear
    BY <1>1, <1>6, <2>2, <2>3
  <2>4. CASE at[p] = "triples"
    <3>1. Generated(p) \in Nat
      BY <2>4, RefillFacts DEF RefillRounds, Generating
    <3>2. Zero(All(Generated(p), 0))
      BY <3>1, ZeroFacts
    <3> QED BY <2>1, <2>4, <3>2 DEF Seconds
  <2>5. CASE at[p] = "coin"
    BY <2>1, <2>5, ZeroFacts DEF Seconds
  <2>6. CASE at[p] = "cut"
    BY <2>1, <2>2, <2>3, <2>6, CutIndex DEF Seconds
  <2>7. CASE at[p] = "pairs"
    BY <2>1, <2>3, <2>7 DEF Seconds, Zero, All
  <2>8. CASE at[p] \in {"level", "open"}
    <3>1. z[p] = Clear => Zero(<<z[p][2], 0>>) /\ Zero(<<z[p][2]>>)
      BY ZeroFacts DEF Clear
    <3> QED BY <2>1, <2>3, <2>8, <3>1 DEF Seconds
  <2> QED BY <1>7, <2>4, <2>5, <2>6, <2>7, <2>8 DEF Resharing, Generating
<1>8. ASSUME m.tag = end PROVE m.body[pos] = IF p = 0 THEN 1 ELSE 0
  <2>1. at[p] \in {"views", "check", "shown"} /\ In(Tag(p), end)
    BY <1>1, <1>3, <1>8, SegmentFacts
  <2>2. m.body = log[p]
    BY <1>1, <2>1 DEF AsDue, Part, Said, Resharing, Generating
  <2>3. pos \in DOMAIN log[p]
    BY <1>1, <1>6, <1>8
  <2>4. pos <= pos
    BY SegmentFacts
  <2> QED BY <1>3, <2>1, <2>2, <2>3, <2>4 DEF MarkedParty
<1>9. MarkedItem(p, m, end, pos)
  BY <1>1, <1>3, <1>7, <1>8 DEF MarkedItem
<1>10. Marked(end, pos)'
  BY <1>1, <1>5, <1>9, MarkedFrom
<1> QED BY <1>1, <1>10

(* Hearing and aborting keep the mark.                                     *)
LEMMA MarkedStays ==
    ASSUME SyncInv, transport = "channel", flips = 1, NEW end \in Closings, NEW pos \in 1..Logged(end),
           Marked(end, pos), NEW p \in Parties, HearPrev(p) \/ Fails(p)
    PROVE  Marked(end, pos)' /\ flips' = 1 /\ transport' = "channel"
<1>0. /\ 0 \in Parties /\ 1 \in Parties /\ 2 \in Parties /\ p \in {0, 1, 2}
      /\ PrevOf(0) = 2 /\ PrevOf(1) = 0 /\ PrevOf(2) = 1
  BY DEF Parties, PrevOf
<1>1. MarkedParty(p, end, pos)
  BY DEF Marked
<1>2. CASE HearPrev(p)
  <2>1. /\ Unmoved(p) /\ at' = at /\ ~Ended(p) /\ Tag(p)' = Tag(p) /\ sub'[p] = "fromNext"
        /\ Pulls(p, PrevOf(p)) /\ heard'[p] = Msgs(PrevOf(p), p)[1] /\ heard'[p].tag = Tag(p)
    BY <1>2, HearsKeep
  <2>2. ~Sends(p)
    BY <1>2, <2>1, SendsKeep, HearsKeep
  <2>3. Tag(p) = end => heard'[p].body[pos] = IF p = 1 THEN 1 ELSE 0
    <3> SUFFICES ASSUME Tag(p) = end PROVE heard'[p].body[pos] = IF p = 1 THEN 1 ELSE 0
      OBVIOUS
    <3>1. MarkedLink(PrevOf(p), p, end, pos)
      BY RingFacts DEF Marked
    <3>2. 1 \in DOMAIN Msgs(PrevOf(p), p)
      <4>1. Msgs(PrevOf(p), p) \in Seq(Messages) /\ Msgs(PrevOf(p), p) # << >>
        BY <2>1, RingFacts, MsgsFacts DEF SyncInv, Pulls
      <4> QED BY <4>1
    <3>3. heard'[p].body[pos] = IF PrevOf(p) = 0 THEN 1 ELSE 0
      BY <2>1, <3>1, <3>2 DEF MarkedLink
    <3> QED BY <1>0, <3>3
  <2>4. MarkedParty(p, end, pos)'
    BY <1>1, <2>1, <2>3 DEF MarkedParty, Unmoved, Holds
  <2> QED BY <1>2, <2>2, <2>4, StepFewer, MarkedFrom
<1>3. CASE Fails(p)
  <2>1. Unmoved(p) /\ Ends(p, "aborted")
    BY <1>3, LeavesKeep
  <2>2. at'[p] = "aborted" /\ sub'[p] = "send"
    BY <2>1, EndsDrop
  <2>3. ~Sends(p)
    BY <2>2, SendsKeep
  <2>4. MarkedParty(p, end, pos)'
    BY <1>1, <2>1, <2>2 DEF MarkedParty, Unmoved, Holds
  <2> QED BY <1>3, <2>3, <2>4, StepFewer, MarkedFrom
<1> QED BY <1>2, <1>3

(* What a party reads behind the mark is right.                            *)
LEMMA MarkedInbound ==
    ASSUME SyncInv, NEW end \in Closings, NEW pos \in 1..Logged(end), Marked(end, pos),
           NEW p \in Parties, Takes(p) \/ Returns(p), at[p] \in Resharing
    PROVE  Zero(Inbound(p)) \/ (In(Tag(p), end) /\ Logged(Tag(p)) >= pos)
<1>1. /\ FromNext(p) = Msgs(NextOf(p), p)[1] /\ 1 \in DOMAIN Msgs(NextOf(p), p)
      /\ FromNext(p).tag = Tag(p) /\ Inbound(p) = FromNext(p).body /\ Tag(p)[2] = at[p]
  BY TakesAgree DEF Inbound, FromNext, Tag
<1>2. MarkedLink(NextOf(p), p, end, pos)
  BY RingFacts DEF Marked
<1> QED BY <1>1, <1>2 DEF MarkedLink

(* Where a party that reads was, and where it is then.                     *)
LEMMA MarkedPlace ==
    ASSUME SyncInv, transport = "channel", NEW end \in Closings, NEW pos \in 1..Logged(end),
           Marked(end, pos), NEW p \in Parties, Takes(p) \/ Returns(p)
    PROVE  /\ MarkedParty(p, end, pos) /\ at[p] # "aborted" /\ sub'[p] = "send"
           /\ Tag(p) \in Tags /\ Tag(p)[2] = at[p] /\ Tag(p) # end
           /\ NotAfter(Tag(p), end) /\ NotAfter(Tag(p)', end)
           /\ at[p] \in Resharing \cup {"zero"} => (In(Tag(p), end) <=> In(Tag(p)', end))
           /\ at[p] \in {"views", "check", "shown"} => ~In(Tag(p), end)
           /\ at[p] \in Resharing \cup {"zero"} \cup {"views", "check", "shown"}
           /\ log[p] \in Seq(Errors) /\ pool[p] \in Seq(Errors) /\ Len(log[p]) = Logged(Tag(p))
<1>1. at[p] \in Resharing \cup Exchanges
  BY TakesHold
<1>2. /\ at[p] # "aborted" /\ at[p] # "done"
      /\ at[p] \in Resharing \cup {"zero"} \cup {"views", "check", "shown"}
  BY <1>1 DEF Resharing, Exchanges, Generating
<1>3. Tag(p) \in Tags /\ Tag(p)[2] = at[p]
  BY <1>2, TagFacts
<1>4. Tag(p)' = After(Tag(p))
  BY TakesAfter, ReturnsKeep
<1>5. sub'[p] = "send"
  BY TakesKeep, ReturnsKeep, EndsDrop
<1>6. MarkedParty(p, end, pos) /\ Closes(end) /\ NotAfter(Tag(p), end)
  BY <1>2 DEF Marked, MarkedParty
<1>7. Tag(p) # end
  BY MarkStops
<1>8. NotAfter(Tag(p)', end)
  BY <1>3, <1>4, <1>6, <1>7, NotPassed
<1>9. /\ at[p] \in Resharing \cup {"zero"} => (In(Tag(p), end) <=> In(Tag(p)', end))
      /\ at[p] \in {"views", "check", "shown"} => ~In(Tag(p), end)
  BY <1>3, <1>4, <1>7, SegmentGoesOn
<1>10. log[p] \in Seq(Errors) /\ pool[p] \in Seq(Errors) /\ Len(log[p]) = Logged(Tag(p))
  BY <1>2 DEF SyncInv, PlaceInv, TypeOK
<1> QED BY <1>2, <1>3, <1>5, <1>6, <1>7, <1>8, <1>9, <1>10

(* What has been opened stays in the log for the rest of the segment.      *)
Retains(r, s) ==
    /\ r \in Seq(Errors) /\ Len(r) >= Len(s)
    /\ \A i \in 1..Len(s) : r[i] = s[i]

(* Appending to a log loses nothing of it.                                 *)
LEMMA RetainsMore ==
    ASSUME NEW s \in Seq(Errors), NEW n \in Nat, NEW f \in Vectors(n)
    PROVE  Retains(s \o f, s)
<1>1. /\ s \o f \in Seq(Errors) /\ Len(s \o f) = Len(s) + n
      /\ \A i \in 1..Len(s) : (s \o f)[i] = s[i]
  BY LogGrows
<1>2. Len(s) \in Nat
  OBVIOUS
<1> QED BY <1>1, <1>2 DEF Retains

(* Between the coin of a refill and the check of its views, and while a    *)
(* circuit is evaluated, a party only adds to its log.                     *)
LEMMA TakesRetain ==
    ASSUME SyncInv, NEW p \in Parties, Takes(p) \/ Returns(p), at[p] \in {"cut", "pairs", "zero", "level"}
    PROVE  /\ Retains(log'[p], log[p]) /\ triples'[p] = triples[p] /\ shown'[p] = shown[p]
           /\ Zero(pool[p]) => Zero(pool'[p])
           /\ at[p] # "level" => z'[p] = z[p]
<1>1. Gets(p, at[p])
  BY TakesHold
<1>2. log[p] \in Seq(Errors) /\ pool[p] \in Seq(Errors) /\ 3 * Cut \in Nat
  BY SizesAssumption DEF SyncInv, TypeOK
<1>3. CASE at[p] = "cut"
  <2>1. Holds(p, triples[p], astray[p], zeros[p], log[p] \o CutValues(p), pool[p], z[p], shown[p])
    BY <1>3, TakesHold
  <2>2. CutValues(p) \in Vectors(3 * Cut)
    BY <1>1, <1>3, CutFacts
  <2>3. Retains(log[p] \o CutValues(p), log[p])
    BY <1>2, <2>2, RetainsMore
  <2> QED BY <1>3, <2>1, <2>3 DEF Holds
<1>4. CASE at[p] = "pairs"
  <2>1. Holds(p, triples[p], astray[p], ZeroSharings(p), log[p] \o PairErrors(p),
              pool[p], z[p], shown[p])
    BY <1>4, TakesHold
  <2>2. PairErrors(p) \in Vectors(2 * PairsIn(done[p])) /\ 2 * PairsIn(done[p]) \in Nat
    BY <1>1, <1>4, SacrificeFacts
  <2>3. Retains(log[p] \o PairErrors(p), log[p])
    BY <1>2, <2>2, RetainsMore
  <2> QED BY <1>4, <2>1, <2>3 DEF Holds
<1>5. CASE at[p] = "zero"
  <2>1. Unmoved(p)
    BY <1>5, TakesHold
  <2>2. Retains(log[p], log[p])
    BY <1>2 DEF Retains
  <2> QED BY <1>5, <2>1, <2>2 DEF Unmoved, Holds
<1>6. CASE at[p] = "level"
  <2>1. Holds(p, triples[p], astray[p], zeros[p], log[p] \o <<LevelD(p), LevelE(p)>>,
              SubSeq(pool[p], 1, Len(pool[p]) - 1), LevelZ(p), shown[p])
    BY <1>6, TakesHold
  <2>2. <<LevelD(p), LevelE(p)>> \in Vectors(2) /\ Len(pool[p]) \in Nat \ {0}
    <3>1. Gets(p, "level")
      BY <1>1, <1>6
    <3> QED BY <3>1, LevelFacts
  <2> PICK f : f = <<LevelD(p), LevelE(p)>>
    OBVIOUS
  <2>3. Retains(log[p] \o f, log[p])
    <3>1. f \in Vectors(2) /\ 2 \in Nat
      BY <2>2
    <3> QED BY <1>2, <3>1, RetainsMore
  <2>4. Zero(pool[p]) => Zero(SubSeq(pool[p], 1, Len(pool[p]) - 1))
    <3>1. Len(pool[p]) - 1 \in Nat /\ Len(pool[p]) - 1 <= Len(pool[p])
      BY <2>2
    <3> QED BY <1>2, <3>1, ZeroFacts
  <2> QED BY <1>6, <2>1, <2>3, <2>4 DEF Holds
<1> QED BY <1>3, <1>4, <1>5, <1>6

(* Before the mark a party goes on with nothing wrong.                     *)
LEMMA MarkedBefore ==
    ASSUME SyncInv, transport = "channel", NEW end \in Closings, NEW pos \in 1..Logged(end),
           Marked(end, pos), NEW p \in Parties, Takes(p) \/ Returns(p),
           ~(In(Tag(p), end) /\ Len(log[p]) >= pos)
    PROVE  MarkedParty(p, end, pos)'
<1>1. /\ MarkedParty(p, end, pos) /\ at[p] # "aborted" /\ sub'[p] = "send"
      /\ NotAfter(Tag(p)', end)
      /\ at[p] \in Resharing \cup {"zero"} => (In(Tag(p), end) <=> In(Tag(p)', end))
      /\ at[p] \in Resharing \cup {"zero"} \cup {"views", "check", "shown"}
      /\ log[p] \in Seq(Errors) /\ Len(log[p]) = Logged(Tag(p))
  BY MarkedPlace
<1>2. p # 0 /\ ~astray[p] /\ z[p] = Clear /\ shown[p] = 0 /\ Zero(pool[p]) /\ Zero(triples[p])
  BY <1>1 DEF MarkedParty
<1>3. at[p] \in Resharing => Zero(Inbound(p))
  BY <1>1, MarkedInbound
<1>4. Sober(p)' /\ (Zero(log[p]) => Zero(log'[p]))
  BY <1>2, <1>3, TakesSober DEF Sober
<1>5. In(Tag(p)', end) => \A i \in DOMAIN log'[p] : i <= pos => log'[p][i] = 0
  <2>1. CASE at[p] \in Resharing \cup {"zero"}
    <3> SUFFICES ASSUME In(Tag(p)', end) PROVE \A i \in DOMAIN log'[p] : i <= pos => log'[p][i] = 0
      OBVIOUS
    <3>1. In(Tag(p), end) /\ ~(Len(log[p]) >= pos)
      BY <1>1, <2>1
    <3>2. pos \in Nat /\ Len(log[p]) \in Nat /\ DOMAIN log[p] = 1..Len(log[p])
      <4>1. pos \in Nat
        BY SegmentFacts
      <4> QED BY <1>1, <4>1
    <3>3. \A i \in DOMAIN log[p] : log[p][i] = 0
      BY <1>1, <1>2, <3>1, <3>2 DEF MarkedParty
    <3> QED BY <1>4, <3>3 DEF Zero
  <2>2. CASE at[p] \in {"views", "check", "shown"}
    <3>1. log'[p] = NoVector
      BY <2>2, TakesHold DEF Holds
    <3> QED BY <3>1 DEF NoVector
  <2> QED BY <1>1, <2>1, <2>2
<1> QED BY <1>1, <1>2, <1>4, <1>5 DEF MarkedParty, Sober

(* Behind it, it keeps what it has opened, and the mark.                   *)
LEMMA MarkedBehind ==
    ASSUME SyncInv, transport = "channel", NEW end \in Closings, NEW pos \in 1..Logged(end),
           Marked(end, pos), NEW p \in Parties, Takes(p) \/ Returns(p),
           In(Tag(p), end), Len(log[p]) >= pos
    PROVE  MarkedParty(p, end, pos)'
<1>1. /\ MarkedParty(p, end, pos) /\ at[p] # "aborted" /\ sub'[p] = "send"
      /\ NotAfter(Tag(p)', end) /\ Tag(p)[2] = at[p]
      /\ at[p] \in Resharing \cup {"zero"} => (In(Tag(p), end) <=> In(Tag(p)', end))
      /\ at[p] \in {"views", "check", "shown"} => ~In(Tag(p), end)
      /\ at[p] \in Resharing \cup {"zero"} \cup {"views", "check", "shown"}
      /\ log[p] \in Seq(Errors) /\ Len(log[p]) = Logged(Tag(p))
  BY MarkedPlace
<1>2. pos \in Nat \ {0} /\ Len(log[p]) \in Nat /\ DOMAIN log[p] = 1..Len(log[p])
  <2>1. pos \in Nat \ {0}
    BY SegmentFacts
  <2> QED BY <1>1, <2>1
<1>3. at[p] \in {"cut", "pairs", "zero", "level"}
  <2>1. at[p] \in {"triples", "coin", "open"} => Logged(Tag(p)) = 0
    BY <1>1, TagValues
  <2>2. at[p] \notin {"triples", "coin", "open"}
    BY <1>1, <1>2, <2>1
  <2> QED BY <1>1, <2>2 DEF Resharing, Generating
<1>4. /\ Retains(log'[p], log[p]) /\ triples'[p] = triples[p] /\ shown'[p] = shown[p]
      /\ Zero(pool[p]) => Zero(pool'[p])
      /\ at[p] # "level" => z'[p] = z[p]
  BY <1>3, TakesRetain
<1>5. In(Tag(p)', end)
  BY <1>1, <1>3 DEF Resharing, Generating
<1>6. Len(log'[p]) >= pos
  <2>1. Len(log'[p]) \in Nat /\ Len(log'[p]) >= Len(log[p])
    BY <1>4 DEF Retains
  <2> QED BY <1>2, <2>1
<1>7. \A i \in DOMAIN log'[p] : i <= pos => log'[p][i] = IF p = 0 /\ i = pos THEN 1 ELSE 0
  <2> SUFFICES ASSUME NEW i \in DOMAIN log'[p], i <= pos
               PROVE  log'[p][i] = IF p = 0 /\ i = pos THEN 1 ELSE 0
    OBVIOUS
  <2>1. i \in Nat \ {0}
    BY <1>4 DEF Retains
  <2>2. i \in 1..Len(log[p])
    BY <1>2, <2>1
  <2>3. log'[p][i] = log[p][i]
    BY <1>4, <2>2 DEF Retains
  <2> QED BY <1>1, <1>2, <2>2, <2>3 DEF MarkedParty
<1>8. z'[p] # Clear => end[2] = "check"
  <2>1. CASE at[p] # "level"
    BY <1>1, <1>4, <2>1 DEF MarkedParty
  <2>2. CASE at[p] = "level"
    <3>1. Segment(Tag(p)) = "check"
      BY <1>1, <2>2 DEF Segment, RefillRounds, Generating
    <3> QED BY <3>1 DEF In
  <2> QED BY <2>1, <2>2
<1> QED BY <1>1, <1>4, <1>5, <1>6, <1>7, <1>8 DEF MarkedParty

(* So the mark stays until everybody has aborted.                          *)
LEMMA MarkedStep ==
    ASSUME SyncInv, transport = "channel", flips = 1, NEW end \in Closings, NEW pos \in 1..Logged(end),
           Marked(end, pos), Next
    PROVE  ContentInv'
<1>0. 0 \in Parties
  BY DEF Parties
<1>1. CASE NextEvaluation
  <2>1. at[0] = "done" /\ Tag(0)[2] = "done"
    BY <1>0, <1>1, NextEmpties DEF Tag
  <2>2. In(Tag(0), end)
    BY <1>0, <2>1 DEF Marked, MarkedParty
  <2>3. Segment(Tag(0)) = "none"
    BY <2>1 DEF Segment, RefillRounds, Generating
  <2> QED BY <2>2, <2>3, SegmentFacts DEF In
<1>2. CASE \E l \in Links : Writer(l)
  BY <1>2, WriterFewer
<1>3. ASSUME NEW p \in Parties, Sends(p) \/ HearPrev(p) \/ Takes(p) \/ Returns(p) \/ Fails(p) \/ Quits(p)
      PROVE  Marked(end, pos)' /\ flips' = 1 /\ transport' = "channel"
  <2>1. ~Quits(p)
    BY <1>3, StepEnded
  <2>2. CASE Sends(p)
    BY <2>2, MarkedSends
  <2>3. CASE HearPrev(p) \/ Fails(p)
    BY <2>3, MarkedStays
  <2>4. CASE Takes(p) \/ Returns(p)
    <3>1. MarkedParty(p, end, pos)'
      BY <2>4, MarkedBefore, MarkedBehind
    <3>2. ~Sends(p) /\ sub'[p] = "send"
      BY <2>4, SendsKeep, MarkedPlace
    <3> QED BY <2>4, <3>1, <3>2, StepFewer, MarkedFrom
  <2> QED BY <1>3, <2>1, <2>2, <2>3, <2>4
<1>4. \/ NextEvaluation \/ \E l \in Links : Writer(l)
      \/ Marked(end, pos)' /\ flips' = 1 /\ transport' = "channel"
  BY <1>3, NextKinds
<1> QED BY <1>1, <1>2, <1>4 DEF ContentInv

-----------------------------------------------------------------------------
(* The invariant, and what it says of the results. *)

(* Nothing is wrong before the first step.                                 *)
LEMMA ContentStart == Init => ContentInv
<1> SUFFICES ASSUME Init PROVE ContentInv
  OBVIOUS
<1>1. ASSUME NEW p \in Parties
      PROVE  Rested(p) /\ HeardZero(p) /\ ~Listening(p) /\ at[p] # "aborted"
  <2>1. at[p] = FirstRound(0) /\ sub[p] = "send"
    BY DEF Init
  <2>2. at[p] \in {"triples", "level"}
    BY <2>1 DEF FirstRound
  <2>3. /\ triples[p] = NoVector /\ ~astray[p] /\ zeros[p] = NoVector
        /\ log[p] = NoVector /\ pool[p] = NoVector /\ z[p] = Clear /\ shown[p] = 0
    BY DEF Init
  <2>4. Rested(p)
    BY <2>3 DEF Rested, Calm, Zero, NoVector
  <2>5. ~Listening(p) /\ HeardZero(p)
    BY <2>1 DEF Listening, HeardZero
  <2> QED BY <2>2, <2>4, <2>5
<1>2. flips = 0
  BY DEF Init
<1>3. ASSUME NEW q \in Parties, NEW p \in Parties, q # p
      PROVE  Clean(q, p) /\ \A i \in DOMAIN Msgs(q, p) : ~Msgs(q, p)[i].changed
  <2>1. wire[<<q, p>>] = << >> /\ queued[<<q, p>>] = << >>
    BY <1>3 DEF Init, NetInit, Links
  <2>2. DOMAIN Msgs(q, p) = {}
    BY <2>1 DEF Msgs
  <2> QED BY <2>2 DEF Clean
<1>4. Quiet
  <2>1. ASSUME NEW p \in Parties
        PROVE  Rested(p) /\ HeardZero(p) /\ \A q \in Parties \ {p} : Clean(q, p)
    BY <1>1, <1>3
  <2> QED BY <2>1, Zenon DEF Quiet
<1> QED BY <1>1, <1>2, <1>3, <1>4 DEF Untouched, ContentInv

(* A step keeps what is true of the contents.                              *)
LEMMA ContentStep ==
    ASSUME SyncInv, Emptied, ContentInv, Next
    PROVE  ContentInv'
<1>1. SyncInv' /\ Emptied'
  <2>1. SyncInv'
    BY StepSync
  <2> QED BY <2>1, EmptiedStep
<1>2. (transport = "channel")' => MarksStart'
  BY <1>1, MarksStartSo, PTL
<1>3. CASE flips = 0 /\ Untouched
  BY <1>3, NextKinds, UntouchedSends, UntouchedSteps, UntouchedElse
<1>4. ASSUME flips = 1, transport = "channel"
      PROVE  MarksStart'
  <2>1. transport' = transport
    <3>1. ASSUME NEW p \in Parties,
                 Sends(p) \/ HearPrev(p) \/ Takes(p) \/ Returns(p) \/ Fails(p) \/ Quits(p)
          PROVE  transport' = transport
      BY <3>1, SendsKeep, StepFewer
    <3> QED BY <3>1, NextKinds, NextEmpties, WriterFewer
  <2>2. (transport = "channel")'
    BY <1>4, <2>1
  <2> QED BY <1>2, <2>2
<1>5. CASE flips = 1 /\ transport = "channel" /\ HashChanged
  BY <1>5, HashChangedStep
<1>6. CASE flips = 1 /\ transport = "channel" /\ InFlight
  BY <1>1, <1>4, <1>6, InFlightStep
<1>7. CASE flips = 1 /\ transport = "channel" /\ Spoiled
  BY <1>7, SpoiledStep
<1>8. ASSUME flips = 1, transport = "channel", NEW end \in Closings, NEW pos \in 1..Logged(end),
             Marked(end, pos)
      PROVE  ContentInv'
  BY <1>8, MarkedStep
<1> QED BY <1>3, <1>5, <1>6, <1>7, <1>8 DEF ContentInv

(* The invariant says nothing else than the state does.                    *)
LEMMA ContentStutter ==
    ASSUME UNCHANGED vars
    PROVE  Emptied' = Emptied /\ ContentInv' = ContentInv
<1>1. /\ UNCHANGED <<transport, queued, wire, gone, reset, at, sub, heard, flips>>
      /\ UNCHANGED <<level, done, count, triples, astray, zeros, log, pool, z, shown>>
  BY DEF vars, netVars, local
<1>2. \A q, p : Msgs(q, p)' = Msgs(q, p)
  BY <1>1 DEF Msgs
<1>3. \A x : Tag(x)' = Tag(x) /\ Ended(x)' = Ended(x) /\ Listening(x)' = Listening(x)
  BY <1>1 DEF Tag, Ended, Listening
<1>4. \A x : /\ Calm(x)' = Calm(x) /\ Rested(x)' = Rested(x) /\ HeardZero(x)' = HeardZero(x)
             /\ \A y : Clean(x, y)' = Clean(x, y)
  BY <1>1, <1>2, <1>3 DEF Calm, Rested, HeardZero, Clean
<1>5. Emptied' = Emptied
  BY <1>1, <1>2, <1>3 DEF Emptied
<1>6. Quiet' = Quiet
  BY <1>4 DEF Quiet
<1>7. Untouched' = Untouched /\ HashChanged' = HashChanged
  BY <1>1, <1>2, <1>3, <1>6 DEF Untouched, HashChanged, Refused
<1>8. InFlight' = InFlight
  BY <1>2, <1>3, <1>4 DEF InFlight
<1>9. \A j : WrongTriple(j)' = WrongTriple(j)
  BY <1>1, <1>2 DEF WrongTriple
<1>10. Spoiled' = Spoiled
  BY <1>1, <1>4, <1>9 DEF Spoiled
<1>11. \A end, pos : /\ \A p : MarkedParty(p, end, pos)' = MarkedParty(p, end, pos)
                     /\ \A q, p : MarkedLink(q, p, end, pos)' = MarkedLink(q, p, end, pos)
  BY <1>1, <1>2, <1>3 DEF MarkedParty, MarkedLink
<1>12. \A end, pos : Marked(end, pos)' = Marked(end, pos)
  BY <1>11 DEF Marked
<1>13. ContentInv' = ContentInv
  BY <1>1, <1>7, <1>8, <1>10, <1>12 DEF ContentInv
<1> QED BY <1>5, <1>13

(* The inductive invariant: the rounds, and what every item is worth       *)
(* before, at and after the one that was changed.                          *)
THEOREM ContentsFollowed == Spec => []IInv
<1>1. Init => Emptied /\ ContentInv
  BY EmptiedStart, ContentStart
<1>2. SyncInv /\ Emptied /\ ContentInv /\ [Next]_vars => Emptied' /\ ContentInv'
  <2> SUFFICES ASSUME SyncInv, Emptied, ContentInv, [Next]_vars PROVE Emptied' /\ ContentInv'
    OBVIOUS
  <2>1. CASE Next
    BY <2>1, EmptiedStep, ContentStep
  <2>2. CASE UNCHANGED vars
    BY <2>2, ContentStutter
  <2> QED BY <2>1, <2>2
<1>3. SyncInv /\ Emptied /\ ContentInv => IInv
  BY DEF IInv
<1> QED BY <1>1, <1>2, <1>3, RoundsFollowed, PTL DEF Spec

(* Party 0 is still in a marked segment, or has aborted.                   *)
LEMMA MarkHolds ==
    ASSUME SyncInv, NEW end \in Closings, NEW pos \in 1..Logged(end), Marked(end, pos)
    PROVE  at[0] # "done"
<1> SUFFICES ASSUME at[0] = "done" PROVE FALSE
  OBVIOUS
<1>1. 0 \in Parties
  BY DEF Parties
<1>2. In(Tag(0), end) /\ Tag(0)[2] = "done"
  BY <1>1, TagFacts DEF Marked, MarkedParty
<1>3. Segment(Tag(0)) = "none"
  BY <1>2 DEF Segment, RefillRounds, Generating
<1> QED BY <1>2, <1>3, SegmentFacts DEF In

(* What a party has verified is right even when it works on a wrong value. *)
LEMMA MarkedRight ==
    ASSUME SyncInv, NEW end \in Closings, NEW pos \in 1..Logged(end), Marked(end, pos),
           NEW p \in Parties
    PROVE  /\ Zero(pool[p])
           /\ Checked(p) => z[p] = Clear
           /\ at[p] = "done" => shown[p] = 0
<1>1. MarkedParty(p, end, pos)
  BY DEF Marked
<1>2. at[p] = "done" => shown[p] = 0
  BY <1>1, MarkHolds DEF MarkedParty
<1>3. ASSUME Checked(p), z[p] # Clear PROVE FALSE
  <2>1. at[p] # "aborted" /\ Tag(p)[2] = at[p]
    BY <1>3, TagFacts DEF Checked, Generating
  <2>2. In(Tag(p), end) /\ Len(log[p]) >= pos /\ end[2] = "check"
    BY <1>1, <1>3, <2>1 DEF MarkedParty
  <2>3. Segment(Tag(p)) = "check"
    BY <2>2 DEF In
  <2>4. at[p] \notin Generating \cup {"open", "shown", "hand", "done"}
    BY <2>1, <2>3 DEF Segment, RefillRounds, Generating
  <2>5. at[p] = "level" /\ level[p] = 1
    BY <1>3, <2>4 DEF Checked
  <2>6. Tag(p)[3] = 1
    BY <2>1, <2>5, TagFacts
  <2>7. Logged(Tag(p)) = 0
    BY <2>1, <2>5, <2>6, TagValues
  <2>8. Len(log[p]) = Logged(Tag(p))
    BY <2>1 DEF SyncInv, PlaceInv
  <2>9. pos \in Nat \ {0}
    BY SegmentFacts
  <2> QED BY <2>2, <2>7, <2>8, <2>9
<1> QED BY <1>1, <1>2, <1>3 DEF MarkedParty

(* A party that has passed the checks of a refill has only right triples   *)
(* in stock, one that has passed the check of a circuit has the right      *)
(* output, and one that returns from an opening the right word, whatever   *)
(* the others are doing (mal.rs: "a corrupt minority can stop the          *)
(* computation but not skew it").                                          *)
THEOREM ResultsRight == Spec => []VerifiedRight
<1>1. ASSUME IInv, NEW p \in Parties
      PROVE  /\ Zero(pool[p])
             /\ Checked(p) => z[p] = Clear
             /\ at[p] = "done" => shown[p] = 0
  <2>1. SyncInv /\ ContentInv
    BY <1>1 DEF IInv
  <2>2. CASE Calm(p)
    BY <2>2 DEF Calm
  <2>3. CASE Untouched \/ HashChanged
    BY <2>2, <2>3 DEF Untouched, HashChanged, Quiet, Rested
  <2>4. CASE InFlight
    BY <2>2, <2>4 DEF InFlight, Rested
  <2>5. CASE Spoiled
    BY <2>2, <2>5 DEF Spoiled, Rested, Parties
  <2>6. CASE \E end \in Closings : \E pos \in 1..Logged(end) : Marked(end, pos)
    BY <2>1, <2>6, MarkedRight
  <2> QED BY <2>1, <2>3, <2>4, <2>5, <2>6 DEF ContentInv
<1>2. IInv => VerifiedRight
  BY <1>1, Zenon DEF VerifiedRight, Zero
<1> QED BY <1>2, ContentsFollowed, PTL

(* A changed item, wherever it is, makes the evaluation it is part of fail *)
(* (tests/malicious.rs, any_corrupted_bit_aborts).                         *)
THEOREM ChangesAbort == Spec => []CorruptionAborts
<1>1. IInv => CorruptionAborts
  <2> SUFFICES ASSUME IInv, flips > 0 PROVE \E p \in Parties : at[p] # "done"
    BY DEF CorruptionAborts
  <2>0. 0 \in Parties /\ 2 \in Parties
    BY DEF Parties
  <2>1. SyncInv /\ ContentInv
    BY DEF IInv
  <2>2. CASE HashChanged
    <3>1. PICK q \in {0, 2} : Refused(q)
      BY <2>2 DEF HashChanged
    <3>2. at[q] # "done"
      BY <3>1 DEF Refused, Ended, Listening, Exchanges
    <3> QED BY <2>0, <3>1, <3>2
  <2>3. CASE InFlight
    BY <2>0, <2>3 DEF InFlight, Ended
  <2>4. CASE Spoiled
    BY <2>0, <2>4 DEF Spoiled
  <2>5. CASE \E end \in Closings : \E pos \in 1..Logged(end) : Marked(end, pos)
    BY <2>0, <2>1, <2>5, MarkHolds
  <2> QED BY <2>1, <2>2, <2>3, <2>4, <2>5 DEF ContentInv
<1> QED BY <1>1, ContentsFollowed, PTL

(* Within a process nobody aborts without a changed item: a party that     *)
(* returns and drops its wires, or is a round ahead, disturbs no other     *)
(* (run_parties, engine.rs).                                               *)
THEOREM OthersNeverAbort == Spec => []OnlyCorruptionAborts
<1>1. IInv => OnlyCorruptionAborts
  <2> SUFFICES ASSUME IInv, flips = 0, transport = "channel", NEW p \in Parties
               PROVE  at[p] # "aborted"
    BY Zenon DEF OnlyCorruptionAborts
  <2>1. Untouched
    BY DEF IInv, ContentInv
  <2> QED BY <2>1, Zenon DEF Untouched
<1> QED BY <1>1, ContentsFollowed, PTL
=============================================================================
