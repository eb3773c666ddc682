------------------------------- MODULE MalInv -------------------------------
(***************************************************************************)
(* Why the malicious backend is right: the inductive invariant of Mal.     *)
(* Parties go through the same rounds in the same order, whatever is       *)
(* changed; so a wire holds the messages of consecutive rounds, from the   *)
(* one its reader is in to the one its writer is in.  And an item that was *)
(* changed leaves a trace that no party gets past: a changed hash, a wrong *)
(* triple, or a value that party 0 has opened otherwise than the others.   *)
(***************************************************************************)
EXTENDS Mal

-----------------------------------------------------------------------------
(* The rounds.  A round is named by its tag; stocks are the same at every  *)
(* party, so evaluation e starts with a refill at all of them or at none.  *)
Batch == MaxOf(Levels, MinBatch)
StockAt(e) == (-(e * Levels)) % Batch
Refills(e) == StockAt(e) < Levels
CountIn(e) == Target(StockAt(e))
Filled(e) == StockAt(e) + (IF Refills(e) THEN CountIn(e) ELSE 0)

First(e) == IF Refills(e) THEN <<e, "triples", 0>> ELSE <<e, "level", 1>>

After(t) ==
    CASE t[2] = "triples" -> <<t[1], "coin", 0>>
      [] t[2] = "coin"    -> <<t[1], "cut", 0>>
      [] t[2] = "cut"     -> <<t[1], "pairs", 0>>
      [] t[2] = "pairs"   -> <<t[1], "zero", 0>>
      [] t[2] = "zero"    -> <<t[1], "views", 0>>
      [] t[2] = "views"   -> <<t[1], "level", 1>>
      [] t[2] = "level"   -> IF t[3] < Levels THEN <<t[1], "level", t[3] + 1>>
                                              ELSE <<t[1], "check", 0>>
      [] t[2] = "check"   -> IF transport = "tcp"
                               THEN IF t[1] + 1 < Evals THEN First(t[1] + 1)
                                                        ELSE <<t[1] + 1, "hand", 0>>
                               ELSE <<t[1] + 1, IF Opening THEN "open" ELSE "done", 0>>
      [] t[2] = "open"    -> <<t[1], "shown", 0>>
      [] t[2] = "shown"   -> <<t[1], "done", 0>>
      [] OTHER            -> t

(* The next round, this one included, in which hashes are exchanged.       *)
NextExchange(t) ==
    CASE t[2] \in Generating      -> <<t[1], "zero", 0>>
      [] t[2] = "level"           -> <<t[1], "check", 0>>
      [] t[2] = "open"            -> <<t[1], "shown", 0>>
      [] OTHER                    -> t

(* Within a process rounds are in order. *)
Rank(t) ==
    CASE t[2] = "open"    -> 0
      [] t[2] = "shown"   -> 1
      [] t[2] = "done"    -> 2
      [] t[2] = "triples" -> 3
      [] t[2] = "coin"    -> 4
      [] t[2] = "cut"     -> 5
      [] t[2] = "pairs"   -> 6
      [] t[2] = "zero"    -> 7
      [] t[2] = "views"   -> 8
      [] t[2] = "level"   -> 8 + t[3]
      [] OTHER            -> 9 + Levels
Before(t, u) == t[1] < u[1] \/ (t[1] = u[1] /\ Rank(t) < Rank(u))
NotAfter(t, u) == t[1] < u[1] \/ (t[1] = u[1] /\ Rank(t) <= Rank(u))

(* How many items a round's messages have, and how many values have been   *)
(* opened before it since the last check of views.                         *)
PairsIn(e) == CountIn(e) * (Bucket - 1)
RefillOpens(e) == 1 + 3 * Cut + 2 * PairsIn(e)
Logged(t) ==
    CASE t[2] = "cut"               -> 1
      [] t[2] = "pairs"             -> 1 + 3 * Cut
      [] t[2] \in {"zero", "views"} -> RefillOpens(t[1])
      [] t[2] = "level"             -> 2 * (t[3] - 1)
      [] t[2] = "check"             -> 2 * Levels
      [] t[2] = "shown"             -> 1
      [] OTHER                      -> 0
Size(t) ==
    CASE t[2] = "triples" -> CountIn(t[1]) * Bucket + Cut
      [] t[2] = "cut"     -> 3 * Cut
      [] t[2] = "pairs"   -> 2 * PairsIn(t[1])
      [] t[2] = "zero"    -> PairsIn(t[1])
      [] t[2] \in {"level", "hand"}             -> 2
      [] t[2] \in {"coin", "open"}              -> 1
      [] t[2] \in {"views", "check", "shown"}   -> Logged(t)

Tags ==
    {t \in (0..Evals) \X Rounds \X (0..Levels) : (t[2] = "level") <=> (t[3] > 0)}

-----------------------------------------------------------------------------
(* What a party sends in a round, as it may arrive. *)
MessagesIn(t) ==
    [tag : {t}, body : Vectors(Size(t)),
     changed : IF t[2] \in Exchanges THEN BOOLEAN ELSE {FALSE}]
Messages == [tag : Tags, body : Seq(Errors), changed : BOOLEAN]

(* Where a party is, and what it has there. *)
SubsIn(round) ==
    CASE round \in Resharing -> {"send", "fromNext"}
      [] round \in Exchanges -> {"send", "sendNext", "fromPrev", "fromNext"}
      [] round = "hand"      -> {"send", "exit"}
      [] OTHER               -> {"send"}
RefillRounds == Generating \cup {"zero", "views"}
Drawn == RefillRounds \ {"triples"}     \* with triples to be checked
StockIn(t) ==
    CASE t[2] = "level" -> Filled(t[1]) - (t[3] - 1)
      [] t[2] = "check" -> Filled(t[1]) - Levels
      [] OTHER          -> StockAt(t[1])

PlaceInv(p) ==
    /\ sub[p] \in SubsIn(at[p])
    /\ at[p] \in RefillRounds \cup {"level", "check"} => done[p] < Evals
    /\ at[p] \in RefillRounds => Refills(done[p]) /\ count[p] = CountIn(done[p])
    /\ at[p] \in {"open", "shown"} => transport = "channel" /\ Opening /\ done[p] > 0
    /\ at[p] = "hand" => transport = "tcp" /\ done[p] = Evals
    /\ at[p] = "done" => done[p] > 0
    /\ at[p] \notin {"level", "aborted"} => level[p] = 1
    /\ at[p] # "aborted" => /\ Len(pool[p]) = StockIn(Tag(p))
                            /\ Len(log[p]) = Logged(Tag(p))
    /\ at[p] \in Drawn => triples[p] \in Vectors(Generated(p))
    /\ at[p] \notin Drawn \cup {"aborted"} => triples[p] = NoVector
    /\ at[p] \in {"zero", "views"} => zeros[p] \in [Pairs(p) -> Errors \X Errors]
    /\ at[p] \in Exchanges /\ sub[p] = "fromNext" => heard[p] \in MessagesIn(Tag(p))

-----------------------------------------------------------------------------
(* What is on its way. *)
Msgs(q, p) == wire[<<q, p>>] \o queued[<<q, p>>]

(* q sends to its previous neighbour in every round, to its next one in an *)
(* exchange; p needs from each what is due on that link.                   *)
Due(q, p, t) == IF p = PrevOf(q) THEN t ELSE NextExchange(t)
Following(q, p, t) == Due(q, p, After(t))
HasSent(q, p) ==
    IF p = PrevOf(q) THEN sub[q] # "send" ELSE sub[q] \in {"fromPrev", "fromNext", "exit"}
HasRead(p, q) == q = PrevOf(p) /\ sub[p] = "fromNext"
ToSend(q, p) == IF HasSent(q, p) THEN Following(q, p, Tag(q)) ELSE Due(q, p, Tag(q))
ToRead(p, q) == IF HasRead(p, q) THEN Following(q, p, Tag(p)) ELSE Due(q, p, Tag(p))

(* A party whose messages all arrive, if it has ended at all.              *)
Complete(q) == at[q] # "aborted" /\ (at[q] = "done" => transport = "channel")

LinkInv(q, p) ==
    LET w == Msgs(q, p)
    IN /\ ~Ended(p) =>
            /\ w # << >> => w[1].tag = ToRead(p, q)
            /\ \A i \in 1..(Len(w) - 1) : w[i + 1].tag = Following(q, p, w[i].tag)
            /\ Complete(q) => ToSend(q, p) = IF w = << >> THEN ToRead(p, q)
                                             ELSE Following(q, p, w[Len(w)].tag)
       /\ transport = "channel" /\ Complete(q) =>
            /\ Complete(p) => NotAfter(ToRead(p, q), ToSend(q, p))
            /\ ~Ended(p) => \A i \in 1..Len(w) : Before(w[i].tag, ToSend(q, p))

OrderInv ==
    /\ wire \in [Links -> Seq(Messages)] /\ queued \in [Links -> Seq(Messages)]
    /\ gone = {p \in Parties : Ended(p)}
    /\ transport = "channel" => queued = [l \in Links |-> << >>] /\ reset = {}
    /\ \A q, p \in Parties : q # p =>
          /\ \A i \in DOMAIN Msgs(q, p) : Msgs(q, p)[i] \in MessagesIn(Msgs(q, p)[i].tag)
          /\ LinkInv(q, p)

(* What TypeOK leaves open. *)
Shapes ==
    /\ heard = [p \in Parties |-> heard[p]] /\ zeros = [p \in Parties |-> zeros[p]]
    /\ triples = [p \in Parties |-> triples[p]] /\ pool = [p \in Parties |-> pool[p]]
    /\ log = [p \in Parties |-> log[p]]

SyncInv == TypeOK /\ Shapes /\ (\A p \in Parties : PlaceInv(p)) /\ OrderInv

-----------------------------------------------------------------------------
(* What the shares are worth. *)
Zero(f) == \A i \in DOMAIN f : f[i] = 0

(* Nothing is wrong in what party p works on, or in what it has verified.  *)
Calm(p) ==
    /\ Zero(pool[p]) /\ Zero(log[p]) /\ ~astray[p]
    /\ z[p] = Clear /\ shown[p] = 0
Rested(p) == Calm(p) /\ Zero(triples[p]) /\ \A k \in DOMAIN zeros[p] : zeros[p][k] = Clear

(* Nor in what it has heard, and in what is on its way.                    *)
Listening(p) == at[p] \in Exchanges /\ sub[p] = "fromNext"
HeardZero(p) == Listening(p) => Zero(heard[p].body)
Clean(q, p) == \A i \in DOMAIN Msgs(q, p) : Zero(Msgs(q, p)[i].body)
Quiet ==
    \A p \in Parties : Rested(p) /\ HeardZero(p) /\ \A q \in Parties \ {p} : Clean(q, p)

(* No item has been changed, and within a process nobody has aborted.      *)
Untouched ==
    /\ Quiet
    /\ transport = "channel" => \A p \in Parties : at[p] # "aborted"
    /\ \A p \in Parties : Listening(p) => ~heard[p].changed
    /\ \A q, p \in Parties : q # p => \A i \in DOMAIN Msgs(q, p) : ~Msgs(q, p)[i].changed

(* Party 0 or 2 has aborted, or is about to hear a changed hash.           *)
Refused(q) ==
    \/ at[q] = "aborted"
    \/ ~Ended(q) /\ \E i \in DOMAIN Msgs(1, q) : Msgs(1, q)[i].changed
    \/ Listening(q) /\ heard[q].changed
HashChanged == Quiet /\ \E q \in {0, 2} : Refused(q)

(* A changed word is on its way to party 0. *)
OneWrong(f) == \E i \in DOMAIN f : \A j \in DOMAIN f : f[j] = IF j = i THEN 1 ELSE 0
InFlight ==
    /\ ~Ended(0)
    /\ \A p \in Parties : /\ Rested(p) /\ HeardZero(p)
                          /\ \A q \in Parties \ {p} : <<q, p>> # <<1, 0>> => Clean(q, p)
    /\ \E k \in DOMAIN Msgs(1, 0) :
          /\ Msgs(1, 0)[k].tag[2] \in Resharing /\ OneWrong(Msgs(1, 0)[k].body)
          /\ \A i \in DOMAIN Msgs(1, 0) \ {k} : Zero(Msgs(1, 0)[i].body)

(* One of party 0's triples is wrong: it will be found when the triples    *)
(* are opened, or when its bucket is checked.                              *)
CutOpens(j) == [i \in 1..(3 * Cut) |-> IF i = 3 * j THEN 1 ELSE 0]
WrongTriple(j) ==
    /\ \A i \in DOMAIN triples[0] : triples[0][i] = IF i = j THEN 1 ELSE 0
    /\ j <= Cut => at[0] \notin {"pairs", "zero"}
    /\ \A i \in DOMAIN Msgs(0, 2) : Msgs(0, 2)[i].tag[2] \in Resharing =>
          \/ Zero(Msgs(0, 2)[i].body)
          \/ Msgs(0, 2)[i].tag[2] = "cut" /\ j <= Cut /\ Msgs(0, 2)[i].body = CutOpens(j)
Spoiled ==
    /\ Calm(0) /\ HeardZero(0)
    /\ \A q \in {1, 2} : Rested(q) /\ \A p \in Parties \ {q} : Clean(q, p)
    /\ at[0] \in {"coin", "cut", "pairs", "zero", "aborted"}
    /\ \E j \in DOMAIN triples[0] : WrongTriple(j)
    /\ at[0] = "zero" => \E k \in DOMAIN zeros[0] : zeros[0][k][2] = 1

(* Party 0 has opened value pos of a segment of an evaluation otherwise    *)
(* than the others; nobody gets past the check of views that ends it.      *)
Segment(t) ==
    CASE t[2] \in RefillRounds       -> "views"
      [] t[2] \in {"level", "check"} -> "check"
      [] t[2] \in {"open", "shown"}  -> "shown"
      [] OTHER                       -> "none"
In(t, end) == t[1] = end[1] /\ Segment(t) = end[2]
Closings == {<<e, round, 0>> : e \in 0..Evals, round \in {"views", "check", "shown"}}
Closes(end) == (end[2] = "views" => Refills(end[1])) /\ (end[2] = "shown" => Opening)

(* Behind the mark all that is opened so far is right, and after it        *)
(* anything may be.                                                        *)
MarkedParty(p, end, pos) ==
    /\ Zero(pool[p]) /\ Zero(triples[p])
    /\ p # 0 => shown[p] = 0
    /\ at[p] # "aborted" =>
          /\ NotAfter(Tag(p), end)
          /\ p = 0 => In(Tag(p), end) /\ Len(log[p]) >= pos
          /\ In(Tag(p), end) => \A i \in DOMAIN log[p] :
                i <= pos => log[p][i] = IF p = 0 /\ i = pos THEN 1 ELSE 0
          /\ astray[p] \/ z[p] # Clear => In(Tag(p), end) /\ Len(log[p]) >= pos
          /\ z[p] # Clear => end[2] = "check"
    /\ Tag(p) = end /\ sub[p] = "fromNext" => heard[p].body[pos] = IF p = 1 THEN 1 ELSE 0
MarkedLink(q, p, end, pos) ==
    \A i \in DOMAIN Msgs(q, p) :
        LET m == Msgs(q, p)[i]
        IN /\ m.tag[2] \in Resharing => Zero(m.body) \/ (In(m.tag, end) /\ Logged(m.tag) >= pos)
           /\ m.tag = end => m.body[pos] = IF q = 0 THEN 1 ELSE 0
Marked(end, pos) ==
    /\ Closes(end)
    /\ \A p \in Parties : /\ MarkedParty(p, end, pos)
                          /\ \A q \in Parties \ {p} : MarkedLink(q, p, end, pos)

ContentInv ==
    \/ flips = 0 /\ Untouched
    \/ /\ flips = 1 /\ transport = "channel"
       /\ \/ HashChanged \/ InFlight \/ Spoiled
          \/ \E end \in Closings : \E pos \in 1..Logged(end) : Marked(end, pos)

(* Within a process nothing stays on its way to a party that has ended.    *)
Emptied ==
    transport = "channel" =>
        \A q, p \in Parties : q # p /\ Ended(p) => Msgs(q, p) = << >>

IInv == SyncInv /\ Emptied /\ ContentInv
=============================================================================
