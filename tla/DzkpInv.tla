------------------------------ MODULE DzkpInv ------------------------------
(***************************************************************************)
(* Why the parties of Dzkp stay in step.  What a party does next depends   *)
(* on numbers that all of them share and on the coins, and a coin that is  *)
(* accepted is the one that was dealt.  So there is one course of stages   *)
(* for all three; each goes along it, passing over the stages in which it  *)
(* has nothing to read, and a link carries the messages of the stages from *)
(* its reader's to its writer's.                                           *)
(***************************************************************************)
EXTENDS Dzkp

(* What of a party's state its way depends on.                             *)
ControlOf(s) ==
    [at |-> s.at, phase |-> s.phase, prover |-> s.prover, round |-> s.round, coins |-> s.coins,
     len |-> s.len, logs |-> Len(s.log)]

TrueCoin(coin, k) == Gf64(coin[0][k] ## coin[1][k] ## coin[2][k])

FirstStage ==
    [at |-> "start", phase |-> 0, prover |-> 0, round |-> 0, coins |-> 1, len |-> 0, logs |-> 0]
LevelStage(g, f) == [g EXCEPT !.at = "level", !.phase = f, !.logs = @ + Len(Sched.ands[f])]
InstanceStage(g, k) ==
    [g EXCEPT !.at = "proof", !.prover = k, !.round = 1, !.len = 2 * (LaneWidth * g.logs)]
CoinStage(g, rho) ==
    IF MustRedraw(0, g, rho) THEN [g EXCEPT !.coins = @ + 1]
    ELSE IF IsBase(g) THEN [g EXCEPT !.at = "evals", !.coins = @ + 1]
    ELSE [g EXCEPT !.at = "proof", !.coins = @ + 1, !.round = @ + 1, !.len = Blocks(@, B)]

(* The stage after g, whoever takes part in it.                            *)
NextStage(coin, g) ==
    CASE g.at = "start" -> LevelStage(g, 0)
      [] g.at = "level" -> IF g.phase + 1 < Sched.depth THEN LevelStage(g, g.phase + 1)
                           ELSE [g EXCEPT !.at = "seed", !.phase = @ + 1]
      [] g.at = "seed" -> InstanceStage([g EXCEPT !.coins = @ + 1], 0)
      [] g.at = "proof" -> [g EXCEPT !.at = "residual"]
      [] g.at = "residual" -> [g EXCEPT !.at = "coin"]
      [] g.at = "coin" -> CoinStage(g, TrueCoin(coin, g.coins))
      [] g.at = "evals" -> IF g.prover < LastProver THEN InstanceStage(g, g.prover + 1)
                           ELSE [g EXCEPT !.at = "open", !.len = 0, !.logs = 0]
      [] OTHER -> [g EXCEPT !.at = "done"]

Course(c, coin) == c[0] = FirstStage /\ \A k \in Nat : c[k + 1] = NextStage(coin, c[k])

(* The prover has nothing to read while the verifiers check.               *)
TakesPart(g, p) == g.at \in {"proof", "residual", "evals"} => p # g.prover

(* In stage g, p reads a message from q.                                   *)
Sends(g, q, p) ==
    \/ g.at = "level" /\ q = NextOf(p)
    \/ g.at \in {"seed", "coin", "open"} /\ q # p
    \/ g.at = "proof" /\ q = g.prover /\ q # p
    \/ g.at \in {"residual", "evals"} /\ q # p /\ g.prover \notin {p, q}

(* The message from q to p of stage g.  What party 1 says of a coin need   *)
(* not be true.                                                            *)
IsMessage(m, g, coin, q, p) ==
    /\ Sends(g, q, p) /\ DOMAIN m = {"tag", "body"} /\ m.tag = Tag(g.at, g)
    /\ q # 1 /\ g.at \in {"seed", "coin"} => m.body = <<coin[NextOf(p)][g.coins]>>

(* w holds the messages from q to p of the stages a to b, in order.        *)
Holds(w, c, coin, q, p, a, b) ==
    \E f \in [1..Len(w) -> Nat] :
        /\ \A i \in 1..Len(w) :
            /\ f[i] \in a..b /\ IsMessage(w[i], c[f[i]], coin, q, p)
            /\ \A j \in 1..Len(w) : i < j => f[i] < f[j]
        /\ \A k \in a..b : Sends(c[k], q, p) => \E i \in 1..Len(w) : f[i] = k

-----------------------------------------------------------------------------
Fields ==
    {"at", "phase", "prover", "round", "coins", "draws", "prng", "tape", "log", "seed", "u", "v",
     "len", "tau", "pi", "mine"}
IsSeq(w) == \E S : w \in Seq(S)
IsState(s) ==
    /\ DOMAIN s = Fields /\ s.phase \in Nat /\ s.prover \in Parties /\ IsSeq(s.log)
    /\ s.at = "start" => s.phase = 0

FormInv ==
    /\ transport = "channel" /\ gone = {p \in Parties : Ended(p)}
    /\ DOMAIN wire = Links /\ \A l \in Links : IsSeq(wire[l])
    /\ DOMAIN me = Parties /\ \A p \in Parties : IsState(me[p])

(* Party p is at stage n[p] of the course.                                 *)
OnCourse(c, n, p) ==
    me[p].at # "aborted" => ControlOf(me[p]) = c[n[p]] /\ TakesPart(c[n[p]], p)

(* The link carries the stages from the reader's to the writer's, and the  *)
(* reader has passed none by; an aborted writer may have stopped earlier.  *)
Link(c, n, q, p) ==
    \E b \in Nat :
        /\ Holds(wire[<<q, p>>], c, random.coin, q, p, n[p], b)
        /\ \A k \in 0..(n[p] - 1) : Sends(c[k], q, p) => k <= b
        /\ me[q].at # "aborted" => b = n[q]

Follows(c, n) ==
    /\ Course(c, random.coin) /\ n \in [Parties -> Nat]
    /\ \A p \in Parties : OnCourse(c, n, p)
    /\ \A q, p \in Parties : q # p /\ ~Ended(p) => Link(c, n, q, p)

IInv == FormInv /\ \E c, n : Follows(c, n)
=============================================================================
