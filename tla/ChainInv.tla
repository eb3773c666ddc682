------------------------------ MODULE ChainInv ------------------------------
(***************************************************************************)
(* Why the parties of Chain stay in lockstep.  Nothing a party computes    *)
(* depends on when its neighbours run, so there is one undisturbed course  *)
(* of all three, round by round; a party that is in round n has what the   *)
(* course has before round n, and the wire it reads holds the messages of  *)
(* the rounds from n to where its neighbour is.                            *)
(***************************************************************************)
EXTENDS Chain

Depth == Sched.depth

(* The rounds are numbered: hash h takes rounds (h - 1) * Depth onwards.   *)
Round(h, f) == (h - 1) * Depth + f
HashIn(n) == n \div Depth + 1
PhaseIn(n) == n % Depth

(* One round of party p that has tape t and has drawn d zero shares: the   *)
(* tape after the local gates, the products it sends, its tape then.       *)
LocalsOf(p, t, h, f) == LocalGates(p, Sched.locals[f], t, All(h))
ProductsOf(p, t, d, h, f) ==
    [k \in DOMAIN Sched.ands[f] |->
        Product(Sched.ands[f][k], LocalsOf(p, t, h, f),
                ZeroWord(random.stream, p, d + k) \cap All(h))]
FirstsIn(p, t, d, h, f) ==
    WithComponent(LocalsOf(p, t, h, f), Sched.ands[f], 1, ProductsOf(p, t, d, h, f))

(* A round of all three from state g: every party takes what its next one  *)
(* sends; the last round of a hash leads to the next hash.                 *)
SentIn(g, p, h, f) == ProductsOf(p, g.tape[p], g.draws, h, f)
TapeIn(g, p, h, f) ==
    WithComponent(FirstsIn(p, g.tape[p], g.draws, h, f), Sched.ands[f], 2,
                  SentIn(g, NextOf(p), h, f))
ValueIn(g, p, h, f) ==
    AfterHash(g.x[p], Extract(LocalGates(p, Sched.locals[Depth], TapeIn(g, p, h, f), All(h))), h)

Together(g, h, f) ==
    IF f + 1 < Depth
      THEN [x |-> g.x, draws |-> g.draws + Len(Sched.ands[f]),
            tape |-> [p \in Parties |-> TapeIn(g, p, h, f)]]
      ELSE [x |-> [p \in Parties |-> ValueIn(g, p, h, f)],
            draws |-> g.draws + Len(Sched.ands[f]),
            tape |-> [p \in Parties |-> Begun(p, ValueIn(g, p, h, f), h + 1)]]

(* The shares dealt at the start; the course from there, up to round N.    *)
Dealt ==
    [p \in Parties |-> [m \in Entries |->
        ShareWord(IF m \in seed THEN {0} ELSE {},
                  random.deal[m][1] \cap Lanes(1), random.deal[m][2] \cap Lanes(1))[p]]]
Start == [x |-> Dealt, draws |-> 0, tape |-> [p \in Parties |-> Begun(p, Dealt[p], 1)]]
Course(c, N) ==
    /\ c[0] = Start
    /\ \A n \in 0..(N - 1) : c[n + 1] = Together(c[n], HashIn(n), PhaseIn(n))

Message(c, p, n) ==
    [tag |-> <<HashIn(n), PhaseIn(n)>>, words |-> SentIn(c[n], p, HashIn(n), PhaseIn(n))]

-----------------------------------------------------------------------------
RoundOf(p) == Round(hash[p], phase[p])
SentBy(p) == RoundOf(p) + (IF at[p] = "read" THEN 1 ELSE 0)
Ended(p) == at[p] \in {"done", "aborted"}

(* Where the parties are: within a hash, or at the end.                    *)
PlacesInv ==
    /\ transport = "channel"
    /\ at \in [Parties -> {"send", "read", "done", "aborted"}]
    /\ hash \in [Parties -> 1..(Hashes + 1)] /\ phase \in [Parties -> 0..(Depth - 1)]
    /\ \A p \in Parties :
        /\ at[p] \in {"send", "read"} => hash[p] \in 1..Hashes
        /\ at[p] = "done" => hash[p] = Hashes + 1 /\ phase[p] = 0
    /\ gone = {p \in Parties : Ended(p)}
    /\ DOMAIN wire = Links
    /\ x = [p \in Parties |-> x[p]] /\ tape = [p \in Parties |-> tape[p]]
    /\ draws = [p \in Parties |-> draws[p]]

(* Party p is where the course c is in p's round.                          *)
OnCourse(c, p) ==
    LET g == c[RoundOf(p)]
    IN /\ at[p] # "aborted" => x[p] = g.x[p]
       /\ at[p] \in {"send", "done"} => draws[p] = g.draws
       /\ at[p] = "read" => draws[p] = g.draws + Len(Sched.ands[phase[p]])
       /\ at[p] = "send" => tape[p] = g.tape[p]
       /\ at[p] = "read" => tape[p] = FirstsIn(p, g.tape[p], g.draws, hash[p], phase[p])

(* The wire p reads holds the messages of the rounds from p's on, up to    *)
(* the last that its neighbour has sent.                                   *)
WireHolds(c, p) ==
    LET q == NextOf(p)
        w == wire[<<q, p>>]
    IN IF Ended(p) THEN w = << >>
       ELSE /\ \A i \in 1..Len(w) : w[i] = Message(c, q, RoundOf(p) + i - 1)
            /\ at[q] # "aborted" => Len(w) = SentBy(q) - RoundOf(p)
            /\ w \in Seq({Message(c, q, n) : n \in Nat})

LastRound == Round(Hashes + 1, 0)
Follows(c) ==
    /\ Course(c, LastRound)
    /\ \A p \in Parties : OnCourse(c, p) /\ WireHolds(c, p)
CourseInv == \E c : Follows(c)

IInv == PlacesInv /\ CourseInv
=============================================================================
