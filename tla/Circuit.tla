------------------------------ MODULE Circuit ------------------------------
(***************************************************************************)
(* Boolean circuits as bristol.rs holds them, the schedule by AND depth    *)
(* that engine.rs evaluates them along, and one party's part of that       *)
(* evaluation.  Inputs occupy the lowest wires in order, outputs the       *)
(* highest; all is the set of lanes a word has.                            *)
(***************************************************************************)
EXTENDS Rep3, SequencesExt

XorGate(x, y, o) == [op |-> "xor", in |-> {x, y}, left |-> x, right |-> y, out |-> o]
AndGate(x, y, o) == [op |-> "and", in |-> {x, y}, left |-> x, right |-> y, out |-> o]
InvGate(x, o)    == [op |-> "inv", in |-> {x}, left |-> x, right |-> x, out |-> o]

(* A circuit: wires (their number), inputs and outputs (sizes), gates.     *)
Wires(c) == 0..(c.wires - 1)
Total(sizes) == FoldLeft(LAMBDA a, b : a + b, 0, sizes)
InputOffset(c, k) == Total(SubSeq(c.inputs, 1, k))
OutputOffset(c, k) == c.wires - Total(c.outputs) + Total(SubSeq(c.outputs, 1, k))

(* What the circuit files promise and the parser does not check: the gates *)
(* are in topological order, each with a wire of its own for its output,   *)
(* past the inputs' wires.                                                 *)
Gates(c) ==
    {XorGate(x, y, o) : x, y, o \in Wires(c)} \cup {AndGate(x, y, o) : x, y, o \in Wires(c)}
        \cup {InvGate(x, o) : x, o \in Wires(c)}
Formed(c) ==
    /\ c.wires \in Nat /\ c.gates \in Seq(Gates(c))
    /\ \A i, j \in DOMAIN c.gates :
        /\ i # j => c.gates[i].out # c.gates[j].out
        /\ i <= j => c.gates[j].out \notin c.gates[i].in
    /\ \A i \in DOMAIN c.gates : c.gates[i].out >= Total(c.inputs)

(* eval_clear: what the wires have for clear inputs, and the outputs.      *)
ClearValue(g, t, all) ==
    CASE g.op = "xor" -> t[g.left] ## t[g.right]
      [] g.op = "and" -> t[g.left] \cap t[g.right]
      [] g.op = "inv" -> t[g.left] ## all

ClearTable(c, inputs, all) ==
    LET given == FlattenSeq(inputs)
        start == [w \in Wires(c) |-> IF w < Len(given) THEN given[w + 1] ELSE {}]
    IN FoldLeft(LAMBDA t, g : [t EXCEPT ![g.out] = ClearValue(g, t, all)], start, c.gates)

EvalClear(c, inputs, all) ==
    LET end == ClearTable(c, inputs, all)
    IN [i \in 1..Total(c.outputs) |-> end[OutputOffset(c, 0) + i - 1]]

-----------------------------------------------------------------------------
(* The schedule: a wire is available after as many rounds as the ANDs on   *)
(* the longest path to it; a gate belongs to the round its inputs exist    *)
(* after.                                                                  *)
ReadyAt(avail, g) == Max({avail[w] : w \in g.in})

AvailableAt(avail, g) == ReadyAt(avail, g) + (IF g.op = "and" THEN 1 ELSE 0)

Available(c) ==
    FoldLeft(LAMBDA a, g : [a EXCEPT ![g.out] = AvailableAt(a, g)],
             [w \in Wires(c) |-> 0], c.gates)

(* The ANDs, or the other gates, of a round, in the circuit's order.       *)
Belongs(g, avail, r, ands) == ReadyAt(avail, g) = r /\ ((g.op = "and") <=> ands)
Lane(c, avail, r, ands) ==
    FoldLeft(LAMBDA l, g : IF Belongs(g, avail, r, ands) THEN Append(l, g) ELSE l,
             << >>, c.gates)

Schedule(c) ==
    LET avail == Available(c)
        depth == Max({avail[w] : w \in Wires(c)})
    IN [depth  |-> depth,
        locals |-> [r \in 0..depth |-> Lane(c, avail, r, FALSE)],
        ands   |-> [r \in 0..depth |-> Lane(c, avail, r, TRUE)]]

-----------------------------------------------------------------------------
(* One party's tape has a pair of components for every wire.  A NOT is    *)
(* the XOR of a public constant.                                           *)
LocalValue(p, g, t, all) ==
    IF g.op = "xor" THEN PairXor(t[g.left], t[g.right])
                    ELSE PairXor(t[g.left], PublicPair(p, all))

LocalGates(p, gates, t, all) ==
    FoldLeft(LAMBDA tape, g : [tape EXCEPT ![g.out] = LocalValue(p, g, tape, all)], t, gates)

(* Mutant of Product: one of the cross terms is missing. *)
ProductShort(g, t, zero) ==
    LET x == t[g.left]  y == t[g.right]
    IN (x[1] \cap y[1]) ## (x[1] \cap y[2]) ## zero

(* A party's additive share of an AND, hidden by its zero share.           *)
Product(g, t, zero) ==
    LET x == t[g.left]  y == t[g.right]
    IN (x[1] \cap y[1]) ## (x[1] \cap y[2]) ## (x[2] \cap y[1]) ## zero

(* The products of a round become first components; what the next party    *)
(* sends of its own, the second ones.                                      *)
WithComponent(t, ands, i, words) ==
    [w \in DOMAIN t |->
        IF \E k \in DOMAIN ands : ands[k].out = w
          THEN [t[w] EXCEPT ![i] = words[CHOOSE k \in DOMAIN ands : ands[k].out = w]]
          ELSE t[w]]
=============================================================================
