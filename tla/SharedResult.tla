---------------------------- MODULE SharedResult ----------------------------
(***************************************************************************)
(* What an evaluation backend of the engine promises (the traits           *)
(* PartyBackend and Backend of engine/src/engine.rs): every party returns  *)
(* once, with its pairs of components or with an abort, and parties that   *)
(* return with components hold one replicated sharing of the right words.  *)
(* Two parties' pairs are the whole sharing.                               *)
(***************************************************************************)
EXTENDS Rep3

VARIABLES
    right,      \* the words the evaluation is to compute, by position
    out         \* party -> what it has returned

Pending == [status |-> "pending"]
Aborted == [status |-> "aborted"]
Result(pairs) == [status |-> "returned", pairs |-> pairs]
Returned(p) == out[p].status = "returned"

Init == out = [p \in Parties |-> Pending]

(* p and its next party share component p+1; the third component is the    *)
(* next party's second one.                                                *)
Fits(p, i) ==
    LET mine == out[p].pairs[i]  theirs == out[NextOf(p)].pairs[i]
    IN mine[2] = theirs[1] /\ mine[1] ## mine[2] ## theirs[2] = right[i]

Agreement ==
    \A p \in Parties :
        Returned(p) /\ Returned(NextOf(p)) => \A i \in DOMAIN right : Fits(p, i)

Return(p) ==
    /\ out[p] = Pending
    /\ out'[p] # Pending
    /\ \A q \in Parties \ {p} : out'[q] = out[q]
    /\ Agreement'
    /\ UNCHANGED right

Next == \E p \in Parties : Return(p)

Spec == Init /\ [][Next]_<<right, out>>
=============================================================================
