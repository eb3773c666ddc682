----------------------------- MODULE PlannerInv -----------------------------
(***************************************************************************)
(* The inductive invariant behind the planner's safety properties: what    *)
(* holds between two iterations of the loops, not only between operations. *)
(***************************************************************************)
EXTENDS Planner

(* Ids are fresh: everything that carries a vid carries one already        *)
(* minted, and the ids of the plan under construction were never shown.    *)
VidsMinted ==
    /\ \A v \in DOMAIN masked : v \in 0..(nextVid - 1)
    /\ \A v \in DOMAIN fresh : v \in 0..(nextVid - 1)
    /\ \A s \in seen : s[1] \in 0..(nextVid - 1)

FreshUnseen == \A s \in seen : s[1] \notin DOMAIN fresh

(* A subtree lies inside the index space. *)
InRange(stack) ==
    \A i \in DOMAIN stack : stack[i].prefix + Pow2[stack[i].depth] <= M + 1

(* The operations and the places in them that go together. *)
Control ==
    /\ pc = "idle" => kind = "none" /\ work = << >> /\ fresh = NoMap
    /\ pc \in {"walk", "rewalk"} => kind \in {"init", "restore"}
    /\ pc = "descend" => kind = "prepare"
    /\ pc = "run" => kind \in {"init", "restore", "prepare"}
    /\ kind = "init" => ~Opened
    /\ kind \in {"restore", "prepare"} => Opened
    /\ pc = "rewalk" => target \in 0..M /\ target > IndexOf(nextCommitment)
    /\ pc = "rewalk" => kind = "restore"

(* The seed walk: prefix is the index with the bits not visited cleared.   *)
WalkInv ==
    pc \in {"walk", "rewalk"} =>
        /\ prefix + Pow2[bit + 1] <= M + 1
        /\ target >= 0 =>
             /\ prefix <= target
             /\ target < prefix + Pow2[bit + 1]
             /\ \E q \in 0..M : prefix = q * Pow2[bit + 1]

(* The frames a plan collects tile what it has covered so far. *)
WorkTiles ==
    /\ pc = "walk" => /\ target = IndexOf(nextCommitment)
                      /\ TilesUpTo(work, prefix)
    /\ pc = "rewalk" \/ (pc = "run" /\ kind \in {"init", "restore"}) =>
          TilesUpTo(work, M + 1 - nextCommitment)
    /\ kind = "prepare" => /\ target = IndexOf(nextCommitment)
                           /\ work # << >>
                           /\ TilesUpTo(work, M + 1 - nextCommitment)
    /\ pc = "run" /\ kind = "prepare" => Top(work).depth = 0

IInv ==
    /\ TypeOK
    /\ VidsMinted
    /\ FreshUnseen
    /\ PadOnce
    /\ InRange(frames)
    /\ InRange(work)
    /\ Control
    /\ WalkInv
    /\ WorkTiles
    /\ Tiling

-----------------------------------------------------------------------------
(* What the ids stand for.  Everything public under an id, now or once the *)
(* plan under construction is revealed, is the value of the index the id   *)
(* is filed under.                                                         *)
Known == seen \cup Revealed
Names(vid, index) == \A s \in Known : s[1] = vid => IsValueOf(s[2], index)
Minted(vid) == vid \in 0..(nextVid - 1)

MaskedSeen == \A v \in DOMAIN masked : <<v, masked[v]>> \in seen

FramesNamed(stack) ==
    \A i \in DOMAIN stack : Minted(stack[i].vid) /\ Names(stack[i].vid, stack[i].prefix)

LeavesNamed(map) == \A c \in DOMAIN map : Minted(map[c]) /\ Names(map[c], IndexOf(c))

(* Pads are opened of leaves only, and of those whose turn has come.       *)
OpenedNamed ==
    \A v \in opened : Minted(v) /\
        \E c \in 0..(nextCommitment - 2) : c <= nextRelease /\ Names(v, IndexOf(c))

(* A subtree starts at a multiple of its size.                             *)
Aligned(stack) ==
    \A i \in DOMAIN stack : \E q \in 0..M : stack[i].prefix = q * Pow2[stack[i].depth]

(* The seed walk holds the value of the bits it has visited.               *)
Walked ==
    pc \in {"walk", "rewalk"} =>
        /\ IsValueOf(cur, prefix)
        /\ \E q \in 0..M : prefix = q * Pow2[bit + 1]

(* Init and restore hide all that they file under ids of the plan, and a   *)
(* restore gets to every pending leaf.                                     *)
PlanHeld ==
    /\ kind \in {"init", "restore"} => \A i \in DOMAIN work : work[i].vid \in DOMAIN fresh
    /\ \A c \in DOMAIN rederived : rederived[c] \in DOMAIN fresh
    /\ pc = "rewalk" => nextRelease..(M - target - 1) \subseteq DOMAIN rederived
    /\ pc = "run" /\ kind = "restore" => nextRelease..(nextCommitment - 1) \subseteq DOMAIN rederived

(* One secret has been handed over per release.                            *)
Handed == secrets \in Seq(Seq(Bits)) /\ Len(secrets) = nextRelease

ValueInv ==
    /\ MaskedSeen
    /\ FramesNamed(frames) /\ FramesNamed(work)
    /\ LeavesNamed(leaves) /\ LeavesNamed(rederived)
    /\ OpenedNamed
    /\ Aligned(frames) /\ Aligned(work)
    /\ Walked
    /\ PlanHeld
    /\ Handed

FullInv == IInv /\ ValueInv

(* With complete registers nothing that is filed is ever gone.             *)
Kept ==
    /\ \A i \in DOMAIN frames : frames[i].vid \in DOMAIN masked
    /\ \A c \in nextRelease..(nextCommitment - 1) : leaves[c] \in DOMAIN masked
    /\ kind = "prepare" => \A i \in DOMAIN work : Loadable(work[i].vid)
=============================================================================
