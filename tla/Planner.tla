------------------------------ MODULE Planner ------------------------------
(***************************************************************************)
(* The public bookkeeping of the shachain engine (poc/planner.py) under    *)
(* the coordinator operations that drive it (poc/coordinator.py:           *)
(* init_channel, prepare_leaf, restore, release_leaf).                     *)
(*                                                                         *)
(* The coordinator is sequential: it builds a plan, runs it as an MPC step *)
(* among the members, and commits the outcome or raises.  The loops that   *)
(* build a plan are modelled one iteration per action; pc says where the   *)
(* coordinator is.  Instead of an op list the model keeps what the ops     *)
(* compute: `fresh' maps every id the plan outputs to the value behind it. *)
(*                                                                         *)
(* masked[vid] is the value hidden under the pad of vid.  `seen' and       *)
(* `opened' are history variables: every (vid, value) whose masked form    *)
(* became public, also in runs that were aborted later, and every vid      *)
(* whose pad the members were asked to reveal.                             *)
(***************************************************************************)
EXTENDS Shachain

CONSTANTS MaxVid,           \* bound on the value ids minted in a behaviour
          ShortRegisters    \* whether a run may return too few registers

ASSUME MaxVidAssumption == MaxVid \in Nat
ASSUME ShortRegistersAssumption == ShortRegisters \in BOOLEAN

VARIABLES
    frames,           \* stack of subtrees not walked yet, top last
    masked,           \* vid -> value hidden under vid's pad
    leaves,           \* commitment number -> vid of its secret
    nextVid, nextCommitment, nextRelease,
    points,           \* commitment number -> value behind the published point
    secrets,          \* the secrets handed to the counterparty, in order
    pc,               \* what the coordinator is doing
    kind,             \* the operation the plan belongs to
    target,           \* index the plan walks to
    bit, prefix, cur, \* the seed walk: next bit, prefix and value so far
    work,             \* the frames the plan would leave behind
    fresh,            \* vid -> value, the masked outputs of the plan
    rederived,        \* commitment number -> vid, pending leaves re-derived
    seen, opened      \* history

public == <<frames, masked, leaves, nextCommitment, nextRelease, points, secrets>>
walk == <<kind, target, bit, prefix, cur, work, fresh, rederived>>
history == <<seen, opened>>
vars == <<public, nextVid, pc, walk, history>>

-----------------------------------------------------------------------------
Top(stack) == stack[Len(stack)]
Pop(stack) == [i \in 1..(Len(stack) - 1) |-> stack[i]]
Frame(pfx, depth, vid) == [prefix |-> pfx, depth |-> depth, vid |-> vid]

(* Dictionaries: empty, updated by another one, and with one key set.      *)
NoMap == << >>
Updated(map, by) ==
    [k \in DOMAIN map \cup DOMAIN by |-> IF k \in DOMAIN by THEN by[k] ELSE map[k]]
With(map, key, value) ==
    [k \in DOMAIN map \cup {key} |-> IF k = key THEN value ELSE map[k]]

(* Mutant of Mint: the counter is bumped one id short. *)
MintShort(n) ==
    /\ nextVid + n <= MaxVid
    /\ nextVid' = nextVid + n - 1

(* new_vid: ids are minted while a plan is built and never given back.     *)
Mint(n) ==
    /\ nextVid + n <= MaxVid
    /\ nextVid' = nextVid + n

(* A prepare computes with values it has just derived and with masked      *)
(* values it loads; loading a vid without a masked value is a KeyError.    *)
Loadable(vid) == vid \in DOMAIN fresh \cup DOMAIN masked
ValueOf(vid) == IF vid \in DOMAIN fresh THEN fresh[vid] ELSE masked[vid]

(* Once the MPC run of a plan reveals its registers, the masked form of    *)
(* every output is public, whatever the coordinator does with it.          *)
Revealed == {<<vid, fresh[vid]>> : vid \in DOMAIN fresh}

Opened == DOMAIN masked # {} \/ frames # << >> \/ nextCommitment > 0

Init ==
    /\ frames = << >> /\ masked = NoMap /\ leaves = NoMap
    /\ nextVid = 0 /\ nextCommitment = 0 /\ nextRelease = 0
    /\ points = NoMap /\ secrets = << >>
    /\ pc = "idle" /\ kind = "none" /\ target = 0
    /\ bit = 0 /\ prefix = 0 /\ cur = Seed
    /\ work = << >> /\ fresh = NoMap /\ rederived = NoMap
    /\ seen = {} /\ opened = {}

(* The operation returns or raises, and its local state is gone.           *)
Return ==
    /\ pc' = "idle" /\ kind' = "none" /\ target' = 0
    /\ bit' = 0 /\ prefix' = 0 /\ cur' = Seed
    /\ work' = << >> /\ fresh' = NoMap /\ rederived' = NoMap

-----------------------------------------------------------------------------
(* _seed_walk: from the seed down to an index. *)

StartWalk(op, place, index) ==
    /\ kind' = op /\ pc' = place /\ target' = index
    /\ bit' = Width - 1 /\ prefix' = 0 /\ cur' = Seed

(* The channel opens once: the frontier down to index M. *)
PlanInit ==
    /\ pc = "idle"
    /\ ~Opened
    /\ StartWalk("init", "walk", M)
    /\ work' = << >> /\ fresh' = NoMap /\ rederived' = NoMap
    /\ UNCHANGED <<public, nextVid, history>>

(* A restore rebuilds the frontier of the next commitment.  Past the last  *)
(* commitment the index is -1, all of whose bits are set.                  *)
PlanRestore ==
    /\ pc = "idle"
    /\ Opened
    /\ StartWalk("restore", "walk", IndexOf(nextCommitment))
    /\ work' = << >> /\ fresh' = NoMap /\ rederived' = NoMap
    /\ UNCHANGED <<public, nextVid, history>>

(* A set bit: leave the left sibling behind and hash to the right child.   *)
(* Both ids are minted, also when the walk re-derives a leaf and throws    *)
(* the siblings away.                                                      *)
WalkRight ==
    /\ pc \in {"walk", "rewalk"}
    /\ bit >= 0
    /\ BitSet(target, bit)
    /\ IF pc = "walk"
         THEN /\ work' = Append(work, Frame(prefix, bit, nextVid))
              /\ fresh' = With(fresh, nextVid, cur)
         ELSE UNCHANGED <<work, fresh>>
    /\ Mint(2)
    /\ cur' = Hash(cur, bit)
    /\ prefix' = prefix + Pow2[bit]
    /\ bit' = bit - 1
    /\ UNCHANGED <<public, pc, kind, target, rederived, history>>

WalkPast ==
    /\ pc \in {"walk", "rewalk"}
    /\ bit >= 0
    /\ ~BitSet(target, bit)
    /\ bit' = bit - 1
    /\ UNCHANGED <<public, nextVid, pc, kind, target, prefix, cur, work, fresh,
                   rederived, history>>

(* Mutant of Rederive: the loop over pending leaves stops one short. *)
RederiveShort(c) ==
    IF kind = "restore" /\ c < nextCommitment - 1
      THEN StartWalk(kind, "rewalk", IndexOf(c))
      ELSE /\ pc' = "run"
           /\ UNCHANGED <<kind, target, bit, prefix, cur>>

(* The next pending leaf to re-derive after commitment c - 1, if any. *)
Rederive(c) ==
    IF kind = "restore" /\ c < nextCommitment
      THEN StartWalk(kind, "rewalk", IndexOf(c))
      ELSE /\ pc' = "run"
           /\ UNCHANGED <<kind, target, bit, prefix, cur>>

(* End of the frontier walk: the node itself is the last frame. *)
WalkDone ==
    /\ pc = "walk" /\ bit = -1
    /\ prefix = target
    /\ work' = Append(work, Frame(prefix, 0, nextVid))
    /\ fresh' = With(fresh, nextVid, cur)
    /\ Mint(1)
    /\ Rederive(nextRelease)
    /\ UNCHANGED <<public, rederived, history>>

(* Mutant of Refiled: the new leaf is filed under its index. *)
RefiledByIndex(c, vid) == With(rederived, IndexOf(c), vid)

(* End of a pending leaf's walk: it gets a fresh id. *)
Refiled(c, vid) == With(rederived, c, vid)

RewalkDone ==
    /\ pc = "rewalk" /\ bit = -1
    /\ LET c == M - target IN
         /\ rederived' = Refiled(c, nextVid)
         /\ fresh' = With(fresh, nextVid, cur)
         /\ Rederive(c + 1)
    /\ Mint(1)
    /\ UNCHANGED <<public, work, history>>

-----------------------------------------------------------------------------
(* prepare_plan: from the top frame down to the next leaf. *)

PlanPrepare ==
    /\ pc = "idle"
    /\ frames # << >>                   \* popping an empty stack raises
    /\ kind' = "prepare" /\ pc' = "descend"
    /\ target' = IndexOf(nextCommitment)
    /\ work' = frames /\ fresh' = NoMap /\ rederived' = NoMap
    /\ UNCHANGED <<public, nextVid, bit, prefix, cur, history>>

(* Mutant of LeftHalf: the left half keeps the depth of the whole. *)
LeftWhole(f) == Frame(f.prefix, f.depth, f.vid)

(* Split the top subtree: the left half keeps its value and its id, the    *)
(* right half, now on top, is one hash away under an id of its own.        *)
LeftHalf(f) == Frame(f.prefix, f.depth - 1, f.vid)
RightHalf(f, vid) == Frame(f.prefix + Pow2[f.depth - 1], f.depth - 1, vid)
SplitTop(stack, vid) ==
    Append(Append(Pop(stack), LeftHalf(Top(stack))), RightHalf(Top(stack), vid))

(* Mutant of RightValue: the bit of the parent's depth is flipped. *)
ParentBitValue(f) == Hash(ValueOf(f.vid), f.depth)
RightValue(f) == Hash(ValueOf(f.vid), f.depth - 1)

Descend ==
    /\ pc = "descend"
    /\ LET top == Top(work) IN
         /\ top.depth > 0
         /\ Loadable(top.vid)
         /\ work' = SplitTop(work, nextVid)
         /\ fresh' = With(fresh, nextVid, RightValue(top))
    /\ Mint(1)
    /\ UNCHANGED <<public, pc, kind, target, bit, prefix, cur, rederived, history>>

DescendDone ==
    /\ pc = "descend"
    /\ LET leaf == Top(work) IN
         /\ leaf.depth = 0
         /\ leaf.prefix = target
         /\ Loadable(leaf.vid)
    /\ pc' = "run"
    /\ UNCHANGED <<public, nextVid, walk, history>>

(* An exception while the plan is built: the walk's assertion, the         *)
(* descent's assertion, or a load of a value that is not there.            *)
PlanFails ==
    /\ \/ pc = "walk" /\ bit = -1 /\ prefix # target
       \/ pc = "descend" /\ ~Loadable(Top(work).vid)
       \/ pc = "descend" /\ Top(work).depth = 0 /\ Top(work).prefix # target
    /\ Return
    /\ UNCHANGED <<public, nextVid, history>>

-----------------------------------------------------------------------------
(* run_step and what follows it. *)

(* Mutant of IdsAfterFailure: an abort gives the plan's ids back. *)
IdsGivenBack == nextVid - Cardinality(DOMAIN fresh)
IdsAfterFailure == nextVid

(* The run aborts, or a check on its result rejects it: before or after    *)
(* the members have revealed the masked outputs.  Init and prepare also    *)
(* end here when the registers are too few for the outputs.                *)
RunFails ==
    /\ pc = "run"
    /\ seen' \in {seen, seen \cup Revealed}
    /\ nextVid' = IdsAfterFailure
    /\ Return
    /\ UNCHANGED <<public, opened>>

CommitInit ==
    /\ pc = "run" /\ kind = "init"
    /\ masked' = Updated(masked, fresh)
    /\ frames' = frames \o work
    /\ seen' = seen \cup Revealed
    /\ Return
    /\ UNCHANGED <<leaves, nextCommitment, nextRelease, points, secrets,
                   nextVid, opened>>

CommitPrepare ==
    /\ pc = "run" /\ kind = "prepare"
    /\ LET leaf == Top(work) IN
         /\ leaves' = With(leaves, nextCommitment, leaf.vid)
         /\ points' = With(points, nextCommitment, ValueOf(leaf.vid))
    /\ masked' = Updated(masked, fresh)
    /\ frames' = Pop(work)
    /\ nextCommitment' = nextCommitment + 1
    /\ seen' = seen \cup Revealed
    /\ Return
    /\ UNCHANGED <<nextRelease, secrets, nextVid, opened>>

(* Mutant of LeavesRestored: the leaves keep the ids of before. *)
LeavesKept == leaves
LeavesRestored == Updated(leaves, rederived)

CommitRestore ==
    /\ pc = "run" /\ kind = "restore"
    /\ frames' = work
    /\ masked' = fresh
    /\ leaves' = LeavesRestored
    /\ seen' = seen \cup Revealed
    /\ Return
    /\ UNCHANGED <<nextCommitment, nextRelease, points, secrets, nextVid, opened>>

(* restore_plan's commit replaces the frontier and empties masked before   *)
(* store_masked asserts that there are enough registers.                   *)
CommitRestoreShort ==
    /\ ShortRegisters
    /\ pc = "run" /\ kind = "restore"
    /\ frames' = work
    /\ masked' = NoMap
    /\ seen' = seen \cup Revealed
    /\ Return
    /\ UNCHANGED <<leaves, nextCommitment, nextRelease, points, secrets,
                   nextVid, opened>>

-----------------------------------------------------------------------------
(* Mutant of Releasable: the newest commitment may be released too. *)
ReleasableNewest(c) ==
    /\ c = nextRelease
    /\ c < nextCommitment
    /\ c \in DOMAIN points

(* release_leaf, as main's do_update drives it: in order, and never the    *)
(* newest commitment.  The summands are asked for before anything else     *)
(* can go wrong, so a release that fails may have opened the pad.          *)
Releasable(c) ==
    /\ c = nextRelease
    /\ c < nextCommitment - 1
    /\ c \in DOMAIN points

Release(c) ==
    /\ pc = "idle"
    /\ Releasable(c)
    /\ leaves[c] \in DOMAIN masked
    /\ masked[leaves[c]] = points[c]
    /\ opened' = opened \cup {leaves[c]}
    /\ nextRelease' = c + 1
    /\ secrets' = Append(secrets, masked[leaves[c]])
    /\ UNCHANGED <<frames, masked, leaves, nextCommitment, points, nextVid, pc,
                   walk, seen>>

ReleaseFails(c) ==
    /\ pc = "idle"
    /\ Releasable(c)
    /\ opened' = opened \cup {leaves[c]}
    /\ UNCHANGED <<public, nextVid, pc, walk, seen>>

Next ==
    \/ PlanInit \/ PlanRestore \/ WalkRight \/ WalkPast \/ WalkDone \/ RewalkDone
    \/ PlanPrepare \/ Descend \/ DescendDone \/ PlanFails
    \/ RunFails \/ CommitInit \/ CommitPrepare \/ CommitRestore \/ CommitRestoreShort
    \/ \E c \in 0..M : Release(c) \/ ReleaseFails(c)

Spec == Init /\ [][Next]_vars

-----------------------------------------------------------------------------
(* Type invariant. *)

Frames == [prefix : 0..M, depth : 0..Width, vid : Nat]

(* The dictionaries keyed by commitment number. *)
DictsOK ==
    /\ leaves \in [0..(nextCommitment - 1) -> Nat]
    /\ DOMAIN points = 0..(nextCommitment - 1)
    /\ DOMAIN rederived \subseteq 0..(nextCommitment - 1)
    /\ \A c \in DOMAIN rederived : rederived[c] \in Nat

TypeOK ==
    /\ frames \in Seq(Frames)
    /\ work \in Seq(Frames)
    /\ nextVid \in Nat
    /\ nextCommitment \in 0..(M + 1)
    /\ nextRelease \in 0..nextCommitment
    /\ DictsOK
    /\ pc \in {"idle", "walk", "rewalk", "descend", "run"}
    /\ kind \in {"none", "init", "restore", "prepare"}
    /\ target \in -1..M
    /\ bit \in -1..(Width - 1)
    /\ prefix \in 0..M
    /\ opened \subseteq Nat

(* The frontier holds exactly the indices no commitment has used: read     *)
(* bottom to top, its subtrees tile 0..M-nextCommitment without gap or     *)
(* overlap.  prepare_plan's assertion leaf_pfx == index, and BOLT #3's     *)
(* strictly descending indices, rest on it through every abort and         *)
(* restore.                                                                *)
TilesUpTo(stack, n) ==
    /\ stack = << >> => n = 0
    /\ stack # << >> => /\ stack[1].prefix = 0
                        /\ Top(stack).prefix + Pow2[Top(stack).depth] = n
    /\ \A i \in 1..(Len(stack) - 1) :
         stack[i].prefix + Pow2[stack[i].depth] = stack[i + 1].prefix

Tiling == Opened => TilesUpTo(frames, M + 1 - nextCommitment)

(* Nothing the channel still needs is lost: every frame and every prepared *)
(* commitment that is not revoked has a masked value, and it is the value  *)
(* BOLT #3 derives at that index, however often the quorum restored or     *)
(* aborted in between (restore_plan re-derives the pending leaves).        *)
Holds(vid, index) == vid \in DOMAIN masked /\ GeneratesFromSeed(masked[vid], index)

Retained ==
    /\ \A i \in DOMAIN frames : Holds(frames[i].vid, frames[i].prefix)
    /\ \A c \in nextRelease..(nextCommitment - 1) : Holds(leaves[c], IndexOf(c))

(* Every vid is a one-time pad: across aborted runs, retries and restores  *)
(* no two values ever became public under the pad of one vid.              *)
PadOnce == \A s, t \in seen : s[1] = t[1] => s[2] = t[2]

(* The pads opened so far, applied to everything that was ever public,     *)
(* give no value from which a commitment that was not asked to be revoked  *)
(* can be derived; in particular never the newest commitment's secret.     *)
NothingEarly ==
    \A s \in seen : s[1] \in opened =>
        \A c \in 0..M : c > nextRelease \/ c >= nextCommitment - 1
            => ~Derives(s[2], IndexOf(c))

(* The frontier can always be loaded: a restore that fails in its commit   *)
(* does not leave frames whose masked values are gone (the docstring of    *)
(* restore_plan: "rather than half-erased").                               *)
NeverHalfErased == \A i \in DOMAIN frames : frames[i].vid \in DOMAIN masked

(* A restore that completes repairs whatever state came before it: the     *)
(* frontier and the pending leaves hold again.                             *)
RestoreRepairs == [][CommitRestore => Retained']_vars

(* The planner implements the channel's promise: points in order, secrets  *)
(* in order behind them, each the one BOLT #3 derives.                     *)
R == INSTANCE Revocation WITH published <- nextCommitment, secrets <- secrets

ImplementsRevocation == R!RevocationSpec
=============================================================================
