----------------------------- MODULE ChannelInv -----------------------------
(***************************************************************************)
(* The inductive invariant behind the channel's safety properties: what    *)
(* the driver, the requests on their way, the replies and the counterparty *)
(* have to do with one another between any two steps.                      *)
(***************************************************************************)
EXTENDS Channel

-----------------------------------------------------------------------------
(* The driver and the counterparty. *)

(* The counterparty has every point but the one on its way.                *)
PointsSent ==
    IF pc = "point"
      THEN /\ Len(points) = Len(cpPoints) + 1
           /\ \A i \in 1..Len(cpPoints) : cpPoints[i] = points[i]
      ELSE cpPoints = points

(* How far releases are behind prepares, by what the driver is doing.      *)
ReleasesBehind ==
    /\ pc \in {"setup", "garble", "open"} => Published = 0
    /\ pc = "point" => Published >= 1 /\ (nextRelease = Published - 2 \/ Published = 1)
    /\ pc = "release" => Published >= 2 /\ nextRelease = Published - 2
    /\ pc = "hand" => Published >= 2 /\ nextRelease = Published - 1
    /\ pc \in {"prepare", "restore", "crash", "done"} =>
          nextRelease = Published - 1 \/ Published = 0
    /\ pc \in {"restore", "crash"} => Published >= 1
    /\ Published > 0 => nextRelease < Published

(* The secrets handed over are those of commitments 0, 1, ... and match    *)
(* their points; so does the one on its way.                               *)
SecretsHanded ==
    /\ Len(handed) = IF pc = "hand" THEN nextRelease - 1 ELSE nextRelease
    /\ \A i \in DOMAIN handed : handed[i].commitment = i - 1 /\ handed[i].error = points[i]
    /\ pc = "hand" => /\ secret.commitment = Published - 2
                      /\ secret.error = points[Published - 1]

(* Threads run in the operations that ask the quorum, three at a time.     *)
ThreadsRun ==
    thread # NoThreads => pc \in Calls /\ call >= 1 /\ \A s \in Slots : thread[s] # "none"

DriverInv ==
    /\ DriverTypes /\ ChannelTypes /\ ThreadsRun
    /\ PointsSent /\ ReleasesBehind /\ SecretsHanded
    /\ AskedAfterNextPoint
    /\ pc \in {"setup", "garble", "open"} => quorum = FirstQuorum

(* How many commitments there are, and which quorum makes them.            *)
UpdatesInv ==
    /\ pc = "crash" => quorum = FirstQuorum
    /\ pc = "restore" => quorum = SecondQuorum /\ Published <= Updates
    /\ quorum = FirstQuorum => Published <= Updates
    /\ Published <= Updates + After
    /\ pc = "prepare" =>
          Published < IF quorum = FirstQuorum THEN Updates ELSE Updates + After

-----------------------------------------------------------------------------
(* Requests and replies. *)

(* A request a member has not served yet was sent in some round; one of    *)
(* the round that runs is of its operation.                                *)
Sent(r) ==
    /\ r.n \in 1..call
    /\ r.op = "garble" => r.cold = r.n
    /\ thread # NoThreads /\ r.n = call => r.op = pc /\ r.cold = cold

(* A member gets its requests in the order of the rounds, one in each, and *)
(* is busy only with those that need a party process.                      *)
InOrder(m) ==
    /\ \A i, j \in DOMAIN inbox[m] : i < j => inbox[m][i].n < inbox[m][j].n
    /\ busy[m] # Idle => /\ busy[m].op \in Steps
                          /\ \A i \in DOMAIN inbox[m] : busy[m].n < inbox[m][i].n

(* What an answer says: points off only by a liar's bit, and the seeds a   *)
(* member was dealt unless it lies.  Who has answered has nothing of the   *)
(* round left to do.                                                       *)
Replied(s) ==
    /\ pc = "prepare" => \E a, b \in PointErrors(quorum[s]) :
                             reply[s] = [first |-> a, second |-> b]
    /\ pc = "release" /\ quorum[s] \notin liars => reply[s] = Honest(quorum[s])
    /\ \A r \in Pending(quorum[s]) : r.n # call

RequestsInv ==
    /\ MemberTypes
    /\ \A m \in Members : InOrder(m) /\ \A r \in Pending(m) : Sent(r)
    /\ \A s \in Slots : thread[s] = "ok" => Replied(s)

-----------------------------------------------------------------------------
(* Honest members. *)

(* The dealing of the root in force, at those who have it already.         *)
Dealt ==
    /\ pc = "setup" => \A m \in 0..(next - 1) : phi[m] = Delivered(m)
    /\ pc \notin {"setup", "stopped"} => \A m \in Members : phi[m] = Delivered(m)

(* Without liars nothing is ever wrong.                                    *)
Untainted ==
    liars = {} => /\ ~tainted
                  /\ \A i \in DOMAIN points : points[i] = 0
                  /\ \A i \in DOMAIN masked : masked[i] = 0

HonestInv == Dealt /\ Untainted

-----------------------------------------------------------------------------
(* Packages. *)

(* The package of the channel that opens, and nobody garbling it any more. *)
PastGarbling == Package /\ (pc \in {"open", "prepare"} \/ Published > 0)
PastOpening == Package /\ (pc = "prepare" \/ Published > 0)

PackageInv ==
    /\ pkg[3] = {} /\ \A r \in Pending(3) : r.op # "garble"
    /\ pc = "garble" /\ thread # NoThreads => cold = call
    /\ PastGarbling => \A m \in Members : \A r \in Pending(m) :
                           r.op = "garble" => r.cold # cold
    /\ Package /\ pc = "open" =>
          \A s \in Slots : thread[s] = "ok" => cold \notin pkg[quorum[s]]
    /\ PastOpening => \A m \in Members : cold \notin pkg[m]

IInv == DriverInv /\ UpdatesInv /\ RequestsInv /\ HonestInv /\ PackageInv /\ OneLiarPoints
=============================================================================
