------------------------------ MODULE Channel ------------------------------
(***************************************************************************)
(* The distributed shachain at the granularity of its messages: the        *)
(* coordinator and the driver around it (poc/coordinator.py), the four     *)
(* member agents (poc/member.py) and the Lightning counterparty            *)
(* (ldk-check/src/bin/counterparty.rs).                                    *)
(*                                                                         *)
(* An operation that needs the quorum sends one request per slot from      *)
(* three threads and joins them.  A member serves one request at a time;   *)
(* its party process can only finish with the processes of its two peers.  *)
(* A request can outlive the thread that sent it: the member still serves  *)
(* it, and nobody reads the answer.                                        *)
(*                                                                         *)
(* Values are error bits.  A value is 0 when it is what the honest run     *)
(* computes and 1 when it is something else; values that the code xors or  *)
(* adds are added modulo 2, so two lies can cancel, as they can in the     *)
(* code.  What the planner does with frames is the subject of Planner;     *)
(* here a plan is the commitment it prepares.                              *)
(***************************************************************************)
EXTENDS Shachain

CONSTANTS
    Updates, After,     \* updates before and after the quorum changes
    Package,            \* the channel opens from a stockpiled garbled package
    RestoreOnChange,    \* rebuild the frontier when the quorum changes
    MaxLiars,           \* bound on the members that lie
    MaxFaults,          \* bound on crashes, failed processes, lost requests
    MaxRetries          \* how often the caller runs a failed operation again

ASSUME UpdatesAssumption ==
    /\ Updates \in Nat \ {0} /\ After \in Nat
    /\ Updates + After <= Pow2[Width]          \* a channel's commitments
ASSUME ModeAssumption == Package \in BOOLEAN /\ RestoreOnChange \in BOOLEAN
ASSUME BoundsAssumption == MaxLiars \in Nat /\ MaxFaults \in Nat /\ MaxRetries \in Nat

Members == 0..3         \* N_MEMBERS = 4
Slots == 1..3           \* QUORUM = 3
FirstQuorum == <<0, 1, 2>>
SecondQuorum == <<0, 1, 3>>

VARIABLES
    pc,                 \* the driver's operation
    next,               \* the next member of a sequence of requests
    call,               \* number of the last round of requests
    thread, reply,      \* slot -> state of its thread, and what it received
    quorum,             \* slot -> member
    points, masked,     \* commitment number + 1 -> published point, masked leaf
    nextRelease,
    root,               \* the dealer's root of this setup
    secret,             \* the secret release_leaf returned
    cold,               \* the garbled package the channel opens from
    retries, faults,
    phi, sid, pkg,      \* member -> its seeds, whether it has the sid, its packages
    inbox, busy,        \* member -> requests received, request being served
    joined, doomed,     \* (member, call) with a party process; calls that failed
    liars, tainted,     \* who lies; whether a lie entered a step
    cpPoints, handed,   \* what the counterparty holds
    value, asked, evaluations   \* history

driver == <<pc, next, retries, root>>
channel == <<quorum, points, masked, nextRelease, secret>>
requests == <<call, cold>>
threads == <<thread, reply>>
coordinator == <<driver, channel, requests>>
material == <<phi, sid>>
work == <<inbox, busy, joined, doomed>>
members == <<material, pkg, work>>
lies == <<liars, tainted>>
counterparty == <<cpPoints, handed>>
history == <<value, asked, evaluations>>
around == <<faults, lies, counterparty, history>>
vars == <<coordinator, threads, members, around>>

-----------------------------------------------------------------------------
(* Mutant of Held: the dealing is handed out one participant off. *)
HeldShifted(m) == {r \in Members : r # (m + 3) % 4}

(* Key material (scripts/iceberg.py): rank r is the seed of the subset     *)
(* that names member r alone, and goes to everyone else.                   *)
Held(m) == {r \in Members : r # m}

(* summand_slots: the lowest slot whose member holds the summand. *)
SummandSlot(j) ==
    CHOOSE s \in Slots : quorum[s] # j /\ \A t \in 1..(s - 1) : quorum[t] = j
Inputs(s) == {j \in Members : SummandSlot(j) = s}

NoReply == << >>
NoSecret == [commitment |-> 0, error |-> 0]
Idle == [op |-> "none", n |-> 0, cold |-> 0]
NoThreads == [s \in Slots |-> "none"]
NoReplies == [s \in Slots |-> NoReply]
Steps == {"garble", "open", "prepare", "restore"}
Calls == Steps \cup {"release"}
Xor(a, b) == (a + b) % 2
Published == Len(points)                    \* next_commitment

(* Mutant of Revoking: the commitment just prepared is revoked. *)
RevokingNewest == Published - 1

(* do_update revokes the commitment before the one it has just prepared. *)
Revoking == Published - 2

Init ==
    /\ pc = "setup" /\ next = 0 /\ call = 0
    /\ thread = NoThreads /\ reply = NoReplies
    /\ quorum = FirstQuorum
    /\ points = << >> /\ masked = << >> /\ nextRelease = 0
    /\ root = 1 /\ secret = NoSecret /\ cold = 0 /\ retries = 0 /\ faults = 0
    /\ phi = [m \in Members |-> << >>]
    /\ sid = [m \in Members |-> FALSE]
    /\ pkg = [m \in Members |-> {}]
    /\ inbox = [m \in Members |-> << >>]
    /\ busy = [m \in Members |-> Idle]
    /\ joined = {} /\ doomed = {}
    /\ liars \in {L \in SUBSET Members : Cardinality(L) <= MaxLiars}
    /\ tainted = FALSE
    /\ cpPoints = << >> /\ handed = << >>
    /\ value = << >> /\ asked = {} /\ evaluations = {}

-----------------------------------------------------------------------------
(* The driver. *)

Quiet(m) == busy[m] = Idle /\ inbox[m] = << >>

(* An operation raises.  main ends there; a caller that catches the        *)
(* exception may run the operation again.                                  *)
Raise ==
    \/ pc' = "stopped" /\ UNCHANGED <<next, root, retries>>
    \/ /\ retries < MaxRetries
       /\ retries' = retries + 1
       /\ next' = 0
       /\ root' = IF pc = "setup" THEN root + 1 ELSE root
       /\ UNCHANGED pc

(* What the driver does after an update with `published' commitments. *)
AfterUpdate(published) ==
    IF quorum = FirstQuorum
      THEN IF published < Updates THEN "prepare" ELSE "crash"
      ELSE IF published < Updates + After THEN "prepare" ELSE "done"

(* Mutant of Delivered: a member keeps the seeds it has over the new ones. *)
DeliveredOnce(m) == [r \in Held(m) |-> IF r \in DOMAIN phi[m] THEN phi[m][r] ELSE root]

(* handle_setup: the seeds of this dealing replace any the member has. *)
Delivered(m) == [r \in Held(m) |-> root]

(* setup deals, and hands every member its seeds in turn. *)
Setup ==
    /\ pc = "setup"
    /\ Quiet(next)
    /\ phi' = [phi EXCEPT ![next] = Delivered(next)]
    /\ sid' = [sid EXCEPT ![next] = TRUE]
    /\ IF next < 3
         THEN next' = next + 1 /\ UNCHANGED pc
         ELSE next' = 0 /\ pc' = IF Package THEN "garble" ELSE "open"
    /\ UNCHANGED <<retries, root, channel, requests, threads, pkg, work, around>>

(* crash_all asks every member, active or not, to drop its stored masks;   *)
(* none are stored any more, so the members' state does not change.        *)
Crash ==
    /\ pc = "crash"
    /\ Quiet(next)
    /\ IF next < 3
         THEN next' = next + 1 /\ UNCHANGED <<pc, quorum>>
         ELSE /\ next' = 0
              /\ quorum' = SecondQuorum
              /\ pc' = IF RestoreOnChange THEN "restore"
                       ELSE IF After > 0 THEN "prepare" ELSE "done"
    /\ UNCHANGED <<retries, root, points, masked, nextRelease, secret, requests,
                   threads, members, around>>

(* run_step and release_leaf: one request per slot, all at once.           *)
(* release_leaf refuses before asking when the state has no point.         *)
Ask ==
    /\ pc \in Calls
    /\ thread = NoThreads
    /\ pc = "release" => Revoking + 1 \in DOMAIN points
    /\ call' = call + 1
    /\ cold' = IF pc = "garble" THEN call + 1 ELSE cold
    /\ thread' = [s \in Slots |-> "waiting"]
    /\ inbox' = [m \in Members |->
                   IF \E s \in Slots : quorum[s] = m
                     THEN Append(inbox[m], [op |-> pc, n |-> call + 1, cold |-> cold'])
                     ELSE inbox[m]]
    /\ asked' = IF pc = "release" THEN asked \cup {Revoking} ELSE asked
    /\ UNCHANGED <<driver, channel, reply, material, pkg, busy, joined, doomed, faults, lies,
                   counterparty, value, evaluations>>

Joined == \A s \in Slots : thread[s] \in {"ok", "error"}
AllOk == \A s \in Slots : thread[s] = "ok"
Clear == thread' = NoThreads /\ reply' = NoReplies

(* The threads are joined and one of them has an error. *)
JoinFails ==
    /\ Joined /\ ~AllOk
    /\ Raise
    /\ Clear
    /\ UNCHANGED <<channel, requests, members, around>>

(* A liar in the quorum may enter wrong summands, or, at slot 0, report    *)
(* wrong registers: what the step stores may then be wrong, and so may     *)
(* everything computed from it later.                                      *)
Lied == IF \E s \in Slots : quorum[s] \in liars THEN {tainted, TRUE} ELSE {tainted}
Outcome(lied) == IF lied THEN {0, 1} ELSE {0}

Garbled ==
    /\ pc = "garble" /\ AllOk
    /\ pc' = "open"
    /\ Clear
    /\ UNCHANGED <<next, retries, root, channel, requests, members, around>>

Opened ==
    /\ pc = "open" /\ AllOk
    /\ tainted' \in Lied
    /\ pc' = "prepare"
    /\ Clear
    /\ UNCHANGED <<next, retries, root, channel, requests, members, faults, liars,
                   counterparty, history>>

(* A restore hides the pending leaves again, under the values the seed     *)
(* gives now.                                                              *)
Restored ==
    /\ pc = "restore" /\ AllOk
    /\ tainted' \in Lied
    /\ \E bits \in [nextRelease + 1..Len(masked) -> Outcome(tainted')] :
         masked' = [i \in 1..Len(masked) |->
                      IF i > nextRelease THEN bits[i] ELSE masked[i]]
    /\ pc' = IF After > 0 THEN "prepare" ELSE "done"
    /\ Clear
    /\ UNCHANGED <<next, retries, root, quorum, points, nextRelease, secret, requests,
                   members, faults, liars, counterparty, history>>

-----------------------------------------------------------------------------
(* prepare_leaf. *)

(* Mutant of CrossChecked: a slot's points are compared with each other. *)
ComparesOwn == \A s \in Slots : reply[s].first = reply[s].second

(* combine_points: slot i's first point must be slot i+1's second. *)
Successor(s) == IF s = 3 THEN 1 ELSE s + 1
CrossChecked ==
    \A s \in Slots : reply[s].first = reply[Successor(s)].second

(* The error the members' points add to the value's own. *)
PointError == Xor(reply[1].first, Xor(reply[2].first, reply[3].first))

(* Mutant of AfterPrepare: the last commitment is revoked before that. *)
RevokeFirst(published) == IF published > 1 THEN "release" ELSE "point"

(* The point goes out first. *)
AfterPrepare(published) == "point"

Prepared ==
    /\ pc = "prepare" /\ AllOk
    /\ CrossChecked
    /\ tainted' \in Lied
    /\ \E v, m \in Outcome(tainted') :
         /\ value' = Append(value, v)
         /\ masked' = Append(masked, m)
         /\ points' = Append(points, Xor(v, PointError))
    /\ pc' = AfterPrepare(Len(points'))
    /\ Clear
    /\ UNCHANGED <<next, retries, root, quorum, nextRelease, secret, requests, members,
                   faults, liars, counterparty, asked, evaluations>>

PrepareRefused ==
    /\ pc = "prepare" /\ AllOk
    /\ ~CrossChecked
    /\ Raise
    /\ Clear
    /\ UNCHANGED <<channel, requests, members, around>>

(* The counterparty stores the point; the driver goes on to revoke the     *)
(* commitment before.                                                      *)
SendPoint ==
    /\ pc = "point"
    /\ cpPoints' = Append(cpPoints, points[Published])
    /\ pc' = IF Published > 1 THEN "release" ELSE AfterUpdate(Published)
    /\ UNCHANGED <<next, retries, root, channel, requests, threads, members, faults,
                   lies, handed, history>>

-----------------------------------------------------------------------------
(* release_leaf, once the three replies are in. *)

Seen == UNION {{<<j, reply[s][j]>> : j \in DOMAIN reply[s]} : s \in Slots}
Disagreement == \E p, q \in Seen : p[1] = q[1] /\ p[2] # q[2]
Missing == Members \ {p[1] : p \in Seen}
SeenError == Cardinality({p \in Seen : p[2].error = 1}) % 2
Merged == Xor(masked[Revoking + 1], SeenError)
MatchesPoint == Merged = points[Revoking + 1]

(* Mutant of Accepted: the point is not checked. *)
AcceptedUnchecked == ~Disagreement /\ Missing = {}

Accepted == ~Disagreement /\ Missing = {} /\ MatchesPoint

NextRelease(c) == c + 1

Released ==
    /\ pc = "release" /\ AllOk
    /\ Accepted
    /\ secret' = [commitment |-> Revoking, error |-> Merged]
    /\ nextRelease' = NextRelease(Revoking)
    /\ pc' = "hand"
    /\ Clear
    /\ UNCHANGED <<next, retries, root, quorum, points, masked, requests, members, around>>

ReleaseRefused ==
    /\ pc = "release" /\ AllOk
    /\ ~Accepted
    /\ Raise
    /\ Clear
    /\ UNCHANGED <<channel, requests, members, around>>

(* The secret is the one behind the point the counterparty holds. *)
Behind(s) == s.commitment + 1 \in DOMAIN cpPoints /\ s.error = cpPoints[s.commitment + 1]

(* The counterparty stores the secret, then compares it with the point.    *)
(* Its own shachain check can only fail on a value that is not the honest  *)
(* one.                                                                    *)
HandSecret ==
    /\ pc = "hand"
    /\ handed' = Append(handed, secret)
    /\ \/ /\ Behind(secret)
          /\ pc' = AfterUpdate(Published)
       \/ /\ ~Behind(secret) \/ \E i \in DOMAIN handed' : handed'[i].error = 1
          /\ pc' = "stopped"
    /\ UNCHANGED <<next, retries, root, channel, requests, threads, members, faults,
                   lies, cpPoints, history>>

(* main has returned or died, and the members have nothing left to do. *)
Ended ==
    /\ pc \in {"done", "stopped"}
    /\ \A m \in Members : Quiet(m)
    /\ UNCHANGED vars

-----------------------------------------------------------------------------
(* A member agent. *)

Request(m) == Head(inbox[m])
Pending(m) == ({busy[m]} \ {Idle}) \cup {inbox[m][i] : i \in DOMAIN inbox[m]}

(* Mutant of Answer: a late answer reaches the thread of a newer round. *)
AnswerLate(m, n, result, content) ==
    IF \E s \in Slots : quorum[s] = m /\ thread[s] = "waiting"
      THEN LET s == CHOOSE s \in Slots : quorum[s] = m IN
             /\ thread' = [thread EXCEPT ![s] = result]
             /\ reply' = [reply EXCEPT ![s] = content]
      ELSE UNCHANGED threads

(* An answer reaches the thread that still waits for it. *)
Answer(m, n, result, content) ==
    IF n = call /\ \E s \in Slots : quorum[s] = m /\ thread[s] = "waiting"
      THEN LET s == CHOOSE s \in Slots : quorum[s] = m IN
             /\ thread' = [thread EXCEPT ![s] = result]
             /\ reply' = [reply EXCEPT ![s] = content]
      ELSE UNCHANGED threads

(* handle_reveal.  An honest member sends every summand it can derive.  A  *)
(* liar may also leave one out or claim all of them, and flip any; key 4   *)
(* stands for a key nobody asked for.                                      *)
Summands(m, keys, flipped) ==
    [j \in keys |-> [root  |-> IF j \in DOMAIN phi[m] THEN phi[m][j] ELSE root,
                     error |-> IF j \in flipped THEN 1 ELSE 0]]
Honest(m) == Summands(m, DOMAIN phi[m], {})
Lies(m) ==
    LET kept == {j \in DOMAIN phi[m] : \E i \in DOMAIN phi[m] : i < j}
    IN  UNION {{Summands(m, keys, flipped) : flipped \in SUBSET keys} : keys \in {0..4, kept}}
Disclosed(m) == IF m \in liars THEN Lies(m) \cup {Honest(m)} ELSE {Honest(m)}

HandleReveal(m) ==
    /\ busy[m] = Idle
    /\ inbox[m] # << >>
    /\ Request(m).op = "release"
    /\ inbox' = [inbox EXCEPT ![m] = Tail(inbox[m])]
    /\ IF sid[m]
         THEN \E content \in Disclosed(m) : Answer(m, Request(m).n, "ok", content)
         ELSE Answer(m, Request(m).n, "error", NoReply)
    /\ UNCHANGED <<coordinator, material, pkg, busy, joined, doomed, around>>

(* handle_step up to the party process.  A garbling needs no inputs; any   *)
(* other step needs the channel id and the seeds the plan assigns to the   *)
(* slot, and opening from a package needs the package.                     *)
HasInputs(m) ==
    sid[m] /\ \A s \in Slots : quorum[s] = m => Inputs(s) \subseteq DOMAIN phi[m]
Evaluates(req) == Package /\ req.op = "open"
Startable(m, req) ==
    /\ req.op # "garble" => HasInputs(m)
    /\ Evaluates(req) => req.cold \in pkg[m]

StartParty(m) ==
    /\ busy[m] = Idle
    /\ inbox[m] # << >>
    /\ Request(m).op \in Steps
    /\ Startable(m, Request(m))
    /\ inbox' = [inbox EXCEPT ![m] = Tail(inbox[m])]
    /\ busy' = [busy EXCEPT ![m] = Request(m)]
    /\ joined' = joined \cup {<<m, Request(m).n>>}
    /\ evaluations' = IF Evaluates(Request(m))
                        THEN evaluations \cup {<<m, Request(m)>>} ELSE evaluations
    /\ UNCHANGED <<coordinator, threads, material, pkg, doomed, faults, lies, counterparty,
                   value, asked>>

RejectStep(m) ==
    /\ busy[m] = Idle
    /\ inbox[m] # << >>
    /\ Request(m).op \in Steps
    /\ ~Startable(m, Request(m))
    /\ inbox' = [inbox EXCEPT ![m] = Tail(inbox[m])]
    /\ doomed' = doomed \cup {Request(m).n}
    /\ Answer(m, Request(m).n, "error", NoReply)
    /\ UNCHANGED <<coordinator, material, pkg, busy, joined, around>>

(* The three processes of a call have met. *)
Met(n) == \A s \in Slots : <<quorum[s], n>> \in joined

(* Mutant of PackagesAfter: the package survives its evaluation. *)
PackagesKept(m, req) ==
    IF req.op = "garble" THEN pkg[m] \cup {req.cold} ELSE pkg[m]

(* The process ends well, which takes all three.  The package appears with *)
(* the garbling and goes with the evaluation.  The member answers with its *)
(* two points; only a liar's can be wrong.                                 *)
PackagesAfter(m, req) ==
    CASE req.op = "garble" -> pkg[m] \cup {req.cold}
      [] Evaluates(req)    -> pkg[m] \ {req.cold}
      [] OTHER             -> pkg[m]
PointErrors(m) == IF m \in liars THEN {0, 1} ELSE {0}

PartyDone(m) ==
    LET req == busy[m] IN
      /\ req # Idle
      /\ Met(req.n)
      /\ busy' = [busy EXCEPT ![m] = Idle]
      /\ pkg' = [pkg EXCEPT ![m] = PackagesAfter(m, req)]
      /\ \E a, b \in PointErrors(m) :
           Answer(m, req.n, "ok", IF req.op = "prepare" THEN [first |-> a, second |-> b]
                                  ELSE NoReply)
      /\ UNCHANGED <<coordinator, material, inbox, joined, doomed, around>>

(* Mutant of PeerGone: no timeout; only a peer that was met can fail it. *)
PeerMetAndGone(n) == n \in doomed /\ Met(n)
PeerGone(n) == n \in doomed

(* The process ends with an error: a peer failed, or never came and the    *)
(* process was timed out.  A package stays where it is.                    *)
PartyFails(m) ==
    LET req == busy[m] IN
      /\ req # Idle
      /\ PeerGone(req.n)
      /\ busy' = [busy EXCEPT ![m] = Idle]
      /\ Answer(m, req.n, "error", NoReply)
      /\ UNCHANGED <<coordinator, material, pkg, inbox, joined, doomed, around>>

-----------------------------------------------------------------------------
(* What can go wrong. *)

Fault == faults < MaxFaults /\ faults' = faults + 1

(* A request of setup or crash_all fails, served or not. *)
PostFails ==
    /\ Fault
    /\ pc \in {"setup", "crash"}
    /\ \/ UNCHANGED <<phi, sid>>
       \/ /\ pc = "setup" /\ Quiet(next)
          /\ phi' = [phi EXCEPT ![next] = Delivered(next)]
          /\ sid' = [sid EXCEPT ![next] = TRUE]
    /\ Raise
    /\ UNCHANGED <<channel, requests, threads, pkg, work, lies, counterparty, history>>

(* A queue without the request of the current round, which is its newest.  *)
Without(queue) ==
    IF queue # << >> /\ queue[Len(queue)].n = call
      THEN SubSeq(queue, 1, Len(queue) - 1) ELSE queue

(* A thread gives up on its request.  The member may have it all the same, *)
(* now or later.                                                           *)
GiveUp(s) ==
    LET m == quorum[s] IN
      /\ Fault
      /\ thread[s] = "waiting"
      /\ thread' = [thread EXCEPT ![s] = "error"]
      /\ doomed' = doomed \cup {call}
      /\ inbox' \in {inbox, [inbox EXCEPT ![m] = Without(@)]}
      /\ UNCHANGED <<coordinator, reply, material, pkg, busy, joined, lies, counterparty, history>>

PartyDies(m) ==
    /\ Fault
    /\ busy[m] # Idle
    /\ doomed' = doomed \cup {busy[m].n}
    /\ busy' = [busy EXCEPT ![m] = Idle]
    /\ Answer(m, busy[m].n, "error", NoReply)
    /\ UNCHANGED <<coordinator, material, pkg, inbox, joined, lies, counterparty, history>>

(* A member agent restarts: its seeds and its package are on disk, its     *)
(* channel id is not, and its connections are gone.                        *)
Restart(m) ==
    /\ Fault
    /\ sid[m]
    /\ sid' = [sid EXCEPT ![m] = FALSE]
    /\ doomed' = doomed \cup {req.n : req \in Pending(m)}
    /\ busy' = [busy EXCEPT ![m] = Idle]
    /\ inbox' = [inbox EXCEPT ![m] = << >>]
    /\ IF Quiet(m) THEN UNCHANGED threads ELSE Answer(m, call, "error", NoReply)
    /\ UNCHANGED <<coordinator, phi, pkg, joined, lies, counterparty, history>>

-----------------------------------------------------------------------------
CoordinatorStep ==
    \/ Setup \/ Crash \/ Ask \/ JoinFails
    \/ Garbled \/ Opened \/ Restored \/ Prepared \/ PrepareRefused \/ SendPoint
    \/ Released \/ ReleaseRefused \/ HandSecret

MemberStep(m) ==
    \/ HandleReveal(m) \/ StartParty(m) \/ RejectStep(m) \/ PartyDone(m) \/ PartyFails(m)

Faults ==
    \/ PostFails
    \/ \E s \in Slots : GiveUp(s)
    \/ \E m \in Members : PartyDies(m) \/ Restart(m)

Next == CoordinatorStep \/ (\E m \in Members : MemberStep(m)) \/ Faults \/ Ended

(* The coordinator's threads run, every member serves its requests, and    *)
(* every party process ends, if only by its timeout.  Faults are not fair. *)
Fairness ==
    /\ WF_vars(CoordinatorStep)
    /\ \A m \in Members : WF_vars(MemberStep(m))

Spec == Init /\ [][Next]_vars /\ Fairness
-----------------------------------------------------------------------------
Bit == {0, 1}
Secrets == [commitment : Nat, error : Bit]
Requests == [op : Calls, n : Nat, cold : Nat]

DriverTypes ==
    /\ pc \in Calls \cup {"setup", "point", "hand", "crash", "done", "stopped"}
    /\ next \in Members /\ call \in Nat /\ cold \in 0..call
    /\ thread \in [Slots -> {"none", "waiting", "ok", "error"}] /\ DOMAIN reply = Slots
    /\ retries \in 0..MaxRetries /\ root \in 1..(1 + retries) /\ faults \in 0..MaxFaults
    /\ liars \subseteq Members /\ tainted \in BOOLEAN

ChannelTypes ==
    /\ quorum \in {FirstQuorum, SecondQuorum}
    /\ points \in Seq(Bit) /\ masked \in Seq(Bit) /\ value \in Seq(Bit)
    /\ Len(masked) = Len(points) /\ Len(value) = Len(points)
    /\ nextRelease \in 0..Len(points) /\ secret \in Secrets
    /\ cpPoints \in Seq(Bit) /\ handed \in Seq(Secrets)
    /\ asked \subseteq Nat

MemberTypes ==
    /\ DOMAIN phi = Members
    /\ \A m \in Members : phi[m] = << >> \/ DOMAIN phi[m] = Members \ {m}
    /\ sid \in [Members -> BOOLEAN] /\ pkg \in [Members -> SUBSET (1..call)]
    /\ inbox \in [Members -> Seq(Requests)]
    /\ busy \in [Members -> Requests \cup {Idle}]
    /\ joined \subseteq Members \X (1..call) /\ doomed \subseteq 1..call

(* Types, and the bookkeeping that goes with them: a secret is handed over *)
(* in order, behind a point the counterparty has.                          *)
TypeOK ==
    /\ DriverTypes /\ ChannelTypes /\ MemberTypes
    /\ Len(handed) \in {nextRelease, nextRelease - 1}

(* No secret leaves the group that is not behind the point published for   *)
(* its commitment, whatever any number of members claim: release_leaf      *)
(* "A lying member cannot pass off a wrong secret".                        *)
HandedMatchesPoint == \A i \in DOMAIN handed : Behind(handed[i])

(* One liar cannot move a published point away from the value the quorum   *)
(* computed: combine_points compares each point with the neighbour's copy. *)
OneLiarPoints == Cardinality(liars) <= 1 => points = value

(* Honest members never make the coordinator refuse: whoever forms the     *)
(* quorum, after lost requests, retried setups, restarts and the quorum    *)
(* change, their summands agree and cover the masks.                       *)
HonestAccepted ==
    liars = {} => /\ pc = "release" /\ AllOk => Accepted
                  /\ pc = "prepare" /\ AllOk => CrossChecked

(* The summands of a commitment are not asked for before the counterparty  *)
(* has the point of the next one: what they open is a revocation.          *)
AskedAfterNextPoint == \A c \in asked : c + 2 <= Len(cpPoints)

(* Once the channel is open no member keeps the package it opened from.    *)
PackageSpent ==
    Package /\ Published > 0 => \A m \in Members : cold \notin pkg[m]

(* A garbled package is never evaluated twice, counting the evaluations in *)
(* which the three processes met (handle_step: "one-time use: a garbled    *)
(* package must never be evaluated twice").                                *)
PackageEvaluatedOnce ==
    \A d, e \in evaluations :
        d[1] = e[1] /\ d[2].cold = e[2].cold /\ Met(d[2].n) /\ Met(e[2].n) => d = e

(* With honest members the messages keep the channel's promise, as the     *)
(* counterparty sees it: whatever is lost, dies or is retried, secrets     *)
(* come in order and each behind the next commitment's point.  A value     *)
(* with no error is the secret BOLT #3 derives; any other one is none.     *)
Walks == UNION {[1..n -> Bits] : n \in 0..Width}
SecretOf == [c \in 0..M |-> CHOOSE v \in Walks : GeneratesFromSeed(v, IndexOf(c))]
NoWalk == <<0, 0>>
SecretsOut ==
    [i \in DOMAIN handed |->
       IF handed[i].error = 0 THEN SecretOf[handed[i].commitment] ELSE NoWalk]
R == INSTANCE Revocation WITH published <- Len(cpPoints), secrets <- SecretsOut

ImplementsRevocation == R!RevocationSpec

(* main ends: no thread waits for ever, whatever failed. *)
Terminates == <>(pc \in {"done", "stopped"})

(* With honest members and no fault main completes, through the crash and  *)
(* the change of quorum.                                                   *)
Completes == (liars = {} /\ [](faults = 0)) => <>(pc = "done")
=============================================================================
