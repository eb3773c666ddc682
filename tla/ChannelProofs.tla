---------------------------- MODULE ChannelProofs ----------------------------
(***************************************************************************)
(* The channel keeps its invariant, for every number of updates, liars,    *)
(* faults and retries: no lost request, restart, abort or lie gets a wrong *)
(* secret handed over, a secret asked for early, or a package kept.        *)
(***************************************************************************)
EXTENDS ChannelInv, FiniteSetTheorems, WellFoundedInduction, TLAPS

-----------------------------------------------------------------------------
(* Bits, quorums and answers. *)

(* XOR on bits.                                                            *)
LEMMA XorBits ==
    /\ \A a, b \in Bit : Xor(a, b) \in Bit
    /\ \A a \in Bit : Xor(a, 0) = a
    /\ \A b \in Bit : Xor(0, b) = b
BY DEF Xor, Bit

(* The slots of a quorum are held by different members.                    *)
LEMMA QuorumFacts ==
    ASSUME quorum \in {FirstQuorum, SecondQuorum}
    PROVE  /\ \A s \in Slots : quorum[s] \in Members
           /\ \A s, t \in Slots : quorum[s] = quorum[t] => s = t
           /\ \A s \in Slots : quorum = FirstQuorum => quorum[s] # 3
           /\ quorum = FirstQuorum => \A m \in Members : m = 3 \/ \E s \in Slots : quorum[s] = m
BY DEF FirstQuorum, SecondQuorum, Slots, Members

(* An answer reaches one slot that waits for it, or nobody.                *)
LEMMA AnswerFacts ==
    ASSUME NEW m, NEW n, NEW result, NEW content, Answer(m, n, result, content),
           quorum \in {FirstQuorum, SecondQuorum}
    PROVE  \/ UNCHANGED threads
           \/ \E s \in Slots :
                /\ n = call /\ quorum[s] = m /\ thread[s] = "waiting"
                /\ thread' = [thread EXCEPT ![s] = result]
                /\ reply' = [reply EXCEPT ![s] = content]
<1>1. CASE n = call /\ \E s \in Slots : quorum[s] = m /\ thread[s] = "waiting"
  <2> DEFINE c == CHOOSE s \in Slots : quorum[s] = m
  <2>1. PICK s \in Slots : quorum[s] = m /\ thread[s] = "waiting"
    BY <1>1
  <2>2. c \in Slots /\ quorum[c] = m
    BY <2>1
  <2>3. c = s
    BY <2>1, <2>2, QuorumFacts
  <2>4. thread' = [thread EXCEPT ![c] = result] /\ reply' = [reply EXCEPT ![c] = content]
    BY <1>1 DEF Answer
  <2> QED BY <1>1, <2>1, <2>3, <2>4
<1>2. CASE ~(n = call /\ \E s \in Slots : quorum[s] = m /\ thread[s] = "waiting")
  BY <1>2 DEF Answer
<1> QED BY <1>1, <1>2

-----------------------------------------------------------------------------
(* What the members and most faults leave alone. *)

MemberOrFault ==
    \/ \E m \in Members : MemberStep(m)
    \/ \E s \in Slots : GiveUp(s)
    \/ \E m \in Members : PartyDies(m) \/ Restart(m)
    \/ UNCHANGED vars

(* What members and faults leave alone.                                    *)
LEMMA MemberLeaves ==
    MemberOrFault => UNCHANGED <<coordinator, phi, lies, counterparty, value, asked>>
BY DEF MemberOrFault, MemberStep, HandleReveal, StartParty, RejectStep, PartyDone,
       PartyFails, GiveUp, PartyDies, Restart, vars, around, history, members, material

(* What happens at a member changes threads by an answer, or one thread    *)
(* gives up.                                                               *)
ThreadStep ==
    \/ UNCHANGED threads
    \/ \E s \in Slots, result \in {"ok", "error"} : \E content :
         /\ thread[s] = "waiting"
         /\ thread' = [thread EXCEPT ![s] = result]
         /\ reply' = [reply EXCEPT ![s] = content]
    \/ \E s \in Slots :
         /\ thread[s] = "waiting"
         /\ thread' = [thread EXCEPT ![s] = "error"]
         /\ UNCHANGED reply

(* Under a quorum, what members do to the driver's threads is an answer or *)
(* an error.                                                               *)
LEMMA MemberThreads ==
    ASSUME MemberOrFault, quorum \in {FirstQuorum, SecondQuorum}
    PROVE  ThreadStep
<1> USE AnswerFacts
<1>1. ASSUME NEW m \in Members, HandleReveal(m) PROVE ThreadStep
  <2>1. CASE sid[m]
    <3>1. PICK content \in Disclosed(m) : Answer(m, Request(m).n, "ok", content)
      BY <1>1, <2>1 DEF HandleReveal
    <3> QED BY <3>1 DEF ThreadStep
  <2>2. CASE ~sid[m]
    <3>1. Answer(m, Request(m).n, "error", NoReply)
      BY <1>1, <2>2 DEF HandleReveal
    <3> QED BY <3>1 DEF ThreadStep
  <2> QED BY <2>1, <2>2
<1>2. ASSUME NEW m \in Members, StartParty(m) PROVE ThreadStep
  BY <1>2 DEF StartParty, ThreadStep
<1>3. ASSUME NEW m \in Members, RejectStep(m) PROVE ThreadStep
  <2>1. Answer(m, Request(m).n, "error", NoReply)
    BY <1>3 DEF RejectStep
  <2> QED BY <2>1 DEF ThreadStep
<1>4. ASSUME NEW m \in Members, PartyDone(m) PROVE ThreadStep
  <2>1. \E content : Answer(m, busy[m].n, "ok", content)
    BY <1>4 DEF PartyDone
  <2> QED BY <2>1 DEF ThreadStep
<1>5. ASSUME NEW m \in Members, PartyFails(m) PROVE ThreadStep
  <2>1. Answer(m, busy[m].n, "error", NoReply)
    BY <1>5 DEF PartyFails
  <2> QED BY <2>1 DEF ThreadStep
<1>6. ASSUME NEW s \in Slots, GiveUp(s) PROVE ThreadStep
  <2>1. thread[s] = "waiting" /\ thread' = [thread EXCEPT ![s] = "error"] /\ UNCHANGED reply
    BY <1>6 DEF GiveUp
  <2> QED BY <2>1 DEF ThreadStep
<1>7. ASSUME NEW m \in Members, PartyDies(m) PROVE ThreadStep
  <2>1. Answer(m, busy[m].n, "error", NoReply)
    BY <1>7 DEF PartyDies
  <2> QED BY <2>1 DEF ThreadStep
<1>8. ASSUME NEW m \in Members, Restart(m) PROVE ThreadStep
  <2>1. UNCHANGED threads \/ Answer(m, call, "error", NoReply)
    BY <1>8 DEF Restart
  <2> QED BY <2>1 DEF ThreadStep
<1>9. ASSUME UNCHANGED vars PROVE ThreadStep
  BY <1>9 DEF vars, ThreadStep
<1> QED BY <1>1, <1>2, <1>3, <1>4, <1>5, <1>6, <1>7, <1>8, <1>9 DEF MemberOrFault, MemberStep

-----------------------------------------------------------------------------
(* The driver and the counterparty. *)

(* Operations that move no point and no secret.                            *)
PcMoves ==
    \/ pc' = pc
    \/ pc' = "stopped" /\ pc \notin {"point", "hand"}
    \/ pc \in {"setup", "garble"} /\ pc' \in {"garble", "open"}
    \/ pc = "open" /\ pc' = "prepare"

(* The driver's invariant survives a step that leaves the channel's values *)
(* alone.                                                                  *)
LEMMA ChannelStable ==
    ASSUME DriverInv, PcMoves,
           UNCHANGED <<quorum, points, masked, nextRelease, secret, cpPoints, handed,
                       value, asked>>
    PROVE  /\ ChannelTypes' /\ PointsSent' /\ ReleasesBehind' /\ SecretsHanded'
           /\ AskedAfterNextPoint'
           /\ (pc \in {"setup", "garble", "open"} => quorum = FirstQuorum)'
<1>1. ChannelTypes'
  BY DEF DriverInv, ChannelTypes
<1>2. PointsSent'
  BY DEF DriverInv, PointsSent, PcMoves
<1>3. ReleasesBehind'
  BY DEF DriverInv, ReleasesBehind, PcMoves, Published
<1>4. SecretsHanded'
  BY DEF DriverInv, SecretsHanded, PcMoves, Published
<1>5. AskedAfterNextPoint'
  BY DEF DriverInv, AskedAfterNextPoint
<1>6. (pc \in {"setup", "garble", "open"} => quorum = FirstQuorum)'
  BY DEF DriverInv, PcMoves
<1> QED BY <1>1, <1>2, <1>3, <1>4, <1>5, <1>6

(* What raising an exception does to the driver.                           *)
LEMMA RaiseTypes ==
    ASSUME DriverTypes, Raise
    PROVE  /\ pc' \in {pc, "stopped"}
           /\ pc' \in Calls \cup {"setup", "point", "hand", "crash", "done", "stopped"}
           /\ next' \in Members /\ retries' \in 0..MaxRetries /\ root' \in 1..(1 + retries')
<1>1. CASE pc' = "stopped" /\ UNCHANGED <<next, root, retries>>
  BY <1>1 DEF DriverTypes
<1>2. CASE /\ retries < MaxRetries /\ retries' = retries + 1 /\ next' = 0
           /\ root' = IF pc = "setup" THEN root + 1 ELSE root
           /\ UNCHANGED pc
  <2>1. retries' \in 0..MaxRetries /\ next' \in Members
    BY <1>2, BoundsAssumption DEF DriverTypes, Members
  <2>2. root' \in 1..(1 + retries')
    BY <1>2, BoundsAssumption DEF DriverTypes
  <2> QED BY <1>2, <2>1, <2>2 DEF DriverTypes
<1> QED BY <1>1, <1>2 DEF Raise

(* After a round nobody's thread is under way.                             *)
LEMMA ClearTypes ==
    ASSUME Clear
    PROVE  /\ thread' \in [Slots -> {"none", "waiting", "ok", "error"}] /\ DOMAIN reply' = Slots
           /\ thread' = NoThreads
BY DEF Clear, NoThreads, NoReplies

(* Steps of members, and faults, keep the driver's part of the invariant.  *)
LEMMA MemberDriver == DriverInv /\ MemberOrFault => DriverInv'
<1> SUFFICES ASSUME DriverInv, MemberOrFault PROVE DriverInv'
  OBVIOUS
<1>1. UNCHANGED <<coordinator, phi, lies, counterparty, value, asked>>
  BY MemberLeaves
<1>2. UNCHANGED <<pc, next, retries, root, quorum, points, masked, nextRelease, secret, call,
                  cold, liars, tainted, cpPoints, handed, value, asked>>
  BY <1>1 DEF coordinator, driver, channel, requests, lies, counterparty
<1>3. quorum \in {FirstQuorum, SecondQuorum}
  BY DEF DriverInv, ChannelTypes
<1>4. ThreadStep
  BY <1>3, MemberThreads
<1>5. thread' \in [Slots -> {"none", "waiting", "ok", "error"}] /\ DOMAIN reply' = Slots
  BY <1>4 DEF ThreadStep, threads, DriverInv, DriverTypes
<1>6. faults' \in 0..MaxFaults
  <2>1. faults' = faults \/ (faults < MaxFaults /\ faults' = faults + 1)
    BY DEF MemberOrFault, MemberStep, HandleReveal, StartParty, RejectStep, PartyDone,
           PartyFails, GiveUp, PartyDies, Restart, Fault, vars, around
  <2> QED BY <2>1, BoundsAssumption DEF DriverInv, DriverTypes
<1>7. DriverTypes'
  BY <1>2, <1>5, <1>6 DEF DriverInv, DriverTypes
<1>8. PcMoves
  BY <1>2 DEF PcMoves
<1>9. ThreadsRun'
  <2>1. ThreadsRun /\ thread \in [Slots -> {"none", "waiting", "ok", "error"}]
    BY DEF DriverInv, DriverTypes
  <2>2. CASE UNCHANGED threads
    BY <1>2, <2>1, <2>2 DEF ThreadsRun, threads
  <2>3. CASE \E s \in Slots, result \in {"ok", "error"} :
               thread[s] = "waiting" /\ thread' = [thread EXCEPT ![s] = result]
    <3>1. thread # NoThreads
      BY <2>3 DEF NoThreads
    <3>2. \A s \in Slots : thread'[s] # "none"
      BY <2>1, <2>3, <3>1 DEF ThreadsRun
    <3> QED BY <1>2, <2>1, <3>1, <3>2 DEF ThreadsRun
  <2> QED BY <1>4, <2>2, <2>3 DEF ThreadStep
<1> QED BY <1>2, <1>7, <1>8, <1>9, ChannelStable DEF DriverInv

(* An operation raises: a request failed, or its result was refused.       *)
Raises ==
    \/ (JoinFails \/ PrepareRefused \/ ReleaseRefused)
    \/ PostFails

(* A driver that raises keeps its invariant.                               *)
LEMMA RaisesDriver == DriverInv /\ Raises => DriverInv'
<1> SUFFICES ASSUME DriverInv, Raises PROVE DriverInv'
  OBVIOUS
<1>1. /\ Raise
      /\ UNCHANGED <<channel, requests, lies, counterparty, history>>
      /\ UNCHANGED threads \/ Clear
      /\ faults' = faults \/ (faults < MaxFaults /\ faults' = faults + 1)
  BY DEF Raises, JoinFails, PrepareRefused, ReleaseRefused, PostFails, Fault, around
<1>2. pc \notin {"point", "hand"}
  <2>1. CASE PostFails
    BY <2>1 DEF PostFails
  <2>2. CASE PrepareRefused \/ ReleaseRefused
    BY <2>2 DEF PrepareRefused, ReleaseRefused
  <2>3. CASE JoinFails
    <3>1. thread[1] # "none"
      BY <2>3 DEF JoinFails, Joined, Slots
    <3>2. thread # NoThreads
      BY <3>1 DEF NoThreads, Slots
    <3> QED BY <3>2 DEF DriverInv, ThreadsRun, Calls, Steps
  <2> QED BY <2>1, <2>2, <2>3 DEF Raises
<1>3. UNCHANGED <<quorum, points, masked, nextRelease, secret, call, cold, liars, tainted,
                  cpPoints, handed, value, asked>>
  BY <1>1 DEF channel, requests, lies, counterparty, history
<1>4. DriverTypes
  BY DEF DriverInv
<1>5. DriverTypes'
  <2>1. thread' \in [Slots -> {"none", "waiting", "ok", "error"}] /\ DOMAIN reply' = Slots
    BY <1>1, <1>4, ClearTypes DEF DriverTypes, threads
  <2>2. faults' \in 0..MaxFaults
    BY <1>1, <1>4, BoundsAssumption DEF DriverTypes
  <2> QED BY <1>1, <1>3, <1>4, <2>1, <2>2, RaiseTypes DEF DriverTypes
<1>6. PcMoves
  BY <1>1, <1>2, <1>4, RaiseTypes DEF PcMoves
<1>7. ThreadsRun'
  <2>1. CASE Clear
    BY <2>1, ClearTypes DEF ThreadsRun, NoThreads
  <2>2. CASE PostFails
    BY <2>2 DEF PostFails, DriverInv, ThreadsRun, Calls, Steps, threads
  <2> QED BY <2>1, <2>2 DEF Raises, JoinFails, PrepareRefused, ReleaseRefused
<1> QED BY <1>3, <1>5, <1>6, <1>7, ChannelStable DEF DriverInv

(* The driver's invariant holds at the start.                              *)
LEMMA InitDriver == Init => DriverInv
<1> SUFFICES ASSUME Init PROVE DriverInv
  OBVIOUS
<1>1. DriverTypes
  <2>1. liars \subseteq Members /\ tainted \in BOOLEAN
    BY DEF Init
  <2>2. thread \in [Slots -> {"none", "waiting", "ok", "error"}] /\ DOMAIN reply = Slots
    BY DEF Init, NoThreads, NoReplies
  <2>3. /\ next \in Members /\ call \in Nat /\ cold \in 0..call
        /\ retries \in 0..MaxRetries /\ root \in 1..(1 + retries) /\ faults \in 0..MaxFaults
    BY BoundsAssumption DEF Init, Members
  <2> QED BY <2>1, <2>2, <2>3 DEF Init, DriverTypes
<1>2. ChannelTypes
  BY DEF Init, ChannelTypes, NoSecret, Secrets, Bit
<1>3. ThreadsRun /\ PointsSent /\ ReleasesBehind /\ SecretsHanded /\ AskedAfterNextPoint
  BY DEF Init, ThreadsRun, PointsSent, ReleasesBehind, SecretsHanded, AskedAfterNextPoint,
         Published
<1> QED BY <1>1, <1>2, <1>3 DEF DriverInv, Init

(* A setup, an opening that goes on: neither touches points or secrets.    *)
LEMMA OpeningDriver == DriverInv /\ (Setup \/ Garbled \/ Opened) => DriverInv'
<1> SUFFICES ASSUME DriverInv, Setup \/ Garbled \/ Opened PROVE DriverInv'
  OBVIOUS
<1>1. UNCHANGED <<retries, root, quorum, points, masked, nextRelease, secret, call, cold, faults,
                  liars, cpPoints, handed, value, asked>>
  BY DEF Setup, Garbled, Opened, channel, requests, around, lies, counterparty, history
<1>2. PcMoves
  BY DEF Setup, Garbled, Opened, PcMoves
<1>3. /\ pc' \in {"setup", "garble", "open", "prepare"}
      /\ next' \in Members /\ tainted' \in BOOLEAN
      /\ UNCHANGED threads \/ Clear
  <2>1. CASE Setup
    BY <2>1 DEF Setup, around, lies, DriverInv, DriverTypes, Members
  <2>2. CASE Garbled
    BY <2>2 DEF Garbled, around, lies, DriverInv, DriverTypes
  <2>3. CASE Opened
    BY <2>3 DEF Opened, Lied, DriverInv, DriverTypes
  <2> QED BY <2>1, <2>2, <2>3
<1>4. DriverTypes'
  BY <1>1, <1>3, ClearTypes DEF DriverInv, DriverTypes, threads, Calls, Steps
<1>5. ThreadsRun'
  <2>1. CASE Clear
    BY <2>1, ClearTypes DEF ThreadsRun
  <2>2. CASE Setup
    BY <2>2 DEF Setup, ThreadsRun, threads, DriverInv, Calls, Steps
  <2> QED BY <2>1, <2>2 DEF Garbled, Opened
<1> QED BY <1>1, <1>2, <1>4, <1>5, ChannelStable DEF DriverInv

(* Asking for the summands of a commitment is where asked grows: the       *)
(* counterparty has the point of the one after it by then.                 *)
LEMMA AskDriver == DriverInv /\ Ask => DriverInv'
<1> SUFFICES ASSUME DriverInv, Ask PROVE DriverInv'
  OBVIOUS
<1>1. UNCHANGED <<pc, next, retries, root, quorum, points, masked, nextRelease, secret, faults,
                  liars, tainted, cpPoints, handed, value, reply>>
  BY DEF Ask, driver, channel, lies, counterparty
<1>2. DriverTypes'
  <2>1. call' \in Nat /\ cold' \in 0..call'
    BY DEF Ask, DriverInv, DriverTypes
  <2>2. thread' \in [Slots -> {"none", "waiting", "ok", "error"}]
    BY DEF Ask
  <2> QED BY <1>1, <2>1, <2>2 DEF DriverInv, DriverTypes
<1>3. ThreadsRun'
  BY <1>1 DEF Ask, ThreadsRun, DriverInv, DriverTypes
<1>4. asked' \subseteq Nat /\ AskedAfterNextPoint'
  <2>1. CASE pc = "release"
    <3>1. Revoking \in Nat /\ Revoking + 2 <= Len(cpPoints)
      BY <2>1 DEF DriverInv, ChannelTypes, ReleasesBehind, PointsSent, Published, Revoking
    <3>2. asked' = asked \cup {Revoking}
      BY <2>1 DEF Ask
    <3> QED BY <1>1, <3>1, <3>2 DEF DriverInv, ChannelTypes, AskedAfterNextPoint
  <2>2. CASE pc # "release"
    BY <1>1, <2>2 DEF Ask, DriverInv, ChannelTypes, AskedAfterNextPoint
  <2> QED BY <2>1, <2>2
<1>5. ChannelTypes'
  BY <1>1, <1>4 DEF DriverInv, ChannelTypes
<1>6. PointsSent' /\ ReleasesBehind' /\ SecretsHanded'
  BY <1>1 DEF DriverInv, PointsSent, ReleasesBehind, SecretsHanded, Published
<1> QED BY <1>1, <1>2, <1>3, <1>4, <1>5, <1>6 DEF DriverInv

(* The crash, and the new quorum's restore: the leaves may be hidden anew, *)
(* no point changes.                                                       *)
LEMMA CrashDriver == DriverInv /\ Crash => DriverInv'
<1> SUFFICES ASSUME DriverInv, Crash PROVE DriverInv'
  OBVIOUS
<1>1. UNCHANGED <<retries, root, points, masked, nextRelease, secret, faults, call, cold, thread,
                  reply, liars, tainted, cpPoints, handed, value, asked>>
  BY DEF Crash, requests, threads, around, lies, counterparty, history
<1>2. /\ pc = "crash" /\ pc' \in {"crash", "restore", "prepare", "done"} /\ next' \in Members
      /\ quorum' \in {FirstQuorum, SecondQuorum}
  BY DEF Crash, DriverInv, DriverTypes, ChannelTypes, Members
<1>3. DriverTypes'
  BY <1>1, <1>2 DEF DriverInv, DriverTypes, Calls, Steps
<1>4. ChannelTypes'
  BY <1>1, <1>2 DEF DriverInv, ChannelTypes
<1>5. ThreadsRun'
  BY <1>1, <1>2 DEF DriverInv, ThreadsRun, Calls, Steps, NoThreads
<1>6. PointsSent' /\ ReleasesBehind' /\ SecretsHanded' /\ AskedAfterNextPoint'
  BY <1>1, <1>2 DEF DriverInv, PointsSent, ReleasesBehind, SecretsHanded, AskedAfterNextPoint,
                    Published
<1> QED BY <1>2, <1>3, <1>4, <1>5, <1>6 DEF DriverInv

(* A driver restored after a crash has its invariant again.                *)
LEMMA RestoredDriver == DriverInv /\ Restored => DriverInv'
<1> SUFFICES ASSUME DriverInv, Restored PROVE DriverInv'
  OBVIOUS
<1>1. UNCHANGED <<next, retries, root, quorum, points, nextRelease, secret, faults, call, cold,
                  liars, cpPoints, handed, value, asked>>
  BY DEF Restored, requests, counterparty, history
<1>2. pc = "restore" /\ pc' \in {"prepare", "done"} /\ Clear /\ tainted' \in BOOLEAN
  BY DEF Restored, Lied, DriverInv, DriverTypes
<1>3. masked' \in Seq(Bit) /\ Len(masked') = Len(masked)
  <2>1. PICK bits \in [nextRelease + 1..Len(masked) -> Outcome(tainted')] :
             masked' = [i \in 1..Len(masked) |->
                          IF i > nextRelease THEN bits[i] ELSE masked[i]]
    BY DEF Restored
  <2>2. Outcome(tainted') \subseteq Bit
    BY DEF Outcome, Bit
  <2>3. masked \in Seq(Bit) /\ nextRelease \in Nat
    BY DEF DriverInv, ChannelTypes
  <2>4. \A i \in 1..Len(masked) : masked'[i] \in Bit
    BY <2>1, <2>2, <2>3
  <2> QED BY <2>1, <2>3, <2>4
<1>4. DriverTypes'
  BY <1>1, <1>2, ClearTypes DEF DriverInv, DriverTypes, Calls, Steps
<1>5. ChannelTypes'
  BY <1>1, <1>3 DEF DriverInv, ChannelTypes
<1>6. ThreadsRun'
  BY <1>2, ClearTypes DEF ThreadsRun
<1>7. PointsSent' /\ ReleasesBehind' /\ SecretsHanded' /\ AskedAfterNextPoint'
  BY <1>1, <1>2 DEF DriverInv, PointsSent, ReleasesBehind, SecretsHanded, AskedAfterNextPoint,
                    Published
<1> QED BY <1>2, <1>4, <1>5, <1>6, <1>7 DEF DriverInv

(* What the replies to a prepare add to the point: bits, which are 0 when  *)
(* they come from a member that does not lie.                              *)
LEMMA RepliesArePoints ==
    ASSUME RequestsInv, pc = "prepare", AllOk
    PROVE  /\ \A s \in Slots : /\ reply[s].first \in Bit /\ reply[s].second \in Bit
                               /\ quorum[s] \notin liars =>
                                     reply[s].first = 0 /\ reply[s].second = 0
           /\ PointError \in Bit
<1>1. \A s \in Slots : \E a, b \in PointErrors(quorum[s]) : reply[s] = [first |-> a, second |-> b]
  BY DEF RequestsInv, Replied, AllOk
<1>2. \A s \in Slots : /\ reply[s].first \in Bit /\ reply[s].second \in Bit
                       /\ quorum[s] \notin liars => reply[s].first = 0 /\ reply[s].second = 0
  <2> TAKE s \in Slots
  <2>1. PICK a \in PointErrors(quorum[s]), b \in PointErrors(quorum[s]) :
             reply[s] = [first |-> a, second |-> b]
    BY <1>1
  <2>2. reply[s].first = a /\ reply[s].second = b
    BY <2>1
  <2>3. a \in Bit /\ b \in Bit /\ (quorum[s] \notin liars => a = 0 /\ b = 0)
    BY DEF PointErrors, Bit
  <2> QED BY <2>2, <2>3
<1>3. reply[1].first \in Bit /\ reply[2].first \in Bit /\ reply[3].first \in Bit
  BY <1>2 DEF Slots
<1> QED BY <1>2, <1>3, XorBits DEF PointError

(* A prepared commitment gets its point; it is the only one on its way.    *)
LEMMA PreparedDriver == DriverInv /\ RequestsInv /\ Prepared => DriverInv'
<1> SUFFICES ASSUME DriverInv, RequestsInv, Prepared PROVE DriverInv'
  OBVIOUS
<1>1. UNCHANGED <<next, retries, root, quorum, nextRelease, secret, faults, call, cold,
                  liars, cpPoints, handed, asked>>
  BY DEF Prepared, requests, counterparty
<1>2. pc = "prepare" /\ pc' = "point" /\ Clear /\ tainted' \in BOOLEAN
  BY DEF Prepared, Lied, AfterPrepare, DriverInv, DriverTypes
<1>3. PICK v \in Bit, m \in Bit, p \in Bit :
             /\ value' = Append(value, v)
             /\ masked' = Append(masked, m)
             /\ points' = Append(points, p)
  <2>1. PICK v \in Outcome(tainted'), m \in Outcome(tainted') :
             /\ value' = Append(value, v)
             /\ masked' = Append(masked, m)
             /\ points' = Append(points, Xor(v, PointError))
    BY DEF Prepared
  <2>2. v \in Bit /\ m \in Bit
    BY DEF Outcome, Bit
  <2>3. PointError \in Bit
    BY <1>2, RepliesArePoints DEF Prepared
  <2> QED BY <2>1, <2>2, <2>3, XorBits
<1>4. /\ points \in Seq(Bit) /\ masked \in Seq(Bit) /\ value \in Seq(Bit)
      /\ Len(masked) = Len(points) /\ Len(value) = Len(points) /\ nextRelease \in 0..Len(points)
  BY DEF DriverInv, ChannelTypes
<1>5. /\ points' \in Seq(Bit) /\ Len(points') = Len(points) + 1
      /\ \A i \in 1..Len(points) : points'[i] = points[i]
      /\ masked' \in Seq(Bit) /\ Len(masked') = Len(masked) + 1
      /\ value' \in Seq(Bit) /\ Len(value') = Len(value) + 1
  BY <1>3, <1>4
<1>6. DriverTypes'
  BY <1>1, <1>2, ClearTypes DEF DriverInv, DriverTypes
<1>7. ChannelTypes'
  BY <1>1, <1>4, <1>5 DEF DriverInv, ChannelTypes
<1>8. ThreadsRun'
  BY <1>2, ClearTypes DEF ThreadsRun
<1>9. PointsSent' /\ AskedAfterNextPoint'
  BY <1>1, <1>2, <1>4, <1>5 DEF DriverInv, PointsSent, AskedAfterNextPoint
<1>10. ReleasesBehind'
  BY <1>1, <1>2, <1>4, <1>5 DEF DriverInv, ReleasesBehind, Published
<1>11. SecretsHanded'
  <2>1. Len(handed) = nextRelease /\ handed \in Seq(Secrets)
    BY <1>2 DEF DriverInv, SecretsHanded, ChannelTypes
  <2>2. \A i \in DOMAIN handed : i \in 1..Len(points)
    BY <1>4, <2>1
  <2> QED BY <1>1, <1>2, <1>5, <2>1, <2>2 DEF DriverInv, SecretsHanded
<1> QED BY <1>1, <1>2, <1>6, <1>7, <1>8, <1>9, <1>10, <1>11 DEF DriverInv

(* The point reaches the counterparty.                                     *)
LEMMA SendPointDriver == DriverInv /\ SendPoint => DriverInv'
<1> SUFFICES ASSUME DriverInv, SendPoint PROVE DriverInv'
  OBVIOUS
<1>1. UNCHANGED <<next, retries, root, quorum, points, masked, nextRelease, secret, faults, call,
                  cold, thread, reply, liars, tainted, handed, value, asked>>
  BY DEF SendPoint, channel, requests, threads, lies, history
<1>2. /\ points \in Seq(Bit) /\ cpPoints \in Seq(Bit) /\ Len(points) = Len(cpPoints) + 1
      /\ \A i \in 1..Len(cpPoints) : cpPoints[i] = points[i]
      /\ cpPoints' = Append(cpPoints, points[Len(points)])
  BY DEF SendPoint, DriverInv, PointsSent, ChannelTypes, Published
<1>3. cpPoints' = points
  BY <1>2
<1>4. /\ pc = "point" /\ Published >= 1
      /\ pc' = IF Published > 1 THEN "release" ELSE AfterUpdate(Published)
      /\ AfterUpdate(Published) \in {"prepare", "crash", "done"}
  BY DEF SendPoint, DriverInv, ReleasesBehind, AfterUpdate
<1>5. pc' \in {"release", "prepare", "crash", "done"}
  BY <1>4
<1>6. DriverTypes'
  BY <1>1, <1>5 DEF DriverInv, DriverTypes, Calls, Steps
<1>7. ChannelTypes'
  BY <1>1, <1>2, <1>3 DEF DriverInv, ChannelTypes
<1>8. ThreadsRun'
  BY <1>1, <1>4 DEF DriverInv, ThreadsRun, Calls, Steps
<1>9. PointsSent'
  BY <1>1, <1>3, <1>5 DEF PointsSent
<1>10. AskedAfterNextPoint'
  BY <1>1, <1>2, <1>3 DEF DriverInv, AskedAfterNextPoint, ChannelTypes
<1>11. ReleasesBehind'
  <2>1. nextRelease = Published - 2 \/ Published = 1
    BY <1>4 DEF DriverInv, ReleasesBehind
  <2>2. Published' = Published /\ nextRelease' = nextRelease /\ nextRelease < Published
        /\ nextRelease \in Nat /\ Published \in Nat
    BY <1>1, <1>4 DEF Published, DriverInv, ReleasesBehind, ChannelTypes
  <2>3. CASE Published > 1
    BY <1>4, <2>1, <2>2, <2>3 DEF ReleasesBehind
  <2>4. CASE Published = 1
    BY <1>4, <2>1, <2>2, <2>4 DEF ReleasesBehind
  <2> QED BY <1>4, <2>2, <2>3, <2>4
<1>12. SecretsHanded'
  BY <1>1, <1>4, <1>5 DEF DriverInv, SecretsHanded, Published
<1> QED BY <1>1, <1>5, <1>6, <1>7, <1>8, <1>9, <1>10, <1>11, <1>12 DEF DriverInv

(* The secret accepted is the one behind the point of the commitment that  *)
(* was asked for, the next in order.                                       *)
LEMMA ReleasedDriver == DriverInv /\ Released => DriverInv'
<1> SUFFICES ASSUME DriverInv, Released PROVE DriverInv'
  OBVIOUS
<1>1. UNCHANGED <<next, retries, root, quorum, points, masked, faults, call, cold, liars, tainted,
                  cpPoints, handed, value, asked>>
  BY DEF Released, requests, around, lies, counterparty, history
<1>2. pc = "release" /\ pc' = "hand" /\ Clear
  BY DEF Released
<1>3. /\ Published \in Nat /\ Published >= 2 /\ nextRelease = Published - 2
      /\ Revoking = Published - 2 /\ Revoking + 1 = Published - 1
      /\ points \in Seq(Bit) /\ Len(points) = Published
  BY <1>2 DEF DriverInv, ReleasesBehind, ChannelTypes, Revoking, Published
<1>4. /\ nextRelease' = Published - 1 /\ secret' = [commitment |-> Revoking, error |-> Merged]
      /\ Merged = points[Published - 1]
  BY <1>3 DEF Released, NextRelease, Accepted, MatchesPoint
<1>5. secret' \in Secrets /\ nextRelease' \in 0..Len(points)
  <2>1. points[Published - 1] \in Bit /\ Revoking \in Nat
    BY <1>3
  <2> QED BY <1>3, <1>4, <2>1 DEF Secrets
<1>6. DriverTypes'
  BY <1>1, <1>2, ClearTypes DEF DriverInv, DriverTypes
<1>7. ChannelTypes'
  BY <1>1, <1>5 DEF DriverInv, ChannelTypes
<1>8. ThreadsRun'
  BY <1>2, ClearTypes DEF ThreadsRun
<1>9. PointsSent' /\ AskedAfterNextPoint'
  BY <1>1, <1>2 DEF DriverInv, PointsSent, AskedAfterNextPoint
<1>10. Published' = Published
  BY <1>1 DEF Published
<1>11. ReleasesBehind'
  BY <1>2, <1>3, <1>4, <1>10 DEF ReleasesBehind
<1>12. SecretsHanded'
  <2>1. Len(handed) = nextRelease
    BY <1>2 DEF DriverInv, SecretsHanded
  <2>2. Len(handed') = nextRelease' - 1
    BY <1>1, <1>3, <1>4, <2>1
  <2>3. secret'.commitment = Published - 2 /\ secret'.error = points[Published - 1]
    BY <1>3, <1>4
  <2> QED BY <1>1, <1>2, <1>10, <2>2, <2>3 DEF DriverInv, SecretsHanded
<1> QED BY <1>1, <1>2, <1>6, <1>7, <1>8, <1>9, <1>11, <1>12 DEF DriverInv

(* The secret reaches the counterparty.                                    *)
LEMMA HandSecretDriver == DriverInv /\ HandSecret => DriverInv'
<1> SUFFICES ASSUME DriverInv, HandSecret PROVE DriverInv'
  OBVIOUS
<1>1. UNCHANGED <<next, retries, root, quorum, points, masked, nextRelease, secret, faults, call,
                  cold, thread, reply, liars, tainted, cpPoints, value, asked>>
  BY DEF HandSecret, channel, requests, threads, lies, history
<1>2. pc = "hand" /\ pc' \in {"prepare", "crash", "done", "stopped"}
  BY DEF HandSecret, AfterUpdate
<1>3. /\ Published \in Nat /\ Published >= 2 /\ nextRelease = Published - 1
      /\ points \in Seq(Bit) /\ Len(points) = Published
      /\ secret \in Secrets /\ handed \in Seq(Secrets) /\ Len(handed) = nextRelease - 1
      /\ handed' = Append(handed, secret)
  BY <1>2 DEF DriverInv, ReleasesBehind, ChannelTypes, SecretsHanded, HandSecret, Published
<1>4. /\ handed' \in Seq(Secrets) /\ Len(handed') = nextRelease
      /\ \A i \in DOMAIN handed : handed'[i] = handed[i] /\ i \in DOMAIN handed'
      /\ \A i \in DOMAIN handed' : i \in DOMAIN handed \/ (i = nextRelease /\ handed'[i] = secret)
  BY <1>3
<1>5. DriverTypes'
  BY <1>1, <1>2 DEF DriverInv, DriverTypes, Calls, Steps
<1>6. ChannelTypes'
  BY <1>1, <1>4 DEF DriverInv, ChannelTypes
<1>7. ThreadsRun'
  BY <1>1, <1>2 DEF DriverInv, ThreadsRun, Calls, Steps
<1>8. PointsSent' /\ ReleasesBehind' /\ AskedAfterNextPoint'
  BY <1>1, <1>2, <1>3 DEF DriverInv, PointsSent, ReleasesBehind, AskedAfterNextPoint, Published
<1>9. SecretsHanded'
  <2>1. secret.commitment = nextRelease - 1 /\ secret.error = points[nextRelease]
    BY <1>2, <1>3 DEF DriverInv, SecretsHanded
  <2>2. \A i \in DOMAIN handed' : handed'[i].commitment = i - 1 /\ handed'[i].error = points[i]
    BY <1>4, <2>1 DEF DriverInv, SecretsHanded
  <2> QED BY <1>1, <1>2, <1>4, <2>2 DEF SecretsHanded
<1> QED BY <1>1, <1>2, <1>5, <1>6, <1>7, <1>8, <1>9 DEF DriverInv

(* The driver's part of the invariant, step by step.                       *)
LEMMA DriverStep == DriverInv /\ RequestsInv /\ [Next]_vars => DriverInv'
<1> SUFFICES ASSUME DriverInv, RequestsInv, [Next]_vars PROVE DriverInv'
  OBVIOUS
<1>1. \/ Setup \/ Crash \/ Ask \/ Garbled \/ Opened \/ Restored \/ Prepared
      \/ SendPoint \/ Released \/ HandSecret \/ Raises \/ MemberOrFault
  BY DEF Next, CoordinatorStep, Faults, Ended, Raises, MemberOrFault
<1> QED BY <1>1, OpeningDriver, CrashDriver, AskDriver, RestoredDriver, PreparedDriver,
           SendPointDriver, ReleasedDriver, HandSecretDriver, RaisesDriver, MemberDriver

-----------------------------------------------------------------------------
(* Requests on their way. *)

(* What a step that sends nothing does to a member's queue: it serves the  *)
(* first request, ends the one being served, or loses some.                *)
MovesOn(m) ==
    \/ inbox'[m] = inbox[m] /\ busy'[m] \in {busy[m], Idle}
    \/ /\ busy[m] = Idle /\ inbox[m] # << >> /\ inbox'[m] = Tail(inbox[m])
       /\ busy'[m] = Idle \/ (busy'[m] = Head(inbox[m]) /\ Head(inbox[m]).op \in Steps)
    \/ inbox'[m] = << >> /\ busy'[m] = Idle
    \/ inbox'[m] = Without(inbox[m]) /\ busy'[m] = busy[m]

Queues(m) == inbox[m] \in Seq(Requests) /\ busy[m] \in Requests \cup {Idle}

(* A request is not the record of an idle member.                          *)
LEMMA RequestNotIdle == Idle \notin Requests
BY DEF Idle, Requests, Calls, Steps

(* A queue that moves on stays in order, and nothing new is in it.         *)
LEMMA QueueMoves ==
    ASSUME NEW m \in Members, Queues(m), InOrder(m), MovesOn(m)
    PROVE  Queues(m)' /\ InOrder(m)' /\ Pending(m)' \subseteq Pending(m)
<1>1. CASE inbox'[m] = inbox[m] /\ busy'[m] \in {busy[m], Idle}
  BY <1>1 DEF Queues, InOrder, Pending
<1>2. CASE /\ busy[m] = Idle /\ inbox[m] # << >> /\ inbox'[m] = Tail(inbox[m])
           /\ busy'[m] = Idle \/ (busy'[m] = Head(inbox[m]) /\ Head(inbox[m]).op \in Steps)
  <2>1. /\ inbox[m] \in Seq(Requests) /\ inbox[m] # << >>
        /\ inbox'[m] \in Seq(Requests) /\ DOMAIN inbox'[m] = 1..(Len(inbox[m]) - 1)
        /\ \A i \in DOMAIN inbox'[m] : inbox'[m][i] = inbox[m][i + 1] /\ i + 1 \in DOMAIN inbox[m]
        /\ Head(inbox[m]) = inbox[m][1] /\ 1 \in DOMAIN inbox[m] /\ inbox[m][1] \in Requests
    BY <1>2 DEF Queues
  <2>2. Queues(m)'
    BY <1>2, <2>1 DEF Queues
  <2>3. InOrder(m)'
    <3>1. \A i, j \in DOMAIN inbox'[m] : i < j => inbox'[m][i].n < inbox'[m][j].n
      <4> TAKE i, j \in DOMAIN inbox'[m]
      <4> HAVE i < j
      <4>1. i + 1 \in DOMAIN inbox[m] /\ j + 1 \in DOMAIN inbox[m] /\ i + 1 < j + 1
        BY <2>1
      <4>2. inbox[m][i + 1].n < inbox[m][j + 1].n
        BY <4>1 DEF InOrder
      <4> QED BY <2>1, <4>2
    <3>2. \A i \in DOMAIN inbox'[m] : inbox[m][1].n < inbox'[m][i].n
      BY <2>1 DEF InOrder
    <3> QED BY <1>2, <2>1, <3>1, <3>2 DEF InOrder
  <2>4. Pending(m)' \subseteq Pending(m)
    BY <1>2, <2>1 DEF Pending
  <2> QED BY <2>2, <2>3, <2>4
<1>3. CASE inbox'[m] = << >> /\ busy'[m] = Idle
  BY <1>3 DEF Queues, InOrder, Pending
<1>4. CASE inbox'[m] = Without(inbox[m]) /\ busy'[m] = busy[m]
  <2>1. CASE Without(inbox[m]) = inbox[m]
    BY <1>4, <2>1 DEF Queues, InOrder, Pending
  <2>2. CASE inbox[m] # << >> /\ Without(inbox[m]) = SubSeq(inbox[m], 1, Len(inbox[m]) - 1)
    <3>1. /\ inbox'[m] \in Seq(Requests) /\ DOMAIN inbox'[m] \subseteq DOMAIN inbox[m]
          /\ \A i \in DOMAIN inbox'[m] : inbox'[m][i] = inbox[m][i]
      BY <1>4, <2>2 DEF Queues
    <3> QED BY <1>4, <3>1 DEF Queues, InOrder, Pending
  <2> QED BY <2>1, <2>2 DEF Without
<1> QED BY <1>1, <1>2, <1>3, <1>4 DEF MovesOn

(* Steps of members, and faults, send nothing.                             *)
LEMMA MemberMovesOn ==
    ASSUME MemberTypes, MemberOrFault, quorum \in {FirstQuorum, SecondQuorum}
    PROVE  /\ \A m \in Members : MovesOn(m)
           /\ (inbox' = [m \in Members |-> inbox'[m]]) /\ (busy' = [m \in Members |-> busy'[m]])
<1>1. /\ DOMAIN inbox = Members /\ inbox = [m \in Members |-> inbox[m]]
      /\ DOMAIN busy = Members /\ busy = [m \in Members |-> busy[m]]
  BY DEF MemberTypes
<1> DEFINE Done == /\ \A m \in Members : MovesOn(m)
                   /\ (inbox' = [m \in Members |-> inbox'[m]]) /\ (busy' = [m \in Members |-> busy'[m]])
<1>2. ASSUME NEW m \in Members, HandleReveal(m) \/ RejectStep(m) PROVE Done
  BY <1>1, <1>2 DEF HandleReveal, RejectStep, MovesOn
<1>3. ASSUME NEW m \in Members, StartParty(m) PROVE Done
  <2>1. /\ inbox' = [inbox EXCEPT ![m] = Tail(inbox[m])] /\ inbox[m] # << >> /\ busy[m] = Idle
        /\ busy' = [busy EXCEPT ![m] = Head(inbox[m])] /\ Head(inbox[m]).op \in Steps
    BY <1>3 DEF StartParty, Request
  <2>2. (inbox' = [k \in Members |-> inbox'[k]]) /\ (busy' = [k \in Members |-> busy'[k]])
    BY <1>1, <2>1
  <2>3. MovesOn(m)
    BY <1>1, <2>1 DEF MovesOn
  <2>4. ASSUME NEW k \in Members, k # m PROVE MovesOn(k)
    BY <1>1, <2>1, <2>4 DEF MovesOn
  <2> QED BY <2>2, <2>3, <2>4
<1>4. ASSUME NEW m \in Members, PartyDone(m) \/ PartyFails(m) \/ PartyDies(m) PROVE Done
  BY <1>1, <1>4 DEF PartyDone, PartyFails, PartyDies, MovesOn
<1>5. ASSUME NEW m \in Members, Restart(m) PROVE Done
  BY <1>1, <1>5 DEF Restart, MovesOn
<1>6. ASSUME NEW s \in Slots, GiveUp(s) PROVE Done
  <2>1. quorum[s] \in Members
    BY QuorumFacts
  <2>2. inbox' = inbox \/ inbox' = [inbox EXCEPT ![quorum[s]] = Without(inbox[quorum[s]])]
    BY <1>6 DEF GiveUp
  <2>3. busy' = busy
    BY <1>6 DEF GiveUp
  <2> QED BY <1>1, <2>1, <2>2, <2>3 DEF MovesOn
<1>7. ASSUME UNCHANGED vars PROVE Done
  BY <1>1, <1>7 DEF vars, members, work, MovesOn
<1> QED BY <1>2, <1>3, <1>4, <1>5, <1>6, <1>7 DEF MemberOrFault, MemberStep

(* The coordinator's steps that send nothing leave every queue alone, and  *)
(* no thread runs after them.                                              *)
DriverMoves ==
    \/ Setup \/ Crash \/ Garbled \/ Opened \/ Restored \/ Prepared
    \/ SendPoint \/ Released \/ HandSecret \/ Raises

(* What the driver's own moves leave alone.                                *)
LEMMA DriverLeaves ==
    ASSUME DriverInv, DriverMoves
    PROVE  /\ UNCHANGED <<call, cold, pkg, inbox, busy, joined, doomed>>
           /\ thread' = NoThreads
<1>1. UNCHANGED <<requests, pkg, work>>
  BY DEF DriverMoves, Setup, Crash, Garbled, Opened, Restored, Prepared, SendPoint, Released,
         HandSecret, Raises, JoinFails, PrepareRefused, ReleaseRefused, PostFails, members
<1>2. CASE Clear
  BY <1>1, <1>2, ClearTypes DEF requests, work
<1>3. CASE UNCHANGED threads /\ pc \notin Calls
  BY <1>1, <1>3 DEF DriverInv, ThreadsRun, requests, work, threads
<1>4. Clear \/ (UNCHANGED threads /\ pc \notin Calls)
  BY DEF DriverMoves, Setup, Crash, Garbled, Opened, Restored, Prepared, SendPoint, Released,
         HandSecret, Raises, JoinFails, PrepareRefused, ReleaseRefused, PostFails, Calls, Steps
<1> QED BY <1>2, <1>3, <1>4

(* A step either asks the quorum, or it is the driver's or a member's.     *)
LEMMA StepKinds == [Next]_vars => Ask \/ DriverMoves \/ MemberOrFault
BY DEF Next, CoordinatorStep, Faults, Ended, Raises, MemberOrFault, DriverMoves

(* A thread that runs after a member's step ran before it.                 *)
LEMMA ThreadsKept ==
    ASSUME DriverInv, MemberOrFault
    PROVE  thread' # NoThreads => thread # NoThreads
<1>1. ThreadStep
  BY MemberThreads DEF DriverInv, ChannelTypes
<1> QED BY <1>1 DEF ThreadStep, threads, NoThreads

QueueInv(m) == Queues(m) /\ InOrder(m) /\ \A r \in Pending(m) : Sent(r)

(* Every member's queue holds its requests in order.                       *)
LEMMA QueuesHold == ASSUME RequestsInv, NEW m \in Members PROVE QueueInv(m)
BY DEF RequestsInv, MemberTypes, QueueInv, Queues

(* Requests stay in order, and those of the running round are of its       *)
(* operation.                                                              *)
LEMMA QueuesStay ==
    ASSUME DriverInv, RequestsInv, DriverMoves \/ MemberOrFault, NEW m \in Members
    PROVE  QueueInv(m)' /\ Pending(m)' \subseteq Pending(m) /\ UNCHANGED <<call, cold>>
<1>1. QueueInv(m)
  BY QueuesHold
<1>2. MovesOn(m)
  <2>1. CASE DriverMoves
    BY <2>1, DriverLeaves DEF MovesOn
  <2>2. CASE MemberOrFault
    BY <2>2, MemberMovesOn DEF RequestsInv, DriverInv, ChannelTypes
  <2> QED BY <2>1, <2>2
<1>3. Queues(m)' /\ InOrder(m)' /\ Pending(m)' \subseteq Pending(m)
  BY <1>1, <1>2, QueueMoves DEF QueueInv
<1>4. UNCHANGED <<call, cold>> /\ (thread' # NoThreads => thread # NoThreads /\ pc' = pc)
  <2>1. CASE DriverMoves
    BY <2>1, DriverLeaves
  <2>2. CASE MemberOrFault
    BY <2>2, MemberLeaves, ThreadsKept DEF coordinator, driver, requests
  <2> QED BY <2>1, <2>2
<1>5. ASSUME NEW r \in Pending(m)' PROVE Sent(r)'
  <2>1. Sent(r)
    BY <1>1, <1>3 DEF QueueInv
  <2> QED BY <1>4, <2>1 DEF Sent
<1>6. \A r \in Pending(m)' : Sent(r)'
  BY <1>5
<1> QED BY <1>3, <1>4, <1>6 DEF QueueInv

(* What Ask adds to a queue.                                               *)
LEMMA QueuesAsked ==
    ASSUME DriverInv, RequestsInv, Ask, NEW m \in Members,
           NEW req, req = [op |-> pc, n |-> call + 1, cold |-> cold']
    PROVE  /\ QueueInv(m)'
           /\ Pending(m)' \subseteq Pending(m) \/ /\ \E s \in Slots : quorum[s] = m
                                                  /\ Pending(m)' \subseteq Pending(m) \cup {req}
<1>1. QueueInv(m)
  BY QueuesHold
<1>2. /\ busy' = busy /\ pc' = pc /\ pc \in Calls
      /\ call \in Nat /\ call' = call + 1
      /\ cold' = (IF pc = "garble" THEN call + 1 ELSE cold) /\ cold' \in Nat
      /\ thread = NoThreads
  BY DEF Ask, driver, DriverInv, DriverTypes
<1>3. inbox'[m] = IF \E s \in Slots : quorum[s] = m THEN Append(inbox[m], req) ELSE inbox[m]
  BY DEF Ask
<1>4. req \in Requests /\ req.n = call' /\ req.op = pc' /\ req.cold = cold'
  BY <1>2 DEF Requests
<1>5. \A r \in Pending(m) : r.n \in 1..call
  BY <1>1 DEF QueueInv, Sent
<1>6. ASSUME NEW r \in Pending(m) PROVE Sent(r)'
  <2>1. Sent(r)
    BY <1>1, <1>6 DEF QueueInv
  <2>2. r.n \in 1..call' /\ r.n # call'
    BY <1>2, <1>5, <1>6
  <2> QED BY <2>1, <2>2 DEF Sent
<1>7. Sent(req)'
  <2>1. call' \in 1..call'
    BY <1>2
  <2> QED BY <1>2, <1>4, <2>1 DEF Sent
<1>8. CASE inbox'[m] = inbox[m]
  <2>1. Pending(m)' = Pending(m) /\ Queues(m)' /\ InOrder(m)'
    BY <1>1, <1>2, <1>8 DEF Pending, Queues, InOrder, QueueInv
  <2> QED BY <1>6, <2>1 DEF QueueInv
<1>9. CASE inbox'[m] = Append(inbox[m], req) /\ \E s \in Slots : quorum[s] = m
  <2>1. /\ inbox[m] \in Seq(Requests) /\ inbox'[m] \in Seq(Requests)
        /\ DOMAIN inbox'[m] = 1..(Len(inbox[m]) + 1) /\ Len(inbox[m]) \in Nat
        /\ \A i \in DOMAIN inbox[m] : inbox'[m][i] = inbox[m][i]
        /\ inbox'[m][Len(inbox[m]) + 1] = req
        /\ \A i \in DOMAIN inbox'[m] : i \in DOMAIN inbox[m] \/ i = Len(inbox[m]) + 1
    BY <1>1, <1>4, <1>9 DEF QueueInv, Queues
  <2>2. \A i \in DOMAIN inbox[m] : inbox[m][i] \in Pending(m)
    BY DEF Pending
  <2>3. \A i \in DOMAIN inbox[m] : inbox[m][i].n < call'
    BY <1>2, <1>5, <2>2
  <2>4. busy[m] # Idle => busy[m].n < call'
    BY <1>2, <1>5 DEF Pending
  <2>5. InOrder(m)'
    <3>1. \A i, j \in DOMAIN inbox'[m] : i < j => inbox'[m][i].n < inbox'[m][j].n
      <4> TAKE i, j \in DOMAIN inbox'[m]
      <4> HAVE i < j
      <4>1. i \in DOMAIN inbox[m]
        BY <2>1
      <4>2. CASE j \in DOMAIN inbox[m]
        BY <1>1, <2>1, <4>1, <4>2 DEF QueueInv, InOrder
      <4>3. CASE j = Len(inbox[m]) + 1
        BY <1>4, <2>1, <2>3, <4>1, <4>3
      <4> QED BY <2>1, <4>2, <4>3
    <3>2. busy[m] # Idle => /\ busy[m].op \in Steps
                            /\ \A i \in DOMAIN inbox'[m] : busy[m].n < inbox'[m][i].n
      BY <1>1, <1>4, <2>1, <2>4 DEF QueueInv, InOrder
    <3> QED BY <1>2, <3>1, <3>2 DEF InOrder
  <2>6. Pending(m)' \subseteq Pending(m) \cup {req}
    BY <1>2, <2>1 DEF Pending
  <2>7. Queues(m)'
    BY <1>1, <1>2, <2>1 DEF QueueInv, Queues
  <2> QED BY <1>6, <1>7, <1>9, <2>5, <2>6, <2>7 DEF QueueInv
<1> QED BY <1>3, <1>8, <1>9

-----------------------------------------------------------------------------
(* Seeds, packages, and who has joined a call. *)

(* Only a setup changes the seeds a member holds.                          *)
LEMMA SeedsMove ==
    ASSUME [Next]_vars
    PROVE  \/ phi' = phi
           \/ pc = "setup" /\ phi' = [phi EXCEPT ![next] = Delivered(next)]
BY DEF Next, CoordinatorStep, MemberStep, Faults, Setup, Crash, Ask, JoinFails, Garbled, Opened,
       Restored, Prepared, PrepareRefused, SendPoint, Released, ReleaseRefused, HandSecret,
       HandleReveal, StartParty, RejectStep, PartyDone, PartyFails, PostFails, GiveUp, PartyDies,
       Restart, Ended, vars, members, material

(* Whether a member has a session stays a yes or no.                       *)
LEMMA SidTypes ==
    ASSUME [Next]_vars, sid \in [Members -> BOOLEAN]
    PROVE  sid' \in [Members -> BOOLEAN]
<1>1. \/ sid' = sid
      \/ \E m : sid' = [sid EXCEPT ![m] = TRUE]
      \/ \E m : sid' = [sid EXCEPT ![m] = FALSE]
  BY DEF Next, CoordinatorStep, MemberStep, Faults, Setup, Crash, Ask, JoinFails, Garbled, Opened,
       Restored, Prepared, PrepareRefused, SendPoint, Released, ReleaseRefused, HandSecret,
       HandleReveal, StartParty, RejectStep, PartyDone, PartyFails, PostFails, GiveUp, PartyDies,
       Restart, Ended, vars, members, material
<1> QED BY <1>1

(* What a member's step, or a fault, does to the packages and the calls.   *)
LEMMA CallsMove ==
    ASSUME DriverInv, RequestsInv, MemberOrFault
    PROVE  /\ \/ pkg' = pkg
              \/ \E m \in Members : PartyDone(m) /\ busy[m] \in Pending(m)
                                    /\ pkg' = [pkg EXCEPT ![m] = PackagesAfter(m, busy[m])]
           /\ joined' \subseteq joined \cup (Members \X (1..call))
           /\ doomed' \subseteq doomed \cup (1..call)
<1>1. \A m \in Members : \A r \in Pending(m) : r.n \in 1..call
  BY DEF RequestsInv, Sent
<1>2. \A m \in Members : busy[m] # Idle => busy[m] \in Pending(m)
  BY DEF Pending
<1>3. \A m \in Members : inbox[m] # << >> => Request(m) \in Pending(m)
  <2> TAKE m \in Members
  <2> HAVE inbox[m] # << >>
  <2>1. inbox[m] \in Seq(Requests)
    BY DEF RequestsInv, MemberTypes
  <2>2. 1 \in DOMAIN inbox[m] /\ Request(m) = inbox[m][1]
    BY <2>1 DEF Request
  <2> QED BY <2>2 DEF Pending
<1> DEFINE Done == /\ \/ pkg' = pkg
                      \/ \E m \in Members : PartyDone(m) /\ busy[m] \in Pending(m)
                                    /\ pkg' = [pkg EXCEPT ![m] = PackagesAfter(m, busy[m])]
                   /\ joined' \subseteq joined \cup (Members \X (1..call))
                   /\ doomed' \subseteq doomed \cup (1..call)
<1>4. ASSUME NEW m \in Members, HandleReveal(m) PROVE Done
  BY <1>4 DEF HandleReveal
<1>5. ASSUME NEW m \in Members, StartParty(m) PROVE Done
  BY <1>1, <1>3, <1>5 DEF StartParty
<1>6. ASSUME NEW m \in Members, RejectStep(m) PROVE Done
  BY <1>1, <1>3, <1>6 DEF RejectStep
<1>7. ASSUME NEW m \in Members, PartyDone(m) PROVE Done
  <2>1. busy[m] # Idle /\ pkg' = [pkg EXCEPT ![m] = PackagesAfter(m, busy[m])]
        /\ joined' = joined /\ doomed' = doomed
    BY <1>7 DEF PartyDone
  <2> QED BY <1>2, <1>7, <2>1
<1>8. ASSUME NEW m \in Members, PartyFails(m) PROVE Done
  BY <1>8 DEF PartyFails
<1>9. ASSUME NEW s \in Slots, GiveUp(s) PROVE Done
  <2>1. call \in 1..call
    BY <1>9 DEF GiveUp, DriverInv, ThreadsRun, DriverTypes, NoThreads
  <2> QED BY <1>9, <2>1 DEF GiveUp
<1>10. ASSUME NEW m \in Members, PartyDies(m) PROVE Done
  BY <1>1, <1>2, <1>10 DEF PartyDies
<1>11. ASSUME NEW m \in Members, Restart(m) PROVE Done
  BY <1>1, <1>11 DEF Restart
<1>12. ASSUME UNCHANGED vars PROVE Done
  BY <1>12 DEF vars, members, work
<1> QED BY <1>4, <1>5, <1>6, <1>7, <1>8, <1>9, <1>10, <1>11, <1>12 DEF MemberOrFault, MemberStep

(* Every step keeps the types of the members' state.                       *)
LEMMA MemberTypesStep == DriverInv /\ RequestsInv /\ [Next]_vars => MemberTypes'
<1> SUFFICES ASSUME DriverInv, RequestsInv, [Next]_vars PROVE MemberTypes'
  OBVIOUS
<1>1. MemberTypes /\ DriverTypes
  BY DEF RequestsInv, DriverInv
<1>2. DOMAIN phi' = Members /\ \A m \in Members : phi'[m] = << >> \/ DOMAIN phi'[m] = Members \ {m}
  <2>1. \A m \in Members : DOMAIN Delivered(m) = Members \ {m}
    BY DEF Delivered, Held
  <2>2. CASE phi' = phi
    BY <1>1, <2>2 DEF MemberTypes
  <2>3. CASE phi' = [phi EXCEPT ![next] = Delivered(next)]
    BY <1>1, <2>1, <2>3 DEF MemberTypes, DriverTypes
  <2> QED BY <2>2, <2>3, SeedsMove
<1>3. sid' \in [Members -> BOOLEAN]
  BY <1>1, SidTypes DEF MemberTypes
<1>4. /\ pkg' \in [Members -> SUBSET (1..call')]
      /\ joined' \subseteq Members \X (1..call') /\ doomed' \subseteq 1..call'
  <2>1. /\ pkg \in [Members -> SUBSET (1..call)] /\ call \in Nat
        /\ joined \subseteq Members \X (1..call) /\ doomed \subseteq 1..call
    BY <1>1 DEF MemberTypes, DriverTypes
  <2>2. CASE Ask
    <3>1. 1..call \subseteq 1..call'
      BY <2>1, <2>2 DEF Ask
    <3>2. pkg' = pkg /\ joined' = joined /\ doomed' = doomed
      BY <2>2 DEF Ask
    <3> QED BY <2>1, <3>1, <3>2
  <2>3. CASE DriverMoves
    BY <2>1, <2>3, DriverLeaves
  <2>4. CASE MemberOrFault
    <3>1. call' = call
      BY <2>4, MemberLeaves DEF coordinator, requests
    <3>2. joined' \subseteq Members \X (1..call) /\ doomed' \subseteq 1..call
      BY <2>1, <2>4, CallsMove
    <3>3. pkg' \in [Members -> SUBSET (1..call)]
      <4>1. ASSUME NEW m \in Members, busy[m] \in Pending(m)
            PROVE  PackagesAfter(m, busy[m]) \subseteq 1..call
        <5>1. Sent(busy[m])
          BY <4>1 DEF RequestsInv
        <5> QED BY <2>1, <5>1 DEF Sent, PackagesAfter
      <4> QED BY <2>1, <2>4, <4>1, CallsMove
    <3> QED BY <3>1, <3>2, <3>3
  <2> QED BY <2>2, <2>3, <2>4, StepKinds
<1>5. (inbox' = [m \in Members |-> inbox'[m]]) /\ (busy' = [m \in Members |-> busy'[m]])
  <2>1. /\ DOMAIN inbox = Members /\ inbox = [m \in Members |-> inbox[m]]
        /\ DOMAIN busy = Members /\ busy = [m \in Members |-> busy[m]]
    BY <1>1 DEF MemberTypes
  <2>2. CASE Ask
    BY <2>1, <2>2 DEF Ask
  <2>3. CASE DriverMoves
    BY <2>1, <2>3, DriverLeaves
  <2>4. CASE MemberOrFault
    BY <1>1, <2>4, MemberMovesOn DEF DriverInv, ChannelTypes
  <2> QED BY <2>2, <2>3, <2>4, StepKinds
<1>6. \A m \in Members : inbox'[m] \in Seq(Requests) /\ busy'[m] \in Requests \cup {Idle}
  <2> TAKE m \in Members
  <2>1. CASE Ask
    BY <2>1, QueuesAsked DEF QueueInv, Queues
  <2>2. CASE DriverMoves \/ MemberOrFault
    BY <2>2, QueuesStay DEF QueueInv, Queues
  <2> QED BY <2>1, <2>2, StepKinds
<1>7. inbox' \in [Members -> Seq(Requests)] /\ busy' \in [Members -> Requests \cup {Idle}]
  BY <1>5, <1>6
<1> QED BY <1>2, <1>3, <1>4, <1>7 DEF MemberTypes

-----------------------------------------------------------------------------
(* Replies. *)

(* A slot keeps its thread and reply, or it is the one that is answered.   *)
LEMMA AnswerSlot ==
    ASSUME NEW m, NEW n, NEW result, NEW content, Answer(m, n, result, content),
           DriverInv, NEW s \in Slots
    PROVE  \/ thread'[s] = thread[s] /\ reply'[s] = reply[s]
           \/ /\ n = call /\ quorum[s] = m /\ thread[s] = "waiting"
              /\ thread'[s] = result /\ reply'[s] = content
<1>1. /\ thread \in [Slots -> {"none", "waiting", "ok", "error"}] /\ DOMAIN reply = Slots
      /\ quorum \in {FirstQuorum, SecondQuorum}
  BY DEF DriverInv, DriverTypes, ChannelTypes
<1>2. CASE UNCHANGED threads
  BY <1>2 DEF threads
<1>3. CASE \E t \in Slots :
             /\ n = call /\ quorum[t] = m /\ thread[t] = "waiting"
             /\ thread' = [thread EXCEPT ![t] = result]
             /\ reply' = [reply EXCEPT ![t] = content]
  BY <1>1, <1>3
<1> QED BY <1>1, <1>2, <1>3, AnswerFacts

(* Who answers a reveal, or ends a process, has nothing of the round left. *)
LEMMA ServedLast ==
    ASSUME RequestsInv, NEW m \in Members
    PROVE  /\ busy[m] = Idle /\ inbox[m] # << >> /\ inbox'[m] = Tail(inbox[m])
              /\ busy'[m] = busy[m]
                => \A r \in Pending(m)' : r.n # Request(m).n
           /\ busy[m] # Idle /\ busy'[m] = Idle /\ inbox'[m] = inbox[m]
                => \A r \in Pending(m)' : r.n # busy[m].n
<1>1. Queues(m) /\ InOrder(m)
  BY QueuesHold DEF QueueInv
<1>2. ASSUME busy[m] = Idle, inbox[m] # << >>, inbox'[m] = Tail(inbox[m]), busy'[m] = busy[m],
             NEW r \in Pending(m)'
      PROVE  r.n # Request(m).n
  <2>1. /\ inbox[m] \in Seq(Requests) /\ Request(m) = inbox[m][1] /\ 1 \in DOMAIN inbox[m]
        /\ \A i \in DOMAIN inbox'[m] : inbox'[m][i] = inbox[m][i + 1] /\ i + 1 \in DOMAIN inbox[m]
                                       /\ 1 < i + 1
    BY <1>1, <1>2 DEF Queues, Request
  <2>2. PICK i \in DOMAIN inbox'[m] : r = inbox'[m][i]
    BY <1>2 DEF Pending
  <2>3. inbox[m][1].n < inbox[m][i + 1].n
    BY <1>1, <2>1 DEF InOrder
  <2>4. inbox[m][1].n \in Nat /\ inbox[m][i + 1].n \in Nat
    <3>1. inbox[m][1] \in Requests /\ inbox[m][i + 1] \in Requests
      BY <2>1
    <3> QED BY <3>1 DEF Requests
  <2> QED BY <2>1, <2>2, <2>3, <2>4
<1>3. ASSUME busy[m] # Idle, busy'[m] = Idle, inbox'[m] = inbox[m], NEW r \in Pending(m)'
      PROVE  r.n # busy[m].n
  <2>1. PICK i \in DOMAIN inbox[m] : r = inbox[m][i]
    BY <1>3 DEF Pending
  <2>2. busy[m].n < inbox[m][i].n
    BY <1>1, <1>3 DEF InOrder
  <2>3. busy[m].n \in Nat /\ inbox[m][i].n \in Nat
    <3>1. busy[m] \in Requests /\ inbox[m][i] \in Requests
      BY <1>1, <1>3 DEF Queues
    <3> QED BY <3>1 DEF Requests
  <2> QED BY <2>1, <2>2, <2>3
<1> QED BY <1>2, <1>3

(* A reply comes from a reveal, or from a process that ends well, and it   *)
(* is for what the driver asked.                                           *)
ByReveal(s) ==
    LET m == quorum[s] IN
      /\ HandleReveal(m) /\ Request(m).n = call /\ pc = "release"
      /\ reply'[s] \in Disclosed(m)

ByParty(s) ==
    LET m == quorum[s] IN
      /\ PartyDone(m) /\ busy[m].n = call /\ busy[m].op = pc /\ busy[m].cold = cold
      /\ pc \in Steps
      /\ \E a, b \in PointErrors(m) : pc = "prepare" => reply'[s] = [first |-> a, second |-> b]

(* A thread that has just got an answer has it from its own member.        *)
LEMMA WhoReplied ==
    ASSUME DriverInv, RequestsInv, MemberOrFault, NEW s \in Slots,
           thread'[s] = "ok", thread[s] # "ok"
    PROVE  quorum[s] \in Members /\ (ByReveal(s) \/ ByParty(s))
<1> USE QuorumFacts
<1>1. quorum[s] \in Members
  BY DEF DriverInv, ChannelTypes
<1>2. MemberTypes /\ \A m \in Members : \A r \in Pending(m) : Sent(r)
  BY DEF RequestsInv
<1>3. thread[s] = "waiting" => pc \in Calls /\ thread # NoThreads
  BY DEF DriverInv, ThreadsRun, NoThreads
<1>4. ASSUME NEW m, NEW n, NEW content, Answer(m, n, "error", content) PROVE FALSE
  BY <1>4, AnswerSlot
<1>5. ASSUME NEW m \in Members, HandleReveal(m) PROVE ByReveal(s)
  <2>1. PICK content \in Disclosed(m) : Answer(m, Request(m).n, "ok", content)
    BY <1>4, <1>5 DEF HandleReveal
  <2>2. Request(m).n = call /\ quorum[s] = m /\ thread[s] = "waiting" /\ reply'[s] = content
    BY <2>1, AnswerSlot
  <2>3. Request(m).op = "release" /\ Sent(Request(m))
    <3>1. inbox[m] # << >> /\ inbox[m] \in Seq(Requests)
      BY <1>2, <1>5 DEF HandleReveal, MemberTypes
    <3>2. Request(m) \in Pending(m)
      BY <3>1 DEF Request, Pending
    <3> QED BY <1>2, <1>5, <3>2 DEF HandleReveal
  <2>4. pc = "release"
    BY <1>3, <2>2, <2>3 DEF Sent
  <2> QED BY <1>5, <2>1, <2>2, <2>4 DEF ByReveal
<1>6. ASSUME NEW m \in Members, StartParty(m) PROVE FALSE
  BY <1>6 DEF StartParty, threads
<1>7. ASSUME NEW m \in Members, RejectStep(m) PROVE FALSE
  BY <1>4, <1>7 DEF RejectStep
<1>8. ASSUME NEW m \in Members, PartyDone(m) PROVE ByParty(s)
  <2>1. PICK a \in PointErrors(m), b \in PointErrors(m) :
             Answer(m, busy[m].n, "ok", IF busy[m].op = "prepare" THEN [first |-> a, second |-> b]
                                        ELSE NoReply)
    BY <1>8 DEF PartyDone
  <2>2. /\ busy[m].n = call /\ quorum[s] = m /\ thread[s] = "waiting"
        /\ reply'[s] = IF busy[m].op = "prepare" THEN [first |-> a, second |-> b] ELSE NoReply
    BY <2>1, AnswerSlot
  <2>3. busy[m] # Idle /\ busy[m].op \in Steps /\ Sent(busy[m])
    <3>1. busy[m] # Idle
      BY <1>8 DEF PartyDone
    <3>2. busy[m] \in Pending(m)
      BY <3>1 DEF Pending
    <3> QED BY <1>2, <3>1, <3>2 DEF RequestsInv, InOrder
  <2>4. busy[m].op = pc /\ busy[m].cold = cold
    BY <1>3, <2>2, <2>3 DEF Sent
  <2> QED BY <1>8, <2>1, <2>2, <2>3, <2>4 DEF ByParty
<1>9. ASSUME NEW m \in Members, PartyFails(m) PROVE FALSE
  BY <1>4, <1>9 DEF PartyFails
<1>10. ASSUME NEW t \in Slots, GiveUp(t) PROVE FALSE
  BY <1>10 DEF GiveUp, DriverInv, DriverTypes
<1>11. ASSUME NEW m \in Members, PartyDies(m) PROVE FALSE
  BY <1>4, <1>11 DEF PartyDies
<1>12. ASSUME NEW m \in Members, Restart(m) PROVE FALSE
  BY <1>4, <1>12 DEF Restart, threads
<1>13. ASSUME UNCHANGED vars PROVE FALSE
  BY <1>13 DEF vars, threads
<1> QED BY <1>1, <1>5, <1>6, <1>7, <1>8, <1>9, <1>10, <1>11, <1>12, <1>13 DEF MemberOrFault, MemberStep

(* A reply that comes in says what it should.                              *)
LEMMA NewReply ==
    ASSUME DriverInv, RequestsInv, MemberOrFault, NEW s \in Slots,
           thread'[s] = "ok", thread[s] # "ok"
    PROVE  Replied(s)'
<1>1. UNCHANGED <<pc, quorum, phi, liars, call, root>>
  BY MemberLeaves DEF coordinator, driver, channel, requests, lies
<1>2. MemberTypes
  BY DEF RequestsInv
<1> PICK m \in Members : quorum[s] = m
  BY WhoReplied
<1>3. PointErrors(m)' = PointErrors(m) /\ Honest(m)' = Honest(m)
  BY <1>1 DEF PointErrors, Honest, Summands
<1>4. CASE ByReveal(s)
  <2>1. m \notin liars => reply'[s] = Honest(m)
    BY <1>4 DEF ByReveal, Disclosed
  <2>2. /\ busy[m] = Idle /\ inbox[m] # << >> /\ inbox'[m] = Tail(inbox[m])
        /\ busy'[m] = busy[m] /\ Request(m).n = call /\ pc = "release"
    BY <1>2, <1>4 DEF ByReveal, HandleReveal, MemberTypes
  <2>3. \A r \in Pending(m)' : r.n # call
    BY <1>2, <2>2, ServedLast
  <2> QED BY <1>1, <1>3, <2>1, <2>2, <2>3 DEF Replied
<1>5. CASE ByParty(s)
  <2>1. /\ busy[m] # Idle /\ busy'[m] = Idle /\ inbox'[m] = inbox[m]
        /\ busy[m].n = call /\ pc # "release"
    BY <1>2, <1>5 DEF ByParty, PartyDone, MemberTypes, Steps
  <2>2. \A r \in Pending(m)' : r.n # call
    BY <1>2, <2>1, ServedLast
  <2>3. pc = "prepare" => \E a, b \in PointErrors(m) : reply'[s] = [first |-> a, second |-> b]
    BY <1>5 DEF ByParty
  <2> QED BY <1>1, <1>3, <2>1, <2>2, <2>3 DEF Replied
<1> QED BY <1>4, <1>5, WhoReplied

(* A reply keeps saying what it said until the threads are joined.         *)
LEMMA OldReply ==
    ASSUME DriverInv, RequestsInv, MemberOrFault, NEW s \in Slots,
           thread'[s] = "ok", thread[s] = "ok"
    PROVE  Replied(s)'
<1>1. UNCHANGED <<pc, quorum, phi, liars, call, root>>
  BY MemberLeaves DEF coordinator, driver, channel, requests, lies
<1>2. quorum[s] \in Members
  BY QuorumFacts DEF DriverInv, ChannelTypes
<1>3. reply'[s] = reply[s]
  <2>1. ThreadStep
    BY MemberThreads DEF DriverInv, ChannelTypes
  <2>2. DOMAIN reply = Slots
    BY DEF DriverInv, DriverTypes
  <2> QED BY <2>1, <2>2 DEF ThreadStep, threads
<1>4. Replied(s)
  BY DEF RequestsInv
<1>5. Pending(quorum[s])' \subseteq Pending(quorum[s])
  BY <1>1, <1>2, QueuesStay DEF Pending
<1>6. Honest(quorum[s])' = Honest(quorum[s]) /\ PointErrors(quorum[s])' = PointErrors(quorum[s])
  BY <1>1 DEF Honest, Summands, PointErrors
<1> QED BY <1>1, <1>3, <1>4, <1>5, <1>6 DEF Replied

(* The requests' part of the invariant.                                    *)
LEMMA RequestsStep == DriverInv /\ RequestsInv /\ [Next]_vars => RequestsInv'
<1> SUFFICES ASSUME DriverInv, RequestsInv, [Next]_vars PROVE RequestsInv'
  OBVIOUS
<1>1. MemberTypes'
  BY MemberTypesStep
<1>2. ASSUME NEW m \in Members PROVE QueueInv(m)'
  BY QueuesStay, QueuesAsked, StepKinds
<1>3. ASSUME NEW s \in Slots, thread'[s] = "ok" PROVE Replied(s)'
  <2>1. CASE Ask
    BY <1>3, <2>1 DEF Ask
  <2>2. CASE DriverMoves
    BY <1>3, <2>2, DriverLeaves DEF NoThreads
  <2>3. CASE MemberOrFault
    BY <1>3, <2>3, OldReply, NewReply
  <2> QED BY <2>1, <2>2, <2>3, StepKinds
<1> QED BY <1>1, <1>2, <1>3 DEF RequestsInv, QueueInv

(* No requests are under way at the start.                                 *)
LEMMA InitRequests == Init => RequestsInv
<1> SUFFICES ASSUME Init PROVE RequestsInv
  OBVIOUS
<1>1. MemberTypes
  BY DEF Init, MemberTypes
<1>2. \A m \in Members : InOrder(m) /\ Pending(m) = {}
  BY DEF Init, InOrder, Pending
<1>3. \A s \in Slots : thread[s] # "ok"
  BY DEF Init, NoThreads
<1> QED BY <1>1, <1>2, <1>3 DEF RequestsInv

-----------------------------------------------------------------------------
(* Liars. *)

(* Points and their values are only added by a prepare, and who lies never *)
(* changes.                                                                *)
LEMMA PointsMove ==
    ASSUME [Next]_vars
    PROVE  liars' = liars /\ (UNCHANGED <<points, value>> \/ Prepared)
<1>1. CASE Ask
  BY <1>1 DEF Ask, channel, lies
<1>2. CASE MemberOrFault
  BY <1>2, MemberLeaves DEF coordinator, channel, lies
<1>3. CASE DriverMoves
  BY <1>3 DEF DriverMoves, Setup, Crash, Garbled, Opened, Restored, Prepared, SendPoint, Released,
              HandSecret, Raises, JoinFails, PrepareRefused, ReleaseRefused, PostFails, channel,
              around, lies, history
<1> QED BY <1>1, <1>2, <1>3, StepKinds

(* Liars can be counted.                                                   *)
LEMMA LiarsFinite ==
    ASSUME liars \subseteq Members
    PROVE  IsFiniteSet(liars) /\ Cardinality(liars) \in Nat
<1>1. 0 \in Int /\ 3 \in Int
  OBVIOUS
<1>2. IsFiniteSet(0..3)
  BY <1>1, FS_Interval
<1>3. IsFiniteSet(liars)
  BY <1>2, FS_Subset DEF Members
<1> QED BY <1>3, FS_CardinalityType

(* Of two members that lie one is too many.                                *)
LEMMA TwoLiars ==
    ASSUME liars \subseteq Members, NEW a \in liars, NEW b \in liars, a # b
    PROVE  Cardinality(liars) >= 2
<1>1. IsFiniteSet(liars)
  BY LiarsFinite
<1>2. Cardinality({a}) = 1 /\ IsFiniteSet({a})
  BY FS_Singleton
<1>3. Cardinality({a} \cup {b}) = 2
  BY <1>2, FS_AddElement
<1>4. Cardinality({a} \cup {b}) <= Cardinality(liars)
  BY <1>1, FS_Subset
<1> QED BY <1>1, <1>3, <1>4, FS_CardinalityType

(* With one liar the cross-check leaves no error in the point: every first *)
(* point is an honest member's, or compared with an honest neighbour's.    *)
LEMMA CrossCheckSound ==
    ASSUME DriverInv, RequestsInv, pc = "prepare", AllOk,
           Cardinality(liars) <= 1, CrossChecked
    PROVE  PointError = 0
<1>1. \A s \in Slots : reply[s].first = reply[Successor(s)].second
  BY DEF CrossChecked
<1>2. \A s \in Slots : quorum[s] \notin liars => reply[s].first = 0 /\ reply[s].second = 0
  BY RepliesArePoints
<1>3. ASSUME NEW s \in Slots, NEW t \in Slots, quorum[s] \in liars, quorum[t] \in liars
      PROVE  s = t
  <2>1. quorum[s] = quorum[t]
    <3>1. liars \subseteq Members
      BY DEF DriverInv, DriverTypes
    <3>2. Cardinality(liars) \in Nat
      BY <3>1, LiarsFinite
    <3> QED BY <1>3, <3>1, <3>2, TwoLiars
  <2> QED BY <2>1, QuorumFacts DEF DriverInv, ChannelTypes
<1>4. ASSUME NEW s \in Slots PROVE reply[s].first = 0
  <2>1. Successor(s) \in Slots /\ Successor(s) # s
    BY DEF Successor, Slots
  <2>2. CASE quorum[s] \notin liars
    BY <1>2, <2>2
  <2>3. CASE quorum[s] \in liars
    <3>1. quorum[Successor(s)] \notin liars
      BY <1>3, <2>1, <2>3
    <3>2. reply[Successor(s)].second = 0
      BY <1>2, <2>1, <3>1
    <3> QED BY <1>1, <3>2
  <2> QED BY <2>2, <2>3
<1>5. reply[1].first = 0 /\ reply[2].first = 0 /\ reply[3].first = 0
  BY <1>4 DEF Slots
<1> QED BY <1>5 DEF PointError, Xor

(* Every step keeps points right that at most one liar had a hand in.      *)
LEMMA OneLiarStep ==
    DriverInv /\ RequestsInv /\ OneLiarPoints /\ [Next]_vars => OneLiarPoints'
<1> SUFFICES ASSUME DriverInv, RequestsInv, OneLiarPoints, [Next]_vars,
                    Cardinality(liars') <= 1
             PROVE  points' = value'
  BY DEF OneLiarPoints
<1>1. liars' = liars /\ points = value
  BY PointsMove DEF OneLiarPoints
<1>2. CASE UNCHANGED <<points, value>>
  BY <1>1, <1>2
<1>3. CASE Prepared
  <2>1. PointError = 0
    BY <1>1, <1>3, CrossCheckSound DEF Prepared
  <2>2. PICK v \in Outcome(tainted') :
             /\ value' = Append(value, v)
             /\ points' = Append(points, Xor(v, PointError))
    BY <1>3 DEF Prepared
  <2>3. Xor(v, PointError) = v
    BY <2>1, XorBits DEF Outcome, Bit
  <2> QED BY <1>1, <2>2, <2>3
<1> QED BY <1>2, <1>3, PointsMove

-----------------------------------------------------------------------------
(* Honest members. *)

(* Every member holds the dealing in force as soon as the setup is over.   *)
LEMMA DealtStep == DriverInv /\ RequestsInv /\ Dealt /\ [Next]_vars => Dealt'
<1> SUFFICES ASSUME DriverInv, RequestsInv, Dealt, [Next]_vars PROVE Dealt'
  OBVIOUS
<1>1. next \in Members /\ DOMAIN phi = Members
  BY DEF DriverInv, DriverTypes, RequestsInv, MemberTypes
<1>2. ASSUME root' = root, phi' = phi, pc' = pc, next' = next PROVE Dealt'
  BY <1>2 DEF Dealt, Delivered
<1>3. ASSUME root' = root, phi' = phi, pc # "setup", pc # "stopped", pc' # "setup" PROVE Dealt'
  BY <1>3 DEF Dealt, Delivered
<1>4. CASE Setup
  <2>1. /\ pc = "setup" /\ phi' = [phi EXCEPT ![next] = Delivered(next)] /\ root' = root
        /\ \/ next < 3 /\ next' = next + 1 /\ pc' = pc
           \/ next = 3 /\ pc' \in {"garble", "open"}
    BY <1>1, <1>4 DEF Setup, Members
  <2>2. \A m \in Members : Delivered(m)' = Delivered(m)
    BY <2>1 DEF Delivered
  <2>3. \A m \in 0..next : phi'[m] = Delivered(m)
    BY <1>1, <2>1 DEF Dealt, Members
  <2>4. CASE next < 3 /\ next' = next + 1 /\ pc' = pc
    <3>1. \A m \in 0..(next' - 1) : m \in 0..next /\ m \in Members
      BY <1>1, <2>4 DEF Members
    <3> QED BY <2>1, <2>2, <2>3, <2>4, <3>1 DEF Dealt
  <2>5. CASE next = 3 /\ pc' \in {"garble", "open"}
    BY <2>2, <2>3, <2>5 DEF Dealt, Members
  <2> QED BY <2>1, <2>4, <2>5
<1>5. CASE Raises
  <2>1. Raise
    BY <1>5 DEF Raises, JoinFails, PrepareRefused, ReleaseRefused, PostFails
  <2>2. CASE pc' = "stopped"
    BY <2>2 DEF Dealt
  <2>3. CASE next' = 0 /\ pc' = pc /\ root' = IF pc = "setup" THEN root + 1 ELSE root
    <3>1. CASE pc = "setup"
      BY <2>3, <3>1 DEF Dealt
    <3>2. CASE pc # "setup"
      <4>1. phi' = phi /\ root' = root
        BY <1>5, <2>3, <3>2 DEF Raises, JoinFails, PrepareRefused, ReleaseRefused, PostFails,
                                members, material
      <4> QED BY <2>3, <3>2, <4>1 DEF Dealt, Delivered
    <3> QED BY <3>1, <3>2
  <2> QED BY <2>1, <2>2, <2>3 DEF Raise
<1>6. CASE MemberOrFault
  BY <1>2, <1>6, MemberLeaves DEF coordinator, driver
<1>7. CASE Ask
  BY <1>2, <1>7 DEF Ask, driver, material
<1>8. CASE Crash \/ Garbled \/ Opened \/ Restored \/ Prepared \/ SendPoint \/ Released \/ HandSecret
  BY <1>3, <1>8 DEF Crash, Garbled, Opened, Restored, Prepared, SendPoint, Released, HandSecret,
                    members, material, AfterUpdate, AfterPrepare
<1> QED BY <1>4, <1>5, <1>6, <1>7, <1>8, StepKinds DEF DriverMoves

(* Without liars no step is tainted, and no point or leaf is wrong.        *)
LEMMA UntaintedStep == DriverInv /\ RequestsInv /\ Untainted /\ [Next]_vars => Untainted'
<1> SUFFICES ASSUME DriverInv, RequestsInv, Untainted, [Next]_vars, liars' = {}
             PROVE  /\ ~tainted'
                    /\ \A i \in DOMAIN points' : points'[i] = 0
                    /\ \A i \in DOMAIN masked' : masked'[i] = 0
  BY DEF Untainted
<1>1. /\ liars = {} /\ ~tainted
      /\ \A i \in DOMAIN points : points[i] = 0
      /\ \A i \in DOMAIN masked : masked[i] = 0
  BY PointsMove DEF Untainted
<1>2. tainted' \in Lied => ~tainted'
  BY <1>1 DEF Lied
<1>3. ~tainted' => Outcome(tainted') = {0}
  BY DEF Outcome
<1>4. points \in Seq(Bit) /\ masked \in Seq(Bit) /\ nextRelease \in Nat
  BY DEF DriverInv, ChannelTypes
<1>5. CASE UNCHANGED <<tainted, points, masked>>
  BY <1>1, <1>5
<1>6. CASE Opened
  BY <1>1, <1>2, <1>6 DEF Opened, channel
<1>7. CASE Restored
  <2>1. ~tainted' /\ points' = points
    BY <1>2, <1>7 DEF Restored
  <2>2. PICK bits \in [nextRelease + 1..Len(masked) -> {0}] :
             masked' = [i \in 1..Len(masked) |->
                          IF i > nextRelease THEN bits[i] ELSE masked[i]]
    BY <1>3, <1>7, <2>1 DEF Restored
  <2>3. \A i \in DOMAIN masked' : masked'[i] = 0
    BY <1>1, <1>4, <2>2
  <2> QED BY <1>1, <2>1, <2>3
<1>8. CASE Prepared
  <2>1. ~tainted'
    BY <1>2, <1>8 DEF Prepared
  <2>2. masked' = Append(masked, 0) /\ points' = Append(points, Xor(0, PointError))
    BY <1>3, <1>8, <2>1 DEF Prepared
  <2>3. PointError = 0
    <3>1. \A s \in Slots : reply[s].first = 0
      BY <1>1, <1>8, RepliesArePoints DEF Prepared
    <3>2. reply[1].first = 0 /\ reply[2].first = 0 /\ reply[3].first = 0
      BY <3>1 DEF Slots
    <3> QED BY <3>2 DEF PointError, Xor
  <2>4. Xor(0, PointError) = 0
    BY <2>3 DEF Xor
  <2> QED BY <1>1, <1>4, <2>1, <2>2, <2>4
<1>9. UNCHANGED <<tainted, points, masked>> \/ Opened \/ Restored \/ Prepared
  <2>1. CASE Ask
    BY <2>1 DEF Ask, channel, lies
  <2>2. CASE MemberOrFault
    BY <2>2, MemberLeaves DEF coordinator, channel, lies
  <2>3. CASE DriverMoves
    BY <2>3 DEF DriverMoves, Setup, Crash, Garbled, SendPoint, Released, HandSecret, Raises,
                JoinFails, PrepareRefused, ReleaseRefused, PostFails, channel, around, lies
  <2> QED BY <2>1, <2>2, <2>3, StepKinds
<1> QED BY <1>5, <1>6, <1>7, <1>8, <1>9

-----------------------------------------------------------------------------
(* Packages. *)

(* The channel's package is named once, before it opens; being past the    *)
(* garbling, or the opening, begins where the threads of it are joined.    *)
LEMMA PackageMoves ==
    ASSUME DriverInv, [Next]_vars
    PROVE  /\ PastGarbling' => cold' = cold /\ (PastGarbling \/ Garbled)
           /\ PastOpening' => PastOpening \/ Opened
<1>1. Package => (pc \in {"setup", "garble", "open"} => Published = 0)
  BY DEF DriverInv, ReleasesBehind
<1>2. points \in Seq(Bit)
  BY DEF DriverInv, ChannelTypes
<1>3. CASE MemberOrFault
  BY <1>3, MemberLeaves DEF coordinator, driver, channel, requests, PastGarbling, PastOpening,
     Published
<1>4. CASE Ask
  BY <1>1, <1>4 DEF Ask, driver, channel, PastGarbling, PastOpening, Published
<1>5. CASE Setup
  BY <1>1, <1>5 DEF Setup, channel, PastGarbling, PastOpening, Published
<1>6. CASE Raises
  <2>1. Raise /\ cold' = cold /\ points' = points
    BY <1>6 DEF Raises, JoinFails, PrepareRefused, ReleaseRefused, PostFails, requests, channel
  <2> QED BY <2>1 DEF Raise, PastGarbling, PastOpening, Published
<1>7. CASE Garbled \/ Opened
  BY <1>7 DEF Garbled, Opened, requests, channel, PastGarbling, PastOpening, Published
<1>8. CASE Crash \/ Restored \/ SendPoint \/ Released \/ HandSecret
  <2>1. Published >= 1 /\ Published \in Nat
    BY <1>2, <1>8 DEF Crash, Restored, SendPoint, Released, HandSecret, DriverInv, ReleasesBehind,
                      Published
  <2>2. points' = points /\ cold' = cold
    BY <1>8 DEF Crash, Restored, SendPoint, Released, HandSecret, requests, channel
  <2> QED BY <2>1, <2>2 DEF PastGarbling, PastOpening, Published
<1>9. CASE Prepared
  BY <1>9 DEF Prepared, requests, PastGarbling, PastOpening
<1> QED BY <1>3, <1>4, <1>5, <1>6, <1>7, <1>8, <1>9, StepKinds DEF DriverMoves

(* Packages appear by a garbling that is asked for, and only there.        *)
LEMMA PackagesMove ==
    ASSUME DriverInv, RequestsInv, [Next]_vars, NEW m \in Members, NEW c, c \in pkg'[m]
    PROVE  c \in pkg[m] \/ \E r \in Pending(m) : r.op = "garble" /\ r.cold = c
<1>1. pkg \in [Members -> SUBSET (1..call)]
  BY DEF RequestsInv, MemberTypes
<1>2. CASE Ask
  BY <1>2 DEF Ask
<1>3. CASE DriverMoves
  BY <1>3, DriverLeaves
<1>4. CASE MemberOrFault
  <2>1. CASE pkg' = pkg
    BY <2>1
  <2>2. CASE \E k \in Members : busy[k] \in Pending(k)
                                /\ pkg' = [pkg EXCEPT ![k] = PackagesAfter(k, busy[k])]
    BY <1>1, <2>2 DEF PackagesAfter
  <2> QED BY <1>4, <2>1, <2>2, CallsMove
<1> QED BY <1>2, <1>3, <1>4, StepKinds

(* The spare member garbles nothing: only the first quorum is asked to.    *)
LEMMA SpareStep ==
    ASSUME DriverInv, RequestsInv, PackageInv, [Next]_vars
    PROVE  (pkg[3] = {} /\ \A r \in Pending(3) : r.op # "garble")'
<1>1. 3 \in Members
  BY DEF Members
<1>2. pkg'[3] = {}
  <2>1. \A c \in pkg'[3] : FALSE
    BY <1>1, PackagesMove DEF PackageInv
  <2> QED BY <2>1
<1>3. ASSUME NEW r \in Pending(3)' PROVE r.op # "garble"
  <2>1. CASE Ask
    <3>1. PICK req : req = [op |-> pc, n |-> call + 1, cold |-> cold']
      OBVIOUS
    <3>2. CASE r \in Pending(3)
      BY <3>2 DEF PackageInv
    <3>3. CASE r = req /\ \E s \in Slots : quorum[s] = 3
      <4>1. quorum # FirstQuorum
        BY <3>3, QuorumFacts DEF DriverInv, ChannelTypes
      <4>2. pc # "garble"
        BY <4>1 DEF DriverInv
      <4> QED BY <3>1, <3>3, <4>2
    <3> QED BY <1>1, <1>3, <2>1, <3>1, <3>2, <3>3, QueuesAsked
  <2>2. CASE DriverMoves \/ MemberOrFault
    BY <1>1, <1>3, <2>2, QueuesStay DEF PackageInv
  <2> QED BY <2>1, <2>2, StepKinds
<1> QED BY <1>2, <1>3

(* Nobody garbles the channel's package any more once it is to be opened.  *)
LEMMA GarbledOnceStep ==
    ASSUME DriverInv, RequestsInv, PackageInv, [Next]_vars, PastGarbling'
    PROVE  \A m \in Members : \A r \in Pending(m)' : r.op = "garble" => r.cold # cold'
<1>1. cold' = cold /\ (PastGarbling \/ Garbled)
  BY PackageMoves
<1> SUFFICES ASSUME NEW m \in Members, NEW r \in Pending(m)', r.op = "garble"
             PROVE  r.cold # cold
  BY <1>1
<1>2. CASE Ask
  <2>1. PICK req : req = [op |-> pc, n |-> call + 1, cold |-> cold']
    OBVIOUS
  <2>2. PastGarbling /\ ~Garbled
    BY <1>1, <1>2 DEF Garbled, Ask, AllOk, NoThreads, Slots
  <2>3. pc # "garble"
    BY <2>2 DEF PastGarbling, DriverInv, ReleasesBehind
  <2>4. r \in Pending(m)
    BY <1>2, <2>1, <2>3, QueuesAsked
  <2> QED BY <2>2, <2>4 DEF PackageInv
<1>3. CASE ~Ask
  <2>1. r \in Pending(m)
    BY <1>3, QueuesStay, StepKinds
  <2>2. CASE PastGarbling
    BY <2>1, <2>2 DEF PackageInv
  <2>3. CASE Garbled
    <3>1. m # 3
      BY <2>1 DEF PackageInv
    <3>2. PICK s \in Slots : quorum[s] = m
      BY <2>3, <3>1, QuorumFacts DEF Garbled, DriverInv, ChannelTypes
    <3>3. r.n # call
      BY <2>1, <2>3, <3>2 DEF Garbled, AllOk, RequestsInv, Replied
    <3>4. r.cold = r.n
      BY <2>1 DEF RequestsInv, Sent
    <3>5. cold = call
      BY <2>3 DEF Garbled, AllOk, PackageInv, NoThreads, Slots
    <3> QED BY <3>3, <3>4, <3>5
  <2> QED BY <1>1, <2>2, <2>3
<1> QED BY <1>2, <1>3

(* A member that has opened the channel has dropped its package.           *)
LEMMA OpenedStep ==
    ASSUME DriverInv, RequestsInv, PackageInv, [Next]_vars, Package, pc' = "open",
           NEW s \in Slots, thread'[s] = "ok"
    PROVE  (cold \notin pkg[quorum[s]])'
<1>1. PastGarbling'
  BY DEF PastGarbling
<1>2. cold' = cold
  BY <1>1, PackageMoves
<1>3. MemberOrFault
  <2>1. CASE Ask
    BY <2>1 DEF Ask
  <2>2. CASE DriverMoves
    BY <2>2, DriverLeaves DEF NoThreads
  <2> QED BY <2>1, <2>2, StepKinds
<1>4. UNCHANGED <<pc, quorum>> /\ PastGarbling
  BY <1>3, MemberLeaves DEF coordinator, driver, channel, PastGarbling
<1>5. quorum[s] \in Members
  BY QuorumFacts DEF DriverInv, ChannelTypes
<1>6. CASE thread[s] = "ok"
  <2>1. cold \notin pkg[quorum[s]]
    BY <1>4, <1>6 DEF PackageInv
  <2>2. \A r \in Pending(quorum[s]) : r.op = "garble" => r.cold # cold
    BY <1>4, <1>5 DEF PackageInv
  <2> QED BY <1>2, <1>4, <1>5, <2>1, <2>2, PackagesMove
<1>7. CASE thread[s] # "ok"
  <2> PICK m \in Members : quorum[s] = m
    BY <1>5
  <2>1. ByParty(s)
    BY <1>3, <1>4, <1>7, WhoReplied DEF ByReveal
  <2>2. pkg'[m] = pkg[m] \ {cold}
    <3>1. DOMAIN pkg = Members
      BY DEF RequestsInv, MemberTypes
    <3>2. pkg' = [pkg EXCEPT ![m] = PackagesAfter(m, busy[m])] /\ busy[m].op = "open"
          /\ busy[m].cold = cold
      BY <1>4, <2>1 DEF ByParty, PartyDone
    <3> QED BY <1>5, <3>1, <3>2 DEF PackagesAfter, Evaluates
  <2> QED BY <1>2, <1>4, <2>2
<1> QED BY <1>6, <1>7

(* Once the channel is open nobody has the package again.                  *)
LEMMA SpentStep ==
    ASSUME DriverInv, RequestsInv, PackageInv, [Next]_vars, PastOpening'
    PROVE  \A m \in Members : (cold \notin pkg[m])'
<1>1. PastGarbling' /\ cold' = cold /\ (PastOpening \/ Opened)
  BY PackageMoves DEF PastGarbling, PastOpening
<1>2. PastGarbling
  BY <1>1 DEF PastGarbling, PastOpening, Opened
<1> SUFFICES ASSUME NEW m \in Members PROVE cold \notin pkg'[m]
  BY <1>1
<1>3. cold \notin pkg[m]
  <2>1. CASE PastOpening
    BY <2>1 DEF PackageInv
  <2>2. CASE Opened
    <3>1. CASE m = 3
      BY <3>1 DEF PackageInv
    <3>2. CASE m # 3
      <4>1. PICK s \in Slots : quorum[s] = m
        BY <2>2, <3>2, QuorumFacts DEF Opened, DriverInv, ChannelTypes
      <4> QED BY <1>2, <2>2, <4>1 DEF Opened, AllOk, PackageInv, PastGarbling
    <3> QED BY <3>1, <3>2
  <2> QED BY <1>1, <2>1, <2>2
<1>4. \A r \in Pending(m) : r.op = "garble" => r.cold # cold
  BY <1>2 DEF PackageInv
<1> QED BY <1>3, <1>4, PackagesMove

(* Every step keeps a used package spent.                                  *)
LEMMA PackageStep == DriverInv /\ RequestsInv /\ PackageInv /\ [Next]_vars => PackageInv'
<1> SUFFICES ASSUME DriverInv, RequestsInv, PackageInv, [Next]_vars PROVE PackageInv'
  OBVIOUS
<1>1. (pkg[3] = {} /\ \A r \in Pending(3) : r.op # "garble")'
  BY SpareStep
<1>2. (pc = "garble" /\ thread # NoThreads => cold = call)'
  <2>1. CASE Ask
    BY <2>1 DEF Ask, driver
  <2>2. CASE DriverMoves
    BY <2>2, DriverLeaves
  <2>3. CASE MemberOrFault
    BY <2>3, MemberLeaves, ThreadsKept DEF coordinator, driver, requests, PackageInv
  <2> QED BY <2>1, <2>2, <2>3, StepKinds
<1>3. (PastGarbling => \A m \in Members : \A r \in Pending(m) :
                           r.op = "garble" => r.cold # cold)'
  BY GarbledOnceStep
<1>4. (Package /\ pc = "open" => \A s \in Slots : thread[s] = "ok" => cold \notin pkg[quorum[s]])'
  BY OpenedStep
<1>5. (PastOpening => \A m \in Members : cold \notin pkg[m])'
  BY SpentStep
<1> QED BY <1>1, <1>2, <1>3, <1>4, <1>5 DEF PackageInv

-----------------------------------------------------------------------------
(* The number of commitments. *)

(* Commitments and the quorum that makes them change in a few steps only.  *)
LEMMA UpdatesStable ==
    ASSUME UpdatesInv, UNCHANGED <<points, quorum>>, pc' \in {pc, "stopped"}
    PROVE  UpdatesInv'
BY DEF UpdatesInv, Published

(* Every step keeps the updates within their bound.                        *)
LEMMA UpdatesStep == DriverInv /\ UpdatesInv /\ [Next]_vars => UpdatesInv'
<1> SUFFICES ASSUME DriverInv, UpdatesInv, [Next]_vars PROVE UpdatesInv'
  OBVIOUS
<1>1. Updates \in Nat \ {0} /\ After \in Nat
  BY UpdatesAssumption
<1>2. points \in Seq(Bit) /\ Published \in Nat /\ quorum \in {FirstQuorum, SecondQuorum}
  BY DEF DriverInv, ChannelTypes, Published
<1>3. FirstQuorum # SecondQuorum
  BY DEF FirstQuorum, SecondQuorum
<1>4. CASE MemberOrFault
  BY <1>4, MemberLeaves, UpdatesStable DEF coordinator, driver, channel
<1>5. CASE Ask
  BY <1>5, UpdatesStable DEF Ask, driver, channel
<1>6. CASE Raises
  <2>1. Raise /\ UNCHANGED <<points, quorum>>
    BY <1>6 DEF Raises, JoinFails, PrepareRefused, ReleaseRefused, PostFails, channel
  <2> QED BY <2>1, UpdatesStable DEF Raise
<1>7. CASE Setup \/ Garbled \/ Opened
  <2>1. Published' = Published /\ quorum' = quorum /\ quorum = FirstQuorum /\ Published = 0
        /\ pc' \in {"setup", "garble", "open", "prepare"}
    BY <1>7 DEF Setup, Garbled, Opened, channel, Published, DriverInv, ReleasesBehind
  <2> QED BY <1>1, <2>1 DEF UpdatesInv
<1>8. CASE Crash
  <2>1. /\ pc = "crash" /\ quorum = FirstQuorum /\ Published' = Published /\ Published <= Updates
        /\ \/ pc' = pc /\ quorum' = quorum
           \/ /\ quorum' = SecondQuorum /\ pc' \in {"restore", "prepare", "done"}
              /\ pc' = "prepare" => After > 0
    BY <1>8 DEF Crash, Published, UpdatesInv
  <2> QED BY <1>1, <1>2, <1>3, <2>1 DEF UpdatesInv
<1>9. CASE Restored
  <2>1. /\ quorum = SecondQuorum /\ quorum' = quorum /\ Published' = Published
        /\ Published <= Updates /\ pc' \in {"prepare", "done"} /\ (pc' = "prepare" => After > 0)
    BY <1>9 DEF Restored, Published, UpdatesInv
  <2> QED BY <1>1, <1>2, <1>3, <2>1 DEF UpdatesInv
<1>10. CASE Prepared
  <2>1. /\ pc = "prepare" /\ pc' = "point" /\ quorum' = quorum /\ Published' = Published + 1
    BY <1>2, <1>10 DEF Prepared, AfterPrepare, Published
  <2> QED BY <1>1, <1>2, <2>1 DEF UpdatesInv
<1>11. CASE SendPoint \/ HandSecret
  <2>1. /\ quorum' = quorum /\ Published' = Published
        /\ pc' \in {"release", "stopped", AfterUpdate(Published)}
    BY <1>11 DEF SendPoint, HandSecret, channel, Published
  <2>2. /\ AfterUpdate(Published) \in {"prepare", "crash", "done"}
        /\ AfterUpdate(Published) = "crash" => quorum = FirstQuorum
        /\ AfterUpdate(Published) = "prepare" =>
              Published < IF quorum = FirstQuorum THEN Updates ELSE Updates + After
    BY DEF AfterUpdate
  <2> QED BY <1>1, <1>2, <2>1, <2>2 DEF UpdatesInv
<1>12. CASE Released
  BY <1>12 DEF Released, UpdatesInv, Published
<1> QED BY <1>4, <1>5, <1>6, <1>7, <1>8, <1>9, <1>10, <1>11, <1>12, StepKinds DEF DriverMoves

-----------------------------------------------------------------------------
(* What follows from the invariant. *)

(* Summands of honest members of one dealing agree, and cover every mask.  *)
LEMMA HonestSummands ==
    ASSUME DriverInv, RequestsInv, Dealt, liars = {}, pc = "release", AllOk
    PROVE  ~Disagreement /\ Missing = {} /\ SeenError = 0
<1> DEFINE summand == [root |-> root, error |-> 0]
<1>1. \A s \in Slots : quorum[s] \in Members
  BY QuorumFacts DEF DriverInv, ChannelTypes
<1>2. \A m \in Members : DOMAIN phi[m] = Members \ {m}
  <2> TAKE m \in Members
  <2>1. phi[m] = Delivered(m)
    BY DEF Dealt
  <2>2. DOMAIN Delivered(m) = Members \ {m}
    BY DEF Delivered, Held
  <2> QED BY <2>1, <2>2
<1>3. \A m \in Members : \A j \in DOMAIN phi[m] : phi[m][j] = root
  BY DEF Dealt, Delivered
<1>4. \A m \in Members : /\ DOMAIN Honest(m) = Members \ {m}
                         /\ \A j \in DOMAIN Honest(m) : Honest(m)[j] = summand
  BY <1>2, <1>3 DEF Honest, Summands
<1>5. \A s \in Slots : reply[s] = Honest(quorum[s])
  BY DEF RequestsInv, AllOk, Replied
<1>6. \A s \in Slots : /\ DOMAIN reply[s] = Members \ {quorum[s]}
                       /\ \A j \in DOMAIN reply[s] : reply[s][j] = summand
  <2> TAKE s \in Slots
  <2> PICK m \in Members : quorum[s] = m
    BY <1>1
  <2>1. reply[s] = Honest(m)
    BY <1>5
  <2> QED BY <1>4, <2>1
<1> HIDE DEF summand
<1>7. \A p \in Seen : p[2] = summand
  BY <1>6 DEF Seen
<1>8. ~Disagreement
  BY <1>7 DEF Disagreement
<1>9. Missing = {}
  <2>1. ASSUME NEW j \in Members PROVE \E p \in Seen : p[1] = j
    <3>1. PICK s \in Slots : quorum[s] # j
      <4>1. 1 \in Slots /\ 2 \in Slots /\ quorum[1] # quorum[2]
        BY QuorumFacts DEF Slots, DriverInv, ChannelTypes
      <4> QED BY <4>1
    <3>2. <<j, reply[s][j]>> \in Seen
      BY <1>6, <3>1 DEF Seen
    <3> QED BY <3>2
  <2> QED BY <2>1 DEF Missing
<1>10. SeenError = 0
  <2>1. summand.error = 0
    BY DEF summand
  <2>2. {p \in Seen : p[2].error = 1} = {}
    BY <1>7, <2>1
  <2> QED BY <2>2, FS_EmptySet DEF SeenError
<1> QED BY <1>8, <1>9, <1>10

(* The invariant's parts give the properties: the honest are accepted,     *)
LEMMA InvHonestAccepted ==
    DriverInv /\ RequestsInv /\ HonestInv => HonestAccepted
<1> SUFFICES ASSUME DriverInv, RequestsInv, HonestInv, liars = {}
             PROVE  /\ pc = "release" /\ AllOk => Accepted
                    /\ pc = "prepare" /\ AllOk => CrossChecked
  BY DEF HonestAccepted
<1>1. ASSUME pc = "release", AllOk PROVE Accepted
  <2>1. ~Disagreement /\ Missing = {} /\ SeenError = 0
    BY <1>1, HonestSummands DEF HonestInv
  <2>2. Revoking + 1 \in DOMAIN points /\ Revoking + 1 \in DOMAIN masked
    BY <1>1 DEF DriverInv, ReleasesBehind, ChannelTypes, Revoking, Published
  <2>3. masked[Revoking + 1] = 0 /\ points[Revoking + 1] = 0
    BY <2>2 DEF HonestInv, Untainted
  <2> QED BY <2>1, <2>3 DEF Accepted, MatchesPoint, Merged, Xor
<1>2. ASSUME pc = "prepare", AllOk PROVE CrossChecked
  <2>1. \A s \in Slots : reply[s].first = 0 /\ reply[s].second = 0
    BY <1>2, RepliesArePoints
  <2>2. \A s \in Slots : Successor(s) \in Slots
    BY DEF Successor, Slots
  <2> QED BY <2>1, <2>2 DEF CrossChecked
<1> QED BY <1>1, <1>2

(* what is handed over matches its point,                                  *)
LEMMA InvHandedMatches == DriverInv => HandedMatchesPoint
<1> SUFFICES ASSUME DriverInv, NEW i \in DOMAIN handed PROVE Behind(handed[i])
  BY DEF HandedMatchesPoint
<1>1. handed[i].commitment + 1 = i /\ handed[i].error = points[i]
  BY DEF DriverInv, SecretsHanded, ChannelTypes
<1>2. i \in DOMAIN cpPoints /\ cpPoints[i] = points[i]
  <2>1. /\ points \in Seq(Bit) /\ cpPoints \in Seq(Bit) /\ handed \in Seq(Secrets)
        /\ nextRelease \in Nat /\ Len(handed) <= nextRelease
    BY DEF DriverInv, SecretsHanded, ChannelTypes
  <2>2. CASE pc = "point"
    <3>1. /\ Len(points) = Len(cpPoints) + 1 /\ nextRelease < Len(points)
          /\ \A k \in 1..Len(cpPoints) : cpPoints[k] = points[k]
      BY <2>1, <2>2 DEF DriverInv, PointsSent, ReleasesBehind, Published
    <3>2. i \in 1..Len(cpPoints)
      BY <2>1, <3>1
    <3> QED BY <2>1, <3>1, <3>2
  <2>3. CASE pc # "point"
    BY <2>1, <2>3 DEF DriverInv, PointsSent, ChannelTypes
  <2> QED BY <2>2, <2>3
<1> QED BY <1>1, <1>2 DEF Behind

(* and the variables have their types.                                     *)
LEMMA InvTypeOK == DriverInv /\ RequestsInv => TypeOK
<1> SUFFICES ASSUME DriverInv, RequestsInv PROVE TypeOK
  OBVIOUS
<1>1. Len(handed) \in {nextRelease, nextRelease - 1}
  BY DEF DriverInv, SecretsHanded
<1> QED BY <1>1 DEF TypeOK, DriverInv, RequestsInv

(* The inductive invariant holds at the start.                             *)
LEMMA InitIInv == Init => IInv
<1> SUFFICES ASSUME Init PROVE IInv
  OBVIOUS
<1>1. HonestInv /\ OneLiarPoints
  BY DEF Init, HonestInv, Dealt, Untainted, OneLiarPoints
<1>2. PackageInv
  <2>1. pkg[3] = {} /\ Pending(3) = {} /\ \A m \in Members : pkg[m] = {}
    BY DEF Init, Pending, Members
  <2>2. ~PastGarbling /\ ~PastOpening
    BY DEF Init, PastGarbling, PastOpening, Published
  <2> QED BY <2>1, <2>2 DEF Init, PackageInv
<1>3. UpdatesInv
  BY UpdatesAssumption DEF Init, UpdatesInv, Published, FirstQuorum, SecondQuorum
<1> QED BY <1>1, <1>2, <1>3, InitDriver, InitRequests DEF IInv

(* The inductive invariant of the channel: driver, requests, honest        *)
(* members, packages and liars together.                                   *)
THEOREM ChannelInvariant == Spec => []IInv
<1>1. IInv /\ [Next]_vars => IInv'
  BY DriverStep, UpdatesStep, RequestsStep, DealtStep, UntaintedStep, PackageStep, OneLiarStep
     DEF IInv, HonestInv
<1> QED BY <1>1, InitIInv, PTL DEF Spec

(* The coordinator's, the members' and the counterparty's variables keep   *)
(* their types, and secrets go out in order (poc/coordinator.py            *)
(* release_leaf, ldk-check's counterparty).                                *)
THEOREM ChannelTypeOK == Spec => []TypeOK
<1>1. IInv => TypeOK
  BY InvTypeOK DEF IInv
<1> QED BY <1>1, ChannelInvariant, PTL

(* Whatever any number of members claim, every secret handed over is the   *)
(* one behind the point the counterparty stored for its commitment         *)
(* (release_leaf's check against the point).                               *)
THEOREM SecretsMatchPoints == Spec => []HandedMatchesPoint
<1>1. IInv => HandedMatchesPoint
  BY InvHandedMatches DEF IInv
<1> QED BY <1>1, ChannelInvariant, PTL

(* The group is not asked for a commitment's summands before the           *)
(* counterparty has the point of the next one (do_update's order), whatever *)
(* is lost, retried or restarted in between.                               *)
THEOREM NoEarlyAsk == Spec => []AskedAfterNextPoint
<1>1. IInv => AskedAfterNextPoint
  BY DEF IInv, DriverInv
<1> QED BY <1>1, ChannelInvariant, PTL

(* A single liar cannot move a published point off the value the quorum    *)
(* computed (combine_points' comparison with the neighbour's copy).        *)
THEOREM OneLiarCannotMovePoint == Spec => []OneLiarPoints
<1>1. IInv => OneLiarPoints
  BY DEF IInv
<1> QED BY <1>1, ChannelInvariant, PTL

(* When no member lies, neither the cross-check of points nor the merging  *)
(* of summands ever refuses: lost requests, retried setups, restarts and   *)
(* the quorum change leave all members with the seeds of one dealing.      *)
THEOREM HonestNeverRefused == Spec => []HonestAccepted
<1>1. IInv => HonestAccepted
  BY InvHonestAccepted DEF IInv
<1> QED BY <1>1, ChannelInvariant, PTL

(* No member keeps the garbled package of a channel that has opened from   *)
(* it, however late a garbling request is served (handle_step deletes it   *)
(* with the evaluation).                                                   *)
THEOREM PackageIsSpent == Spec => []PackageSpent
<1>1. IInv => PackageSpent
  BY DEF IInv, PackageInv, PastOpening, PackageSpent
<1> QED BY <1>1, ChannelInvariant, PTL

-----------------------------------------------------------------------------
(* The channel keeps the promise. *)

(* What the counterparty holds changes where a point or a secret reaches   *)
(* it.                                                                     *)
LEMMA CounterpartyMoves ==
    ASSUME [Next]_vars
    PROVE  SendPoint \/ HandSecret \/ UNCHANGED <<cpPoints, handed>>
<1>1. CASE Ask
  BY <1>1 DEF Ask, counterparty
<1>2. CASE MemberOrFault
  BY <1>2, MemberLeaves DEF counterparty
<1>3. CASE DriverMoves
  BY <1>3 DEF DriverMoves, Setup, Crash, Garbled, Opened, Restored, Prepared, Released, Raises,
              JoinFails, PrepareRefused, ReleaseRefused, PostFails, around, counterparty
<1> QED BY <1>1, <1>2, <1>3, StepKinds

(* The first index.                                                        *)
LEMMA FirstIndex == M \in Nat /\ Pow2[Width] \in Nat
<1>1. Width \in 0..Width
  BY WidthAssumption
<1>2. Pow2[Width] \in Nat \ {0}
  BY <1>1, Pow2Assumption
<1> QED BY <1>2 DEF M

(* Every non-empty set of natural numbers has a least element.             *)
LEMMA LeastNatural ==
    ASSUME NEW S \in SUBSET Nat, S # {}
    PROVE  \E x \in S : \A y \in S : x <= y
<1> DEFINE Less == {ss \in Nat \X Nat : ss[1] < ss[2]}
<1>1. IsWellFoundedOn(OpToRel(<, Nat), Nat)
  BY NatLessThanWellFounded
<1>2. Less = OpToRel(<, Nat)
  BY DEF OpToRel
<1>3. IsWellFoundedOn(Less, Nat)
  BY <1>1, <1>2
<1>4. PICK x \in S : \A y \in S : ~ (<<y, x>> \in Less)
  <2> HIDE DEF Less
  <2> QED BY <1>3, WFMin
<1>5. ASSUME NEW y \in S PROVE x <= y
  <2>1. ~ (<<y, x>> \in Less)
    BY <1>4
  <2> QED BY <2>1 DEF Less
<1> QED BY <1>5

(* v flips the n bits of S, each once, from the highest down.              *)
Flips(v, n, S) ==
    /\ v \in [1..n -> Bits] /\ {v[i] : i \in 1..n} = S
    /\ \A i, j \in 1..n : i < j => v[i] > v[j]

(* Any set of bits is flipped by some walk.                                *)
LEMMA FlipsExist ==
    \A S \in SUBSET Bits : \E n \in 0..Width : \E v : Flips(v, n, S)
<1> DEFINE Good(d) == \A S \in SUBSET (0..(d - 1)) : \E n \in 0..d : \E v : Flips(v, n, S)
           Bad == {d \in 0..Width : ~Good(d)}
<1>1. Good(0)
  <2> SUFFICES ASSUME NEW S \in SUBSET (0..(0 - 1)) PROVE \E v : Flips(v, 0, S)
    OBVIOUS
  <2>1. S = {} /\ 1..0 = {}
    OBVIOUS
  <2> DEFINE v == [i \in 1..0 |-> 0]
  <2>2. v \in [1..0 -> Bits]
    BY <2>1
  <2> QED BY <2>1, <2>2 DEF Flips
<1>2. ASSUME NEW d \in 0..(Width - 1), Good(d) PROVE Good(d + 1)
  <2> SUFFICES ASSUME NEW S \in SUBSET (0..d)
               PROVE  \E n \in 0..(d + 1) : \E v : Flips(v, n, S)
    OBVIOUS
  <2>1. S \ {d} \in SUBSET (0..(d - 1)) /\ d \in Nat
    OBVIOUS
  <2>2. PICK n \in 0..d : \E u : Flips(u, n, S \ {d})
    BY <1>2, <2>1
  <2>3. PICK u : Flips(u, n, S \ {d})
    BY <2>2
  <2>4. CASE d \notin S
    <3>1. S \ {d} = S /\ n \in 0..(d + 1)
      BY <2>4
    <3> QED BY <2>3, <3>1
  <2>5. CASE d \in S
    <3> DEFINE v == [i \in 1..(n + 1) |-> IF i = 1 THEN d ELSE u[i - 1]]
    <3>1. n \in Nat /\ n + 1 \in 0..(d + 1)
      OBVIOUS
    <3>2. d \in Bits
      BY WidthAssumption DEF Bits
    <3>3. \A i \in 1..n : u[i] \in S /\ u[i] \in 0..(d - 1) /\ u[i] \in Bits
      BY <2>1, <2>3 DEF Flips
    <3>4. ASSUME NEW i \in 1..(n + 1)
          PROVE  (i = 1 /\ v[i] = d) \/ (i - 1 \in 1..n /\ v[i] = u[i - 1])
      BY <3>1
    <3>5. v \in [1..(n + 1) -> Bits]
      BY <3>1, <3>2, <3>3
    <3>6. {v[i] : i \in 1..(n + 1)} = S
      <4>1. \A i \in 1..(n + 1) : v[i] \in S
        BY <2>5, <3>3, <3>4
      <4>2. ASSUME NEW b \in S PROVE \E i \in 1..(n + 1) : v[i] = b
        <5>1. CASE b = d
          BY <3>1, <5>1
        <5>2. CASE b # d
          <6>1. PICK i \in 1..n : u[i] = b
            BY <2>3, <5>2 DEF Flips
          <6>2. i + 1 \in 1..(n + 1) /\ v[i + 1] = b
            BY <3>1, <6>1
          <6> QED BY <6>2
        <5> QED BY <5>1, <5>2
      <4> HIDE DEF v
      <4> QED BY <4>1, <4>2
    <3>7. ASSUME NEW i \in 1..(n + 1), NEW j \in 1..(n + 1), i < j PROVE v[i] > v[j]
      <4>1. j - 1 \in 1..n /\ v[j] = u[j - 1]
        BY <3>1, <3>7
      <4>2. CASE i = 1
        <5>1. u[j - 1] \in 0..(d - 1) /\ v[i] = d
          BY <3>1, <3>3, <4>1, <4>2
        <5> QED BY <4>1, <5>1
      <4>3. CASE i # 1
        <5>1. i - 1 \in 1..n /\ v[i] = u[i - 1] /\ i - 1 < j - 1
          BY <3>1, <3>7, <4>3
        <5> QED BY <2>3, <4>1, <5>1 DEF Flips
      <4> QED BY <4>2, <4>3
    <3> HIDE DEF v
    <3> QED BY <3>1, <3>5, <3>6, <3>7 DEF Flips
  <2> QED BY <2>4, <2>5
<1>3. Bad = {}
  <2> SUFFICES ASSUME Bad # {} PROVE FALSE
    OBVIOUS
  <2>1. PICK d \in Bad : \A e \in Bad : d <= e
    <3>1. Bad \in SUBSET Nat
      OBVIOUS
    <3> HIDE DEF Bad
    <3> QED BY <3>1, LeastNatural
  <2>2. d \in 0..Width /\ ~Good(d)
    BY <2>1
  <2> HIDE DEF Good
  <2>3. d # 0
    BY <1>1, <2>2
  <2>4. d - 1 \in 0..(Width - 1) /\ (d - 1) + 1 = d /\ d - 1 \in 0..Width /\ ~(d <= d - 1)
    BY <2>2, <2>3, WidthAssumption
  <2>5. Good(d - 1)
    BY <2>1, <2>4
  <2> QED BY <1>2, <2>2, <2>4, <2>5
<1>4. Good(Width)
  <2> HIDE DEF Good
  <2> QED BY <1>3, WidthAssumption
<1> QED BY <1>4 DEF Bits

(* The secret of every index can be derived from the seed.                 *)
LEMMA WalkExists ==
    ASSUME NEW index \in 0..M
    PROVE  \E n \in 0..Width : \E v \in [1..n -> Bits] : GeneratesFromSeed(v, index)
<1>1. SetBits(index) \in SUBSET Bits
  BY DEF SetBits
<1>2. PICK n \in 0..Width : \E v : Flips(v, n, SetBits(index))
  BY <1>1, FlipsExist
<1>3. PICK v : Flips(v, n, SetBits(index))
  BY <1>2
<1>4. DOMAIN v = 1..n /\ v \in [1..n -> Bits] /\ GeneratesFromSeed(v, index)
  BY <1>3 DEF Flips, GeneratesFromSeed, BitsOf
<1> QED BY <1>4

(* The secret of a commitment is a value of its index.                     *)
LEMMA SecretFacts ==
    ASSUME NEW c \in 0..M
    PROVE  GeneratesFromSeed(SecretOf[c], IndexOf(c))
<1>1. IndexOf(c) \in 0..M
  BY FirstIndex DEF IndexOf
<1>2. \E v \in Walks : GeneratesFromSeed(v, IndexOf(c))
  <2>1. PICK n \in 0..Width : \E v \in [1..n -> Bits] : GeneratesFromSeed(v, IndexOf(c))
    BY <1>1, WalkExists
  <2> QED BY <2>1 DEF Walks
<1>3. SecretOf[c] = CHOOSE v \in Walks : GeneratesFromSeed(v, IndexOf(c))
  BY DEF SecretOf
<1> QED BY <1>2, <1>3

(* Every step of the channel is a step of the promise, or none.            *)
LEMMA RevocationStep ==
    ASSUME IInv, liars = {}, [Next]_vars
    PROVE  [R!RevocationNext]_<<Len(cpPoints), SecretsOut>>
<1>1. /\ Updates + After <= M + 1 /\ Updates \in Nat /\ After \in Nat /\ M \in Nat
      /\ Published <= Updates + After
  BY UpdatesAssumption, FirstIndex DEF IInv, UpdatesInv, M
<1>2. DriverInv /\ \A i \in DOMAIN points : points[i] = 0
  BY DEF IInv, HonestInv, Untainted
<1>3. /\ points \in Seq(Bit) /\ cpPoints \in Seq(Bit) /\ handed \in Seq(Secrets)
      /\ Published = Len(points)
  BY <1>2 DEF DriverInv, ChannelTypes, Published
<1>4. CASE SendPoint
  <2>1. Len(cpPoints') = Len(cpPoints) + 1 /\ handed' = handed /\ Len(points) = Len(cpPoints) + 1
    BY <1>2, <1>3, <1>4 DEF SendPoint, DriverInv, PointsSent
  <2>2. Len(cpPoints) <= M
    BY <1>1, <1>3, <2>1
  <2>3. SecretsOut' = SecretsOut
    BY <2>1 DEF SecretsOut
  <2> QED BY <2>1, <2>2, <2>3 DEF R!RevocationNext, R!Publish, R!M, M
<1>5. CASE HandSecret
  <2> DEFINE n == Len(handed)
  <2>1. /\ pc = "hand" /\ cpPoints = points /\ cpPoints' = cpPoints
        /\ handed' = Append(handed, secret) /\ n = Published - 2
        /\ n \in Nat /\ secret.commitment = n /\ secret.error = points[n + 1]
        /\ n + 1 \in DOMAIN points
    BY <1>2, <1>3, <1>5 DEF HandSecret, DriverInv, PointsSent, ReleasesBehind, SecretsHanded
  <2>2. secret.error = 0
    BY <1>2, <2>1
  <2>3. /\ DOMAIN handed = 1..n /\ DOMAIN handed' = 1..(n + 1)
        /\ \A i \in 1..n : handed'[i] = handed[i]
        /\ handed'[n + 1] = secret
    BY <1>3, <2>1
  <2>4. n \in 0..M
    BY <1>1, <1>3, <2>1
  <2> HIDE DEF n
  <2>5. /\ SecretsOut = [i \in 1..n |-> SecretsOut[i]]
        /\ SecretsOut' = [i \in 1..(n + 1) |-> SecretsOut'[i]]
        /\ \A i \in 1..n : SecretsOut'[i] = SecretsOut[i]
        /\ SecretsOut'[n + 1] = SecretOf[n]
    BY <2>1, <2>2, <2>3 DEF SecretsOut
  <2> DEFINE s == SecretsOut
             t == SecretsOut'
  <2>6. /\ DOMAIN s = 1..n /\ DOMAIN t = 1..(n + 1)
        /\ \A i \in 1..n : t[i] = s[i]
        /\ t[n + 1] = SecretOf[n]
        /\ s = [i \in 1..n |-> s[i]] /\ n \in Nat
    BY <2>1, <2>5
  <2> HIDE DEF s, t
  <2>7. Len(s) = n /\ Len(t) = n + 1
    BY <2>6
  <2>8. SubSeq(t, 1, n) = s
    BY <2>6, <2>7
  <2>9. GeneratesFromSeed(t[Len(t)], IndexOf(n))
    BY <2>4, <2>6, <2>7, SecretFacts
  <2>10. R!GeneratesFromSeed(t[Len(t)], R!IndexOf(n))
    BY <2>9 DEF R!GeneratesFromSeed, R!IndexOf, R!M, R!BitsOf, R!SetBits, R!Bits, R!BitSet,
           GeneratesFromSeed, IndexOf, M, BitsOf, SetBits, Bits, BitSet
  <2>11. Len(s) < Len(cpPoints) - 1
    BY <1>3, <2>1, <2>7
  <2> QED BY <2>1, <2>7, <2>8, <2>10, <2>11 DEF R!RevocationNext, R!Revoke, s, t
<1>6. CASE UNCHANGED <<cpPoints, handed>>
  BY <1>6 DEF SecretsOut
<1> QED BY <1>4, <1>5, <1>6, CounterpartyMoves

(* With honest members the messages implement the promise, for every width *)
(* and every number of updates, lost requests, restarts and retries:       *)
(* points reach the counterparty in order, and secrets in order, each      *)
(* after the next commitment's point and each the one BOLT #3 derives.     *)
THEOREM ChannelKeepsPromise == MaxLiars = 0 => (Spec => ImplementsRevocation)
<1> SUFFICES ASSUME MaxLiars = 0 PROVE Spec => ImplementsRevocation
  OBVIOUS
<1>1. Init => liars = {}
  <2> SUFFICES ASSUME Init PROVE liars = {}
    OBVIOUS
  <2>1. liars \subseteq Members /\ Cardinality(liars) <= 0
    BY DEF Init
  <2>2. IsFiniteSet(liars) /\ Cardinality(liars) \in Nat
    BY <2>1, LiarsFinite
  <2>3. Cardinality(liars) = 0
    BY <2>1, <2>2
  <2> QED BY <2>2, <2>3, FS_EmptySet
<1>2. liars = {} /\ [Next]_vars => (liars = {})'
  BY PointsMove
<1>3. Spec => [](liars = {})
  BY <1>1, <1>2, PTL DEF Spec
<1>4. Init => R!RevocationInit
  BY DEF Init, R!RevocationInit, SecretsOut
<1>5. IInv /\ liars = {} /\ [Next]_vars => [R!RevocationNext]_<<Len(cpPoints), SecretsOut>>
  BY RevocationStep
<1> QED BY <1>3, <1>4, <1>5, ChannelInvariant, PTL
        DEF Spec, ImplementsRevocation, R!RevocationSpec, R!revocationVars
=============================================================================
