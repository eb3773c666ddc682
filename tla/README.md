# TLA+ models of the distributed shachain

The repository lets a Lightning node's per-commitment secrets be generated by
four members, any three of whom can act, so that the channel's seed exists
nowhere. This directory holds TLA+ modules of that system, TLC configurations
that check them on small instances, and proofs that TLAPS checks for every
value of the constants.

Paths are relative to the repository root. `PROJECT.json` holds, per
definition, the source lines it stands for.

## 1. Inventory

| Component | State it keeps | Operations |
|---|---|---|
| Planner, `poc/planner.py` | `public`: the stack of `frames`, `masked` values, `leaves`, `next_vid`, `next_commitment`, `next_release`, `quorum` | `init_plan`, `restore_plan`, `prepare_plan`, each returning a plan and a `commit` to run afterwards; `release_plan` (called by nothing) |
| Coordinator and driver, `poc/coordinator.py` | the planner, `points`, the stored cold-start plan `_cold`, ports and nonces | `setup`, `pregarble_cold_start`, `init_channel`, `restore`, `prepare_leaf`, `release_leaf`, `crash_all`; `main`'s `do_update` |
| Member agent (four), `poc/member.py` | seeds `phi` (on disk), channel id `sid` (in memory), garbled packages (files), `masks` (never filled any more) | `/setup`, `/step`, `/reveal`, `/crash`, `/summand` (called by nothing) |
| Counterparty, `ldk-check/src/bin/counterparty.rs` | points by index, LDK's secret store | `point`, `secret` |
| Key material, `scripts/iceberg.py` | none | dealing seeds by subset rank, tagged derivation |
| Plaintext reference, `scripts/ref.py`; `scripts/point_export.py` | none | `generate_from_seed`; curve arithmetic |
| MP-SPDZ programs, `programs/*.mpc` | none | the circuit a plan describes |
| Engine network, `engine/src/net.rs` | wires to two neighbours, byte and round counters | `tcp_ring`, `reshare_prev`, `exchange_both`, `send_raw`/`recv_raw` |
| Engine shares and backends, `engine/src/{engine,rep3,mal}.rs` | share tapes, correlated randomness, the pool of verified triples, the view hash | circuit evaluation, `refill`, `open_batch`, `view_check` |
| Engine zero-knowledge check, `engine/src/{dzkp,gf64}.rs` | logged multiplications, proof shares | prove and verify a batch |
| Engine conversion, `engine/src/convert.rs` | none | mask a leaf modulo the group order, points, release |
| Engine chain, `engine/src/{chain,shachain}.rs` | blocks of lanes | the walk, frames and batched leaves |
| Circuits and binaries, `engine/src/{sha256,bristol,lib}.rs`, `engine/src/bin/` | none | circuit builders, parsers, command lines |
| Around it | | `poc/selftest.py`, `ldk-check/src/main.rs`, `experiments/`, `upstream/`, `wan/`, `results/` |

How they interact. `main` drives one channel: deal the seeds, perhaps garble a
package, open, then update after update. An update prepares a commitment (an
MPC step among the quorum), sends its point to the counterparty, and releases
the secret of the commitment before. A step is one HTTP request per quorum
member from three threads; each member starts a party process that must meet
the processes of its two peers. A release is no computation: the members send
the summands that pad the masked leaf, and the coordinator xors, compares
duplicates and checks the point. Halfway `main` calls `crash_all`, replaces a
member of the quorum and goes on, with or without a restore. The engine in
`engine/` is a second implementation of the MPC part; nothing in `poc/` calls
it.

What is hard, and what makes each part correct:

- *Planner.* Plans are built, run and committed separately, and anything may
  abort in between and be tried again, a restore included. Correct when the
  frontier stays exactly the unused indices, nothing still needed is lost, and
  no value id ever pads two values in public.
- *Coordinator with members and counterparty.* Threads, single-threaded
  members and party processes interleave; requests are lost or outlive their
  thread; processes die; members restart and forget the channel id; members
  lie. Correct when secrets reach the counterparty in order, each behind its
  point and only after the next point, no lie passes, honest members never
  disagree, and nothing hangs.
- *Package.* A garbled package is for one evaluation.
- *Key material.* Every summand has a holder in every quorum, before and
  after the quorum changes.
- *Engine.* Nothing is used that a check has not confirmed, an abort reaches
  every party, sends never block the ring, and arithmetic modulo the group
  order is right at its boundaries.

`PROJECT.json` lists these as hazards, each at its line.

## 2. Modules and their correspondence to the code

| Module | Role |
|---|---|
| `Shachain` | BOLT #3 indices and values: `Width`, powers of two, what a value derives |
| `Revocation` | the abstract specification: what the channel is promised |
| `Planner` | `poc/planner.py` under the coordinator operations that drive it |
| `PlannerInv` | the planner's inductive invariants |
| `Channel`, `ChannelInv` | coordinator threads, members, party processes and counterparty; the inductive invariant |
| `RingNet` | the wires between the engine's parties, in process and over TCP |
| `Ring`, `Rep3` | three parties, and replicated sharing among them |
| `Circuit` | Boolean circuits, the schedule by AND depth, one party's part of an evaluation |
| `SharedResult` | the abstract specification of an evaluation backend |
| `Mal`, `MalInv` | the malicious backend over `RingNet`, its session and the party process; the inductive invariant |
| `Gf`, `Dzkp`, `DzkpInv` | the zero-knowledge backend over `RingNet` and `Circuit`, on real shares; its course |
| `Chain`, `ChainInv` | walk, block expansion, hashing, masking and release, on the semi-honest backend; its course |
| `QMask`, `Convert` | masking modulo the group order; points and release |
| `MCPlanner`, `MCChannel`, `MCChain`, `MCDzkp`, `MCConvert` | instances for TLC |
| `PlannerProofs`, `ChannelProofs`, `MalProofs`, `CircuitProofs`, `GfProofs`, `ChainProofs`, `DzkpProofs`, `ConvertProofs` | theorems |

`Planner` and `Channel` extend `Shachain`. `Rep3` extends `Ring`, `Circuit` extends `Rep3`; `Chain` and `Dzkp` compose
`Circuit` with `RingNet`, and both are checked to implement `SharedResult`.
`Convert` extends `QMask`, which extends `Rep3`.

**Shachain.** Hashing is a free constructor: a value is the sequence of bits
flipped and hashed on the way from the seed, so equal values are equal walks
and "whoever knows v can compute w" is `Derives`. `Pow2` is a constant
function with the assumptions that make it the powers of two.

**Revocation.** `Publish` and `Revoke`: secrets come in order, at most once,
only after the next point, and each is the one BOLT #3 derives. Both `Planner`
and `Channel` are checked to implement it.

**Planner.** `frames`, `masked`, `leaves`, `nextVid`, `nextCommitment`,
`nextRelease`, `points` are the entries of `public` (dictionary keys are
numbers, not strings). `pc`, `kind`, `target`, `bit`, `prefix`, `cur`, `work`,
`fresh`, `rederived` are the locals of the method being run. One iteration of
a loop is one action (`WalkRight`/`WalkPast` for `_seed_walk`, `Descend` for
the loop of `prepare_plan`), because every iteration changes the public
`next_vid`. Instead of an op list, `fresh` maps each output id to the value
the ops compute. `CommitInit`, `CommitPrepare` and `CommitRestore` are a
successful `run_step` with the `commit` that follows it; `RunFails` is an
abort or a rejected result, before or after the members have revealed the
masked outputs; `PlanFails` is an exception while planning. `CommitRestoreShort`
is the restore whose assertion on the number of registers fails inside
`commit`. `Release` and `ReleaseFails` are `release_leaf` under the guard
`do_update` gives it. The history variable `seen` collects every (id, value)
whose masked form became public, aborted runs included, and `opened` every id
whose summands were asked for.

**Channel.** There are at most `Pow2[Width]` commitments, as the planner
asserts. `pc` is the driver's current operation. `Ask` sends one request
per slot; `JoinFails` is an exception after the join, and the actions
`Garbled`, `Opened`, `Restored`, `Prepared`, `Released` (with their refusals)
are what each operation does with good answers. A member serves its `inbox`
one request at a time, as `HTTPServer` does: `HandleReveal` is `/reveal`;
`StartParty`, `RejectStep`, `PartyDone`, `PartyFails` are `/step` before and
after `subprocess.run`. The faults are `PostFails` (a sequential request
raises, served or not), `GiveUp` (a thread's request fails although the
member may serve it now or later), `PartyDies` and `Restart`. `Raise` ends
`main` or lets a caller run the operation again, at most `MaxRetries` times.
Restarting `setup` deals a new root.

Values are error bits: 0 is what the honest run computes, 1 anything else, and
where the code xors or adds, the model adds modulo 2, so that two lies can
cancel. A liar (chosen in `Init`) may leave out or flip any summand, add a key
nobody asked for, and misreport either of its points; once a liar took part in
a step, what the step stores may be wrong (`tainted`), which covers wrong inputs
and the registers that are read from slot 0 only.

**RingNet.** `wire` holds what was written and not read; over TCP `queued`
holds what a link's writer thread has not written yet (`TcpWire::new`).
`Leave` is a party that returns: in process its wires are dropped and what it
sent can still be read; a process takes its writer threads, and what they
hold, with it, and a connection it has not read to the end is reset. The
sockets have no size limit, dialling and accepting are left out, and framing
errors cannot occur between parties in step (`InStep`).

**Mal.** `at` is the round a party is in (those of `refill`, the AND levels of
`eval_circuit`, the check at its end, and the party binary's hand-over), `sub`
which send or read of it comes next: `reshare_prev` is a send and a read,
`exchange_both` two of each. `pool`, `log` and the locals `triples`, `zeros`,
`z` hold errors, not values: 0 is what the undisturbed run has, 1 anything
else, and `Either` what depends on data the model leaves out, for which both
outcomes of a check are possible. In process one item that party 1 sends may
arrive changed, as `cheat_bit` does; the coin is uniform, so that item stands
for any position and the shuffle is left out; a party that gets a wrong coin
works on other triples than everyone else from then on (`astray`), and
whatever they open is `Either`. Messages carry the round they were sent in
only for `InStep` to speak of; no action reads it. A circuit is a chain of
ANDs on one word, so `Levels` is also the number of triples it needs. With
`Opening`, threads of one process call `open_words` after their last circuit
(`TakeOpen`, `OpensWords`): the opened output is `shown`, and the views are
compared before it is returned. After an abort a session is not used again.

**Rep3, Circuit.** A word is the set of its lanes whose bit is one: XOR is the
symmetric difference and AND the intersection, in every lane at once. Party p
holds the pair of components p and p+1. `Schedule` is `Schedule::new`'s: a wire is
available after as many rounds as the ANDs on the longest path to it
(`Available`), and a gate is evaluated in the round after which its inputs
exist (`Lane`). `Formed` is what the head of `bristol.rs` says of circuit files and
the parser does not check: gates in topological order, each with an output
wire of its own past the inputs. `Product` is a party's
additive share of an AND with its zero share; what the next party sends of its
own becomes the second component.

**SharedResult.** Every party returns once, with pairs or with an abort, and
neighbours that have both returned hold one sharing of the right words.

**Chain.** `hash` says which hash of the walk or of the expansion a party is
in, `phase` which AND level of it; `SendProducts`, `TakeSeconds` and `Cascade`
are a level of `SemiParty::eval_circuit` and its failing read. The start of a
hash (flip, tape, padding) and its end (extraction, doubling of the lanes) are
part of the step that leads to them. Parties run at their own pace, one may
die anywhere, and the adapter publishes and releases lane by lane, possibly
after lies. The reference is `generate_from_seed` over the same circuit in the
clear. `sha256.txt` is not in the repository, so the hash circuit is a
parameter, any one that is `Formed` and has an AND; the tape that embeds a message in it is the code's.

**Gf, Dzkp.** `Gf` is the polynomial field of `gf64.rs` with its carry-less
product and reduction, for any width and taps; the 64-bit field is one value of
its parameters. `Dzkp` runs the circuit, the seed exchange, three instances
(one per prover) of proof, residual, coin, folding and base check, and the
opening. A step reads what it waits for, computes and sends everything up to
its next read. One item that party 1 sends may arrive changed. Hashed
randomness (coins, `expand_lambda`, blinding) is a parameter. A proof that
passes by coincidence, of probability about 2^-64 in the code, does not occur
in the chosen patterns; in general it can.

**QMask, Convert.** `QMask` is the circuit of `build_qmask_circuit` by its
gates' values: ripple additions with carries, and subtractions of the order
taken when they do not borrow. `Convert` builds the parties' inputs to it from
their entries and summands, opens the masked numbers, and lets parties answer
with other points or summands. The joint evaluation is taken at the promise of
`SharedResult`. The curve is external: a point is a scalar modulo `Q`, and one
more value stands for bytes that are no point. The identity has no compressed
form (`compress` panics), so no action publishes it, and summands that are
multiples of `Q` are excluded by assumption.

Simplifications worth knowing:

- The MPC step is malicious secure with abort: with honest members it
  computes what the plan says, and it ends for all three or fails. Circuits,
  compilation, certificates, ports and timing output are left out.
- A channel opens once, as in `main`; running `init_channel` again on an open
  channel is not modelled.
- `masks.json` is never written by the current code, so `crash_all` changes
  nothing the model keeps. `--skip-crash` is the same as more updates.
- The scalar check (`valids == [1]`) is among the reasons `RunFails` stands
  for; in `Channel` scalars are always valid.
- LDK's secret store is external: it accepts honest values and may refuse
  others.

## 3. Runs

| Run | Instance | What it shows |
|---|---|---|
| `planner` | Width 3, 17 ids | types, `Tiling`, `Retained`, `PadOnce`, `NothingEarly`, and that the planner implements `Revocation` |
| `planner_short` | Width 3, 16 ids, short registers | the inductive invariant of the proofs (`FullInv`), and that a later complete restore repairs a half-erased state |
| `planner_half_erased` | as `planner_short` | violation: a restore failing in its commit has already erased |
| `channel` | Width 3, 2 + 2 updates, package, 2 faults, 1 retry, honest members | the inductive invariant with its types; nothing hangs, nobody disagrees, no early request, the package is gone after the open, `Revocation` is implemented, and without faults `main` completes |
| `channel_liars` | 1 + 1 updates with a restore, up to 2 liars, 1 retry | no secret that is not behind its point is handed over; one liar cannot move a point |
| `channel_package_twice` | 1 update, package, 1 fault, 1 retry | violation: a package is evaluated twice |
| `mal` | threads and processes, 2 evaluations of 3 levels, batches of 4, buckets of 3, 1 opened, 1 changed item | the inductive invariant of the proofs; a changed item fails its evaluation wherever it is, nobody goes on with anything wrong or is handed a wrong output, aborts reach everyone, nothing else aborts in process |
| `mal_exit` | three processes, 1 evaluation | violation: honest peers abort because a process exits before its writer threads have written |
| `mal_coin` | in process, 1 evaluation | violation: a coin share is sent before all triples are |
| `engine` | Width 3, blocks of 4 leaves, a hash of 12 gates, a thread may die, 2 lies | every released leaf is the one BOLT #3 derives, zero shares stay in lockstep, a block is one sharing (`SharedResult`) |
| `dzkp` | 3 ANDs in 2 levels, blocks of 2 over GF(32), 1 changed item | honest proofs pass, a changed item is caught before anything is opened, no party mistakes a message, `SharedResult` is implemented |
| `convert` | 4-bit numbers modulo 13, blocks of 2, any lies | masked leaves are right with and without the fourth subtraction, points and releases too |

The properties, and why a test hardly reaches them:

- `Tiling`: the frontier covers exactly the unused indices, across every mix
  of opens, splits, aborts and restores. A gap shows up only commitments later.
- `Retained`: every frame and every pending leaf has a masked value, and it
  is the right one.
- `PadOnce`: two values never become public under one id, aborted and retried
  plans included.
- `NothingEarly`: what the opened pads reveal, over everything ever public,
  derives no secret that was not to be revoked.
- `RestoreRepairs`: a complete restore establishes `Retained` from any state.
- `HonestAccepted`: with honest members the coordinator never refuses:
  duplicates agree, all summands are there, the point matches, across retried
  setups, restarts and the change of quorum.
- `AskedAfterNextPoint`: summands are not even asked for before the
  counterparty has the next point.
- `PackageSpent`: after the open no member has the package left.
- `HandedMatchesPoint`, `OneLiarPoints`: what lies can and cannot do.
- `Terminates`, `Completes`: liveness, below.
- `VerifiedRight`: triples that passed a refill's checks, outputs that passed
  a circuit's and words that were opened are right, per party, whatever the
  others are doing.
- `CorruptionAborts`: no single changed item, in any message of any round,
  goes unnoticed; a test samples 48 positions of twelve million.
- `InStep`: messages carry no round, and neighbours run ahead; in `Dzkp` the
  three even take different steps in the same instance.
- `OnlyCorruptionAborts`: without a changed item nobody aborts. In `Mal` it
  holds in process and fails between processes (`ExitsCleanly`).
- `Lockstep`: parties that are in the same place have drawn equally many zero
  shares, and the copies of every component agree.
- `ReleasedRight` of `Chain`: walk, expansion, wire order, padding, masking and
  release together give the reference's leaf, also after a lie.
- `ImplementsSharedResult`: what a party holds when it returns fits its
  neighbours', in `Dzkp` already when the check returns and before anything is
  opened.
- `OpenedRight`: the opened outputs are the circuit's.
- `MaskedRight`: the sum of four numbers of full width, reduced by four
  conditional subtractions, for residues on both sides of every boundary.
- `PointRight`, `ReleasedRight` of `Convert`: what one liar can do to a point,
  and any number of liars to a release behind it: nothing.

**Bounds.** Width 3 is a whole shachain of eight commitments: frontiers of up
to four frames and splits at every depth. An open mints 7 ids and the
descents to the first leaves a few more, so 17 ids leave room for a whole run
that is aborted and repeated, or for a restore with pending leaves followed by
further prepares and releases; `MaxVid` is the only thing that stops a
behaviour, which is why the planner's runs switch deadlock checking off. In
`channel` two updates before and two after the quorum change give a first
commitment, a release under each quorum, and a release of a commitment
prepared under the old quorum by the new one. Two faults allow a second
failure during the recovery from the first; one retry is what it takes for a
late request of the first attempt to meet the second. In `channel_liars` two
liars are one more than the threshold tolerates and the third party of every
comparison stays honest; there are no faults, since a liar can already fail
any operation. `channel` and `channel_liars` check for deadlock; the only
stuttering step they have is that of a driver that has ended and members with
nothing left to do.

In `mal` a circuit needs 3 triples and a refill makes 4, so that the second
evaluation starts with one left over. Two evaluations show a party that is
ahead in the next one while a neighbour is still in the last check. Buckets
of three have a head with two partners. One changed item is what the hook can
do; two could cancel in a bucket, which the code prevents only with high
probability. `Mal`, `Chain`, `Dzkp` and `Convert` switch deadlock checking off
because their parties really end; `Terminates` says they stop nowhere else.

In `engine` the walk has one edge and the expansion two levels, so both kinds
of hash and the doubling of lanes from one word to two (`LaneWidth` 3, 4
leaves) occur. The 12 gates have every kind, and one AND that waits for the two
others (AND depth 2). Two seeds and two
patterns of random words; values of two bytes of two bits tell the order of
bytes from the order of bits. One death and two lies: the second lie meets the
retry after the first.

In `dzkp` three ANDs give vectors of length 6, folded to 3 and 2 with padding
at each fold before the base check. One of the two patterns makes a coin fall
on a point of the proof, so that it is drawn again. `FieldAxioms` is evaluated
over all of GF(32). The changed item is any item of any message.

In `convert` the 16 leaves of each lane, over nine roots, meet summands of
every residue but zero; in 40 of the 288 lanes the fourth subtraction is
needed. `Shifts` holds 1 and the order itself, the lie that changes a summand
but not its point.

**Fairness.** `Channel` assumes weak fairness of the coordinator's steps
(its threads run and are joined) and of each member's steps (the agent serves
its requests, and `subprocess.run` ends, if only by its timeout). Faults are
not fair. No strong fairness is needed. `Terminates`: `main` ends whatever
fails. `Completes`: with honest members and no fault it ends by completing
every update. `Mal` assumes weak fairness of each party's steps (threads or
processes that run), of the session's caller, and of each writer thread; a
party blocked in a read that will never succeed is released only by the end
of its peer, which is what its `Terminates` is about. `Chain` and `Dzkp` assume
the same of each thread; `FairStep` is weak fairness written out with the
condition under which a step is enabled, because evaluating `ENABLED` would
evaluate circuits again in every state. `Chain` also assumes that the adapter
goes on (`Publish`, `Release`). The planner is a sequential library, and
`Convert` a sequence of calls, with no fairness of their own.

**Where code and documentation part.**

- `planner_half_erased`: `restore_plan` promises that an aborted restore
  leaves the state intact "rather than half-erased" (`poc/planner.py:111`);
  its `commit` replaces `frames` and empties `masked` before the assertion in
  `store_masked`.
- `channel_package_twice`: "a garbled package must never be evaluated twice"
  (`poc/member.py:313`); the package is removed only after an evaluation that
  succeeded, so opening again after a failed one evaluates it again. It takes
  a caller that retries; `main` itself does not.
- `mal_exit`: the TCP test expects that "every process says so and exits
  cleanly" (`engine/tests/tcp.rs:4`). `TcpWire::send` only queues for a
  detached writer thread (`engine/src/net.rs:54`), and `main` of the party
  binary returns right after `send_raw` (`engine/src/bin/party.rs:62`), so the
  last messages may never be written and a peer that waits for them aborts.
- `mal_coin`: "The coin comes only now, after every triple message is sent"
  (`engine/src/mal.rs:170`). A party waits for its next neighbour's triples
  only; the third party's may still be unsent.

A smaller one, with no run: `init_plan` says "Nothing public changes until
commit runs" (`poc/planner.py:83`), but planning increments `next_vid` at once
(`poc/planner.py:47`). The code is right to do so: `PadOnce` would fail
otherwise.

## 4. Proofs

All theorems hold for every value of the constants that satisfies the `ASSUME`s
of the modules; those are evaluated by the runs. A theorem marked * has a
further hypothesis, explained below.

| Module | Theorem | States |
|---|---|---|
| `PlannerProofs` | `Invariance`, `TypeCorrect`, `FrontierTiles`, `PadsUsedOnce` | `Spec => []` of `IInv`, `TypeOK`, `Tiling`, `PadOnce` |
| | `ValuesNamed`, `NothingRevealedEarly` | `Spec => []` of `FullInv`, `NothingEarly` |
| | `NothingLost` * | `~ShortRegisters => (Spec => []Retained)` |
| | `RestoresRepair` | `Spec => RestoreRepairs`, an action property |
| | `PromiseKept` | `Spec => ImplementsRevocation` |
| `ChannelProofs` | `ChannelInvariant`, `ChannelTypeOK` | `Spec => []` of `IInv`, `TypeOK` |
| | `SecretsMatchPoints`, `NoEarlyAsk`, `OneLiarCannotMovePoint` | `Spec => []` of `HandedMatchesPoint`, `AskedAfterNextPoint`, `OneLiarPoints` |
| | `HonestNeverRefused`, `PackageIsSpent` | `Spec => []` of `HonestAccepted`, `PackageSpent` |
| | `ChannelKeepsPromise` * | `MaxLiars = 0 => (Spec => ImplementsRevocation)` |
| `MalProofs` | `RoundsFollowed`, `MalTypeOK`, `RoundsInStep` | `Spec => []` of `SyncInv`, `TypeOK`, `InStep` |
| | `ContentsFollowed` | `Spec => []IInv` |
| | `ResultsRight`, `ChangesAbort`, `OthersNeverAbort` | `Spec => []` of `VerifiedRight`, `CorruptionAborts`, `OnlyCorruptionAborts` |
| `CircuitProofs` | `ProductsAddUp`, `ResharingIsReplicated`, `XorRight`, `NotRight` | a gate evaluated by the three parties shares its output |
| `GfProofs` | `Interpolates` | the weights of `lagrange_at` reproduce a polynomial |
| `ChainProofs` | `CourseFollowed`, `MessagesInStep`, `DrawnInLockstep` | `Spec => []` of `IInv`, `InStep`, `Lockstep` |
| | `ChainTypeOK` | `Spec => []TypeOK` |
| | `BlockAgreed` | `Spec => []Shared!Agreement` |
| | `ChainImplements` | `Spec => ImplementsSharedResult` |
| | `ReleasesRight` | `Spec => []ReleasedRight` |
| `DzkpProofs` | `StagesFollowed`, `MessagesInStep` | `Spec => []` of `IInv`, `InStep` |
| | `HonestAccepted` | `Spec => []OnlyCorruptionAborts` |
| `ConvertProofs` | `ConvertTypeOK`, `MasksRight`, `PointsRight`, `ReleasesRight` | `Spec => []` of `TypeOK`, `MaskedRight`, `PointRight`, `ReleasedRight` |

**Planner.** Neither `Tiling` nor `PadOnce` is inductive. A restore installs
the frames collected during a walk, so the invariant must say what a walk has
collected half way: they tile the indices below `prefix` (`WorkTiles`), and
`prefix` is `target` with the bits not visited yet cleared (`WalkInv`), hence a
multiple of the next power of two, within one such power below the target. At
the end of the walk that is `prefix = target`. A prepare's working stack tiles
the same range as the frontier and is split without changing what it tiles.
`PadOnce` needs that the ids of the plan under construction were never shown
(`FreshUnseen`) and that every id in use was minted (`VidsMinted`). `Control`
says which operation is in which place. `IInv` is the conjunction; the proof
has one lemma per action, after the arithmetic of powers of two and bits.

`FullInv` adds `ValueInv`, which says what every id stands for: whatever is public or about to be
under an id is the value of the index that id is filed under, as a frame, a
leaf, or the place a walk or a descent has reached. It rests on `IInv`, since
only unused indices are filed, ids are fresh, and the prefix of a frame is a
multiple of its size. From it, a value opened for a release is the leaf's, and
a leaf derives nothing but itself; an id opened is a leaf's that was to be
released. `PromiseKept` follows step by step: a prepare moves `Published`, a
release appends the value of its commitment. `Retained` needs in addition that
nothing filed is gone (`Kept`), which a short restore breaks:
`planner_half_erased` shows it, and `NothingLost` therefore excludes it. With
short restores `RestoresRepair` says that a complete one establishes `Kept`
again.

**Channel.** `IInv` has six parts. `DriverInv` relates the driver's place to
points, counterparty and secrets. `UpdatesInv` counts the commitments per quorum. `RequestsInv`
is about threads and inboxes: a request still pending belongs to an earlier
round or asks what the driver is doing now, at most one per member and round,
and an answer that counts in this round says what its member would say.
`HonestInv` (members have the dealing in force, nothing is tainted without a
liar) yields `HonestAccepted`. `PackageInv` yields `PackageSpent`: after the
open no request that could still garble the channel's package is pending,
because the party that garbled it answered in a round that is over.
`OneLiarPoints` is inductive with the others. The proof treats the steps of members and faults once
(`MemberOrFault`: they never touch what the driver owns) and the driver's one by
one. `ChannelKeepsPromise` assumes `MaxLiars = 0` because what the counterparty
was handed after a lie is not the promised secret; that it still is the one
behind the point, lies or not, is `SecretsMatchPoints`. `Updates + After` is at
most `Pow2[Width]` by assumption, 2^48 commitments.

**Mal.** `IInv` has two halves. `SyncInv` is about rounds only, and nobody's
contents matter to it: every party goes through the same rounds in the same
order (`After`), its stock, log and sub-step fit the round it is in
(`PlaceInv`), and on each link the messages on their way are those of
consecutive rounds, from the one the reader reads next (`ToRead`) to the one
the writer sends next (`ToSend`), unless the writer has aborted or the reader
ended. A link to the next neighbour carries only the rounds that exchange
hashes (`Due`). Within a process `NotAfter` bounds the reader by the writer.
This yields `InStep`, and it is what makes the sizes of messages known, which
the other half needs.

`ContentInv` says in what way the state may differ from the undisturbed run,
in which every error is 0. Before the change it does not (`Untouched`), and within a
process nobody has aborted: this is `OnlyCorruptionAborts`. After it, one of
four things holds. A hash has been changed: then party 0 or 2 has it on its
way or in its hands, or has aborted over it (`HashChanged`). A changed word is
on its way to party 0 (`InFlight`). Party 0 has taken it as a triple
(`Spoiled`): either it is one of those that are opened and `CutFails`, or it
is in some pair of the sacrifice (`Covered`, an argument about quotients of
`Bucket - 1`) and the zero check fails; party 0 never reaches the check of
views. Or party 0 has opened it as part of
a value (`Marked`): then its log differs from the others' at one position that
stays there to the end of the segment, so no party passes the check of views
that ends it; up to that position everything is as it should be, and behind
it, where values may depend on data, anything may be opened, but only by
parties that still have that check before them. The three properties are read
off. The invariant also needs that nothing stays on its way to a thread that has returned
(`Emptied`), since the next evaluation of a session starts with new wires.
All of it holds for every number of evaluations and levels, every batch, cut
and bucket size (at least 2), with or without openings, over both transports; that an item is changed
only in process and at most once, by party 1, is `Send` and `MaxFlipsAssumption`.

**Chain.** Nothing a party computes depends on when its neighbours run. So
there is one undisturbed course of all three parties, round by round, defined
by `Together`; the invariant says that a party in round n has the tape, value
and count of draws the course has at n, and that the wire it reads holds exactly the
messages of the rounds from its own to its neighbour's (`Follows`). `InStep`
and `Lockstep` are read off. The course is bound by an existential quantifier over
all functions, so TLC cannot evaluate this invariant; it checks `InStep` and
`Lockstep`. That a course of every length exists, and that tapes along it fit
together (the second component of a party is the first of the next), are
proved by least counterexample.

What the course computes is shown in three layers. *The circuit*
(`CircuitProofs`): the schedule's lists hold exactly the gates of their round,
in the circuit's order (`ScheduleIs`), and a gate's inputs are outputs of
earlier gates, of the same round or a round before. So after the local gates of round
r and the ANDs of the rounds below it, the parties' tapes hold one sharing of the
clear wires wherever `Available` says so (`TapesRight`): local gates keep it by
`XorRight` and `NotRight`, the products of a round and the components received
by `ProductsAddUp`. That a fold over a sequence is a course of its own, one
element at a time, is what relates `FoldLeft` to the order of evaluation. *The
hash*: the start tape shares the message block with its padding and the start
state (`BegunRight`), and the outputs after the last round are the digest of
`eval_clear` (`DigestRight`, `ValuesRight`), in every lane. *The
walk*: after so many hashes, lane l holds what the reference has derived for
an index with the bits visited so far (`Reached`), where `Derives` is the
recursion of `generate_from_seed`; the expansion doubles the lanes, each pair
differing in the bit of its level (`ReachedNext`). In the end lane l holds the
leaf of `RootIndex + l`. `CourseRight` puts them together, `BlockAgreed` reads it off the
course a party is on, and `ChainImplements` follows step by step.

`ChainTypeOK` says that words keep to the lanes of the block. A hash works on as
many lanes as its step has (`Slim`), and a tape that keeps to them yields
messages and tapes that do (`Narrow`), so the course keeps to them; `HeldInv`
carries this to what parties hold, `RestInv` says what is left once a party has
returned.

`ReleasesRight` adds `AdapterInv`: at most one party lies at a time, a lie
makes the answers inconsistent, so only honest values are published and
released, and they come from a finished block, which is right by `BlockAgreed`.

All of this is for every hash circuit that is `Formed`, has wires for a block
and a start state, and an AND (`HashCircuitFormed`; without one the depth is
zero and a hash needs no message), every start state and seed (`ValuesFormed`).

**Dzkp.** In an instance the prover and its two verifiers take different steps
and pass by different reads, a coin may be drawn again any number of times, and
party 1 may send anything where its items belong. What a party does next
depends on few numbers (`ControlOf`: where it is, phase, prover, round, coins
drawn, lengths of vectors and log) and on the coins. So there is one course of
stages for all (`Course`), given by the coins as they were dealt (`TrueCoin`).
`IInv` says that every party that has not aborted is at some stage of the
course, passing over those in which it has nothing to read (`TakesPart`), and
that a link holds the messages of the stages after its reader's up to its
writer's, in order and nothing else (`Holds`, `Link`); a writer that aborted
may have stopped earlier. The messages carry the shares of the coins as dealt
unless party 1 sends them. That an accepted coin is the dealt one
(`CoinIsTrue`) then follows from the double opening: of the two neighbours that
send the missing share one is not party 1, and they must agree. Without this
the parties could disagree on whether a coin is drawn again and take a proof
for a coin. `InStep` is read off: what is first on a link a party waits on is
of its stage. This holds for every circuit that has an AND
(`MultiplierFormed`; otherwise `verify` returns at once), block and lane width,
inputs, random streams, `Lambda`, and at most one changed item. As in `Chain`
the course is bound by a quantifier over all functions, so TLC cannot evaluate
`IInv`; it checks `InStep`.

`HonestAccepted` is about what the messages hold. Along the course there is one
run of states (`IsRun`): what the three parties hold at each stage when nobody
aborts and nothing arrives changed. `GoodAt` is what is true along it. Before
the proofs: the tapes fit (`Fits`: a component two parties hold is the same),
and so do the logs of the multiplications (`Logs`). In a round (`Proving`): the
inner product of the prover's two vectors is the sum of the two verifiers'
targets, and each verifier's vector is the prover's. After a proof
(`Certified`) the two shares add up to the values of a polynomial whose sum
over the data points is that product, so the residuals cancel (`NothingLeft`);
after a coin the folded vectors have as inner product the value of that
polynomial at the coin, which is what the verifiers' new targets add up to. The
last round adds a random coordinate on either side and ends in a product of two
evaluations (`Balanced`). The algebra is proved in `GfProofs` from
`FieldAxioms`: sums over functions, polynomials as sums of multiples of (x +
1)(x + 2)...(x + j), that one of degree below n with n zeros is zero
(`PolyZeros`), and so that `LagrangeAt` reproduces every polynomial of a degree
below the number of points (`Interpolates`). `HonestInv` joins this to the
parties: as long as no item was changed, a party at a stage is where the run
has it (`InPlace`) and every message says what the run has its sender say
(`Truthful`). It is inductive together with `IInv`.

Three assumptions carry this. `FieldAxioms`: the modulus is irreducible, so every
element but zero has an inverse; TLC evaluates it over GF(32), and for the code
it is the fact that x^64 + x^4 + x^3 + x + 1 is irreducible (`gf64.rs:2`).
`PointsDiffer`: the field has room for the points of a proof. `OutputsAreWires`:
outputs are wires of the circuit (`bristol.rs:6`).

**Convert.** `MInv` and `PInv` are inductive. `MaskedRight` is arithmetic: the
circuit of `QMask` computes, in every lane, the sum of a leaf and three
summands modulo the order. The proof goes through what a ripple computes. A row of full adders is
a function of the position, and its existence and the equation "sum bits plus
carry times a power of two is the sum of the operands" are shown by least
counterexample (`AddRight`); the same for adding a constant, for selection
(`SelectRight`) and for a subtraction taken when it does not borrow
(`CondSubtractRight`). Four of them bring any sum of four words below the order
(`ReducedRight`), because `QMaskSizes` makes such a sum less than five times
the order (`MaskedSumRight`). Points and releases: each
published point comes from answers whose copies agree, with the liars it
records. When at most one party lies and every summand's two copies agree,
each answer has an honest holder, so all are honest (`OneLiar`). `MaskOff`
takes the summands off a masked leaf modulo the order. A release must match the
point, and a scalar below the order is determined by its point.

`PowersOfTwo` is a fact of arithmetic, assumed because exponentiation is
uninterpreted to the provers; TLC evaluates it.

**Least counterexample.** The library's induction theorems take an operator as
a parameter, which no backend here can instantiate. Instead, the proofs form the
set of numbers at which a statement fails and take its least element
(`LeastNumber`, `UpTo`). This reaches everything defined by a recursive
function over numbers, and no module declares a `RECURSIVE` operator.

**Only model-checked.** Liveness (`Terminates`, `Completes`), because `ENABLED`
and fairness are beyond the proof system. Of
`Dzkp`, `OpenedRight`, `CorruptionAborts` and `ImplementsSharedResult`: a proof
that passes by coincidence is possible for some values of the random streams,
so they hold for the patterns of the run and not for every value of the
constants. `TypeOK` of `Dzkp` is not proved either: the proofs take
what they need about types from `IInv` and the run.

## 5. Plan

Done: the planner, the channel, the engine's three backends, its chain walk and
conversion; the proofs of section 4. Next, in order:

1. `RingNet`, the rest: dial and accept in `tcp_ring` (the dial has a deadline
   and the accept none), sockets of bounded size under the writer threads.
2. `Mal`: a session that is used again after an abort, with whatever log,
   stock and random streams its parties were left with.
3. `Iceberg`: ranks and unranks of subsets for general n and t, and that every
   quorum holds every summand.

Not modelled and not planned:

- The parser of circuit files (`bristol.rs`) and how `build_qmask_circuit`
  numbers its wires: input/output and layout; the circuits' values are modelled.
- Elliptic-curve arithmetic and SHA-256 itself: external or too large for TLC.
- MP-SPDZ and the programs compiled for it; `poc` uses their promise.
- `poc/selftest.py`, `scripts/point_export.py`, `ldk-check/src/main.rs`: tests
  and tools without state of their own.
- Command lines, benchmarks, byte counters, deployment scripts, result files.
- Ids are never given back by the planner and `masked` keeps old ones: this is
  growth, not a wrong state, and nothing in the code promises a bound.
- A scalar not below the group order, of probability about 2^-128, makes a
  leaf impossible to prepare; no model counts on it.
