# A verification of chain5j-pbft

chain5j-pbft is the PBFT consensus engine of a chain5j node. The validators of a
chain decide one block per height by a three-phase vote (pre-prepare, prepare,
commit); a round change replaces a proposer that does not deliver. This directory
holds TLA+ models of its core, of the engine around it (sealing, header verification,
governance votes and their snapshots, gossip, start and stop), the TLC runs that check
them on small instances, and TLAPS proofs of the properties that hold for every instance.

| File | Content |
| --- | --- |
| `Validators.tla` | thresholds and proposer selection (`validator/`, `core/utils.go`) |
| `PBFTCore.tla` | the consensus core (`core/`) and the chain as the core reads it |
| `PBFTCoreProofs.tla` | quorums, the inductive invariants of the core, the refinement, agreement, and the seals of commits |
| `ViewVoting.tla` | abstract specification: one vote per validator and view, decisions by quorum |
| `CoreVoting.tla` | the refinement mapping from `PBFTCore` to `ViewVoting` |
| `MCPBFTCore.tla`, `Core*.cfg` | instances of the core, with `CoreVoting` and `CoreHeaders`, for TLC |
| `Gossip.tla`, `MCGossip.tla`, `GossipRelays.cfg` | spreading of messages (`core/broadcast.go`, `core/pbft.go`) |
| `GossipProofs.tla` | once-only handling, and what losses a message survives |
| `CoreLifecycle.tla`, `LifecycleCalls.cfg` | `Start`, `Stop` and the event loop's goroutine (`core/pbft.go`) |
| `CoreLifecycleProofs.tla` | loops and quits over any number of starts and stops |
| `SealEngine.tla` | `Seal` and `Commit` of the node's engine (`engine.go`, `pbft.go`) |
| `SealEngineProofs.tla` | the inductive invariant of sealing |
| `MCSealEngine.tla`, `SealCalls.cfg` | instances of sealing for TLC |
| `HeaderRules.tla` | the rules for headers as operators (`engine.go`, `pbft.go` `Verify`) |
| `Headers.tla`, `MCHeaders.tla`, `HeadersChain.cfg` | headers from `Prepare` to the chain under those rules |
| `HeadersProofs.tla` | the chain that the rules guarantee, and that honest headers pass them |
| `CoreHeaders.tla` | the seals of the core's commits against those rules |
| `VoteTally.tla` | counting votes about managers and validators, as operators (`manange.go`) |
| `VoteSnapshot.tla`, `MCVoteSnapshot.tla`, `VotesTallies.cfg` | the life of one vote count |
| `VoteSnapshotProofs.tla` | that tallies count managers, once each, and members change by majority |
| `Snapshots.tla`, `MCSnapshots.tla`, `SnapshotsShared.cfg`, `VotesEffect.cfg` | snapshots in cache and on disk (`snapshot.go`, `engine.go`) |
| `SnapshotsProofs.tla` | what sharing, eviction, failures and restarts leave intact |
| `VoteManager.tla`, `MCVoteManager.tla`, `PoolVotes.cfg` | the pool of votes between API and blocks (`api.go`, `manange.go`) |
| `VoteManagerProofs.tla` | what headers carry and pools forget |
| `PROJECT.json` | components, runs, mutants, source map, findings, hazards, theorems |

## 1. Inventory

**Consensus core** (`core/pbft.go`, `pre_prepare.go`, `prepare.go`, `commit.go`,
`final_commit.go`, `roundstate.go`, `utils.go`). State: the current view (height and
round), the state AcceptRequest, PrePrepared, Prepared or Committed, the accepted
proposal, the Prepares and Commits of the view, the locked hash, the pending request,
`waitingForRoundChange`, the validator set and its proposer. One goroutine,
`handleLoop`, handles requests, messages, backlog events, new heads and timeouts; all
of these arrive through channels that other goroutines feed. Correct when a block is
handed to `backend.Commit` only on a quorum of its view, when a validator votes once
per view, when locks and proposals belong together, and when heights get decided.

**Round change** (`core/round.go`). State: the round change votes by round, and the
timer. Operations: `StartNewRound`, `catchUpRound`, `sendRoundChange`,
`HandleRoundChange`, `handleTimeoutMsg`. Hard: timeouts race with the end of the round
that they belong to; the votes of several rounds overlap. Correct when views never go
back, when no round is left without a timer, and when a quorum of votes for a round is heeded.

**Backlog** (`core/backlog.go`). Messages that come too early, one priority queue per
sender, posted back on every change of state. Correct when nothing that can be handled
stays behind.

**Requests** (`core/request.go`). The blocks the node wants decided: the pending one,
and a queue for later heights.

**Broadcast** (`core/broadcast.go`). Signs and seals a message, hands it to this
validator's own loop through `localMsgCh` and gossips it, with caches of known messages.
Hard: a peer is marked before its copy is known to have arrived, and nobody sends twice.
Correct when every message reaches the handler of every validator, once.

**Validator set** (`validator/`). A sorted list, the tolerated number of faults, the
proposer of a round (round robin or sticky). Correct when any two quorums overlap enough.

**Sealing** (`engine.go` `Seal`, `pbft.go` `Commit`). State: `proposedBlockHash` under
`sealLock`, and `commitCh`, a channel for one block. Each `Seal` passes its block to the
core and leaves a goroutine that waits for the verdict; each `Commit` offers its block to
the channel in a goroutine of its own. Hard: calls overlap, blocks of other proposers
arrive, the context ends at any time. Correct when a call returns only its own,
committed block, when it gets that block if there is one, and when it ends.

**Governance votes and snapshots** (`manange.go`, `snapshot.go`, `api.go`, `types.go`).
Managers vote on managers and validators: the API takes a signed vote into a pool with
one place per candidate, `Prepare` puts a live vote of each kind into a header, and `Apply`
folds the votes of headers into the snapshot of a height, kept in a cache and as JSON in the
database. State of a snapshot: its members, the votes in order, a tally per candidate, and
the validator set that the core reads. Hard: cached snapshots are shared by goroutines
without a lock; members, and with them the threshold, change while votes are pending; a
restart keeps only the disk. Correct when a tally is the number of managers that want a
change, when members change by majority only, and when a snapshot has the votes of its
headers.

**Header verification** (`engine.go`): fields, the proposer's signature, the committed
seals of a header against the parent's validator set. The same function judges a proposal
without seals and a block with them. Correct when what was accepted as a proposal and
sealed is accepted as a block.

**Life cycle** (`core/pbft.go`). `Start` spawns the event loop, `Stop` asks it to quit and
waits on a wait group. Correct when `Stop` ends, no loop is left for good, two never run at
once, and nothing meets the round state that the exit clears.

**Options, codecs** (`options.go`, `protocol/`).

The engine calls the core (`Request`, `NewChainHead`); the core calls the engine as its
backend (`Verify`, `Commit`, `LastProposal`, `GetProposer`, `HasProposal`). The node
takes the result of `Seal`, inserts the block, and announces the new head.

`PROJECT.json` lists what is hard to test in all this, each at its line, with the
properties that watch over it.

## 2. The models

### Validators and PBFTCore

`Validators` has no variables: the validator list is a constant, as it is while one
height is being decided. `FaultTolerantNum`, `reachThreshold` and the two selectors are
translated as they stand, with the special case of `f = 0`, where exactly all validators
must vote.

In `PBFTCore`, `core[n]` is the struct of validator `n`. `core.state`, `waiting`,
`lockedHash` and so on keep the code's names; `roundChanges` is the round change set,
`known` the known-message cache, `timeouts` the timeout events under way. The channels
are sets, because separate goroutines feed them and their order is not determined.
`msgs` holds everything broadcast. `chain`, `sealed` and `committed` belong to the node.
A block is its height, its author and a nonce, and it stands for its own hash.

One handler call is one action, including everything it triggers: `setState` ends with
the posting of pending requests and of the backlog, `StartNewRound` with the new timer
and a repeated proposal. A handler that has several outcomes is several actions:

| Code | Actions |
| --- | --- |
| `Request` / `HandleRequest`, `CheckRequestMsg`, `StoreRequestMsg` | `Request` / `HandleRequest`, `DeferRequest` |
| `HandlePrePrepare` | `HandlePrePrepare`, `HandleLockedPrePrepare`, `HandleConflictingPrePrepare`, `HandleOldPrePrepare` |
| `HandlePrepare` | `HandlePrepare` |
| `HandleCommit`, `commit` | `HandleCommit`, `HandleDecidingCommit`, `HandleFailedCommit` |
| `HandleRoundChange` | `HandleRoundChange` |
| `handleMsg` on early messages; early returns | `HandleFutureMessage`; `IgnoreMessage` |
| `HandleFinalCommitted` | `HandleFinalCommitted` |
| timer function, `RequestTimeout`, `handleTimeoutMsg` | `TimerFires`, `RequestTimeout`, `handleTimeoutMsg` |
| the node inserts a block (external) | `InsertBlock` |

Some choices to know about:

- The validators in `Running` execute the code. The others are an environment with the
  message set `PeerMessages`; each of those messages may arrive at any time or never.
  So a run can put one validator under all orders of a rich set of inputs, or close the
  system and let all validators run.
- Messages are delayed, reordered and lost. A duplicate is dropped by the known-message
  cache, whose eviction is not modelled.
- Senders are authentic: nobody sends in the name of a validator in `Running`
  (`CoreAssumption`). The code does not see to that itself. `checkValidatorSignature`
  (`core/pbft.go:308`) is marked todo and returns without a check, and `FromPayload`
  (`protocol/message.go:43`) drops the signer. Whatever rests on whose vote is counted, above
  all `CommitCertificate`, `ViewAgreement` and the theorems on agreement, holds of the code
  only once that function is written.
- Handling an old message other than a PrePrepare changes nothing, so such messages are
  neither delivered nor remembered (`Relevant`).
- `backend.Verify` and `backend.Commit` return an error at any time when the constants
  `VerifyMayFail` and `CommitMayFail` allow it.
- Each request of a sealer is a fresh block, since sealing signs it; `Nonces` bounds how
  many a validator seals per height.
- `RequestTimeout` is part of the core's interface and is modelled, although its only
  call is commented out (`engine.go:391`).
- Backlog priorities are rounded to float32 as in the code (`float32`): from height 16777 on
  different priorities become equal. In what order the priority queue yields equal ones is
  open each time it is read (`TieBreaks`); it makes a difference only for a message that
  belongs before its equal, so only these are chosen from. The product of a height and 1000
  is not cut off at 64 bits.
- The timer has no length: an armed timer may fire at any time. (Its length overflows
  from round 34 on, which takes five hundred years of timeouts to reach.)

### ViewVoting and CoreVoting

`ViewVoting` has two variables, the votes and the decisions, and three actions: a running
validator casts its vote in a view (`CastVote`), it votes for a block that is decided
already (`Endorse`), it decides on a quorum of votes (`Decide`). `CoreVoting` maps the
Commits among `msgs` to votes and `committed` to decisions. `Endorse` is there because of
`sendCommitForOldBlock`: a validator that has voted for one block of a view answers a late
proposal of the other with a second, different Commit in that view, if the chain has that
block.

### Gossip

`peersMessages` and `knownMessages` are the two caches. `GossipPayload` marks the peers it
sends to and some of the sends are lost. A validator that receives a message marks its
*signer*, not the relay it came from, handles it if it is new, and relays it if the handler
returned nil; the messages in `Refused` are those that handlers may answer with an error,
as they do when a message is early or its round is over. Payloads are authentic. The caches
forget nothing (they hold 1024 messages for each of 40 peers).

### CoreLifecycle

`spawned` counts loops before `handlerWg.Add(1)`, `running` those after it, `quits` the
goroutines that want to send on `quitCh`. A handler is one step that needs the round state
and may arm the timer; a nil round state crashes the process, and `panic` says who met it.
Callers start and stop in turn, which they can see to; they cannot see whether the loop's
goroutine has begun, so `Stop` may come before that, and `Request` reads the round state at
any time. The history variable `overtaken` records that a `Stop` has returned before its
loop's goroutine began.

### SealEngine

`phase[s]` is where call `s` of `Seal`, and later its goroutine, has got to; a new phase
begins wherever another goroutine can get in: the delay, the lock, the request, each read
of `commitCh`, the wait, the send on `results` (with `sealLock` held) and the deferred unlock.
`Commit` and its goroutine (`Offer`) are two actions. The core is external here: it commits any
block of another proposer, and a block of this node once it has been requested, several times if rounds repeat it. The context of a call ends at any
time (`Cancel`), and the node takes a result when it likes (`TakeResult`). The send on the
core's `requestCh` is one step with the request.

### HeaderRules, Headers and CoreHeaders

`HeaderRules` translates `verifyHeader`, `verifyCascadingFields`, `verifySigner`,
`verifyCommittedSeals` and `Verify` in the order of their checks, with the names of the
errors as results (a seal without a recoverable signer counts as an invalid one; the code has
an error of its own for it). A header's hash leaves its seals out, as the code needs it to. Of a vote
only matters whether its signature is its manager's, of a seal who made it and whether for
this header. `Headers` runs them: a validator prepares a header on the head, or a peer makes
any header; verified proposals are sealed by any quorum, of which the members in `Faulty`
may have sent anything as their seal, since the core looks at none (`core/commit.go:86`);
headers, sealed here or elsewhere, are inserted when they verify. `now` is one
clock for all nodes. `CoreHeaders` joins the rules with `PBFTCore`: the seals of a committed block are those of the Commits the core
counted, whatever the core made of them.

### VoteTally, VoteSnapshot, Snapshots and VoteManager

`VoteTally` treats the two kinds of votes alike, as two sides of one record, except where
the code does not: a repeated vote is replaced on the managers' side, while `applyVVotes`
removes an entry of the managers' votes by an index of the validators' votes. A tally that
was never made is `NilMap`; a write to it, or a slice expression out of range, is a panic.
`VoteSnapshot` applies headers to one count and resets, copies and reloads it. Its history
variable `misfiled` records that a repeated validator vote has displaced a manager vote
since the last reset; the properties of the counts hold up to that moment.

`Snapshots` is `pbftEngine.snapshot`: `Lookup` walks back to a cached object, a stored
checkpoint or genesis; `FinishFound` and `FinishApplied` apply the headers to the object
*as it is by then*, put the result into the cache and store checkpoints. Between the two
steps other goroutines run. Objects are shared through `heap`. A snapshot's `valSet` is a
pointer, given as the address of the snapshot whose vote count owns the set: `newSnapshot`
makes one set for both, and copies share it, so a vote on that count would reach all of them.
The cache drops any entry when it is full; the database may fail; a restart keeps `disk` and
`chain`.

`VoteManager` is the pool: `Propose` (either API call), `Prepare` with `getVotes`, which
walks a Go map in any order, and inserted blocks that change the members. A deadline is any
natural number and is cut to `Word` when it is compared with a height (`Uint64`; 2^64 in the code).
`VoteTally` asks of a voter what the code asks: nothing. Neither `applyMVotes` nor
`applyVVotes` checks that the voter is a manager; the runs cast votes of managers, as the API
sees to.

## 3. The runs

| Run | Instance | Checks |
| --- | --- | --- |
| `CoreVotes` | `v3` of four, heights 16778 and 16779; peers vote in rounds 0 and 1 and repeat a Commit with another seal, Verify and Commit may fail | `TypeOK`, `LockIsProposal`, `VotingHasProposal`, `BacklogWaits`, `TimerAlive`, `CommittedSealsEnough`, `CommitCertificate`, `ProposerOfView`, `OwnMessagesNotFuture`, `RoundQuorumHeeded`, `ProposalStable`, `ViewMonotone`, `RoundVotesKept` |
| `CoreDoubleProposal` | two validators, two blocks per sealer, one round | `ViewAgreement`, `OneVotePerView`, `ImplementsViewVoting` |
| `CoreDecides` | two validators, two heights, one round, `FairSpec` | `EveryHeightDecided` |
| `CoreAgreement` | two validators, one height, two rounds | `Agreement` is violated |
| `SealCalls` | two calls, one block of another proposer, each committed up to twice, `FairSpec` | `ResultCommitted`, `SealEnds` |
| `GossipRelays` | three validators, three messages, one of which may be refused, one lost send | `HandledOnce`, `ReachesAll` |
| `LifecycleCalls` | six calls in turn at any moment, three timeouts | `TypeOK`, `ServedSoundly`, `StopEnds`, `LoopsEnd` |
| `HeadersChain` | four validators, one of them faulty, and an outsider, lists of up to three seals, signed and unsigned votes | `TypeOK`, `ChainSealed`, `CommittedBlockVerifies`, `PreparedVerifies` |
| `VotesTallies` | three managers vote about one of them and a fourth, two also about a third validator | `TypeOK`, `OneManagerVoteEach`, `ManagerTallyCounts`, `ValidatorTallyCounts`, `ChangedByMajority` |
| `SnapshotsShared` | two goroutines, a cache of one, checkpoints every two blocks, three blocks, failing disk | `TypeOK`, `KeptAtOwnHeight`, `ValSetNeverChanges` |
| `VotesEffect` | one goroutine, a cache of three, three blocks | `VotesTakeEffect` is violated |
| `PoolVotes` | one manager, two candidates, deadlines 3 and 5 with a word of 4, three blocks | `TypeOK`, `HeaderVotesLive`, `OnlyDeadVotesForgotten` |

Why these bounds. With four validators `f = 1`, so a quorum (3), a proposal one lacks
votes for, and the `f + 1` rule (2) are all different numbers; two rounds are enough for a
lock to be carried over, released and contradicted. A closed system of two validators has `f = 0`, where all must
vote; it shows what the validators do to each other, with real senders on both sides. Two
heights are the fewest in which requests and votes for a later height wait in queues. Two
overlapping calls are the fewest that contend for `sealLock`. The bounds stop every
behaviour in the end, hence `CHECK_DEADLOCK FALSE`; where a restart or an API call is always
possible deadlock is checked.

The heights of `CoreVotes` are the first at which float32 makes two priorities of one sender
equal, so that messages do wait behind others there. In
`Gossip` a message among three validators can lose one send and still have a relay for
everyone. Three managers have a majority of two, and of the whole when one is gone; a
candidate that is a manager can be removed while its own votes stand; two of two validators
must be voted for, so that votes wait in the count. `m1` and `m2`, and the two goroutines of
`SnapshotsShared`, are interchangeable, which the runs use as symmetry (neither checks
liveness). A cache of one with two goroutines and three blocks makes every mixture of cached,
evicted, stored and loaded bases happen. A word of 4 puts the deadline 5 beyond the width of a
height. `f = 1` again for headers: three seals are just
enough, and repeated or wrong ones make a difference.

Fairness. `LoopFairness`: every event loop keeps running and Go's `select` chooses at
random among ready channels, so every deliverable message is taken in the end; an armed
timer fires; a committed block reaches every chain. `RequestFairness` adds that the
nodes keep sealing. `EveryHeightDecided` is stated where no round change is needed: with
`MaxRound = 0` a timeout that would ask for another round does not happen. That round changes
bring validators together is not stated: there is no last round in the code, and what makes
them meet is that the timers grow with the round, in real time; `RoundQuorumHeeded` and
`RoundVotesKept` are what each validator contributes. For `SealEnds` the goroutines run and
every context ends, as the node cancels a call on a new head or a deadline, and it takes every
result, also of a call that it has cancelled; a core that
commits nothing must not block later calls. In `Gossip` packets that are not lost arrive and
loops keep reading (weak fairness of receiving). In `CoreLifecycle` goroutines get to run
(weak fairness of `LoopBegins` and `StopReturns`); Go's `select` picks at random, so a loop
that is ready to quit again and again does so in the end (strong fairness of `LoopQuits`).

Every property of a passing run has a mutant in `PROJECT.json`: a plausible slip in one
definition (an operator `X_Suffix` beside the definition `X`) under which the run fails.

## 4. What the code does and its documents do not say

1. **A timeout drops the lock** (`core/pbft.go:253`, run `CoreAgreement`). Of two validators
   one times out in round 0 when both have sent their Commits for block `a`; the other
   receives both Commits and commits `a`. Before its node has inserted `a` it times out as
   well and drops its lock. In round 1 the first validator is proposer, proposes a
   block of its own, and it is committed at the same height. With `UnlockHash` left out of
   `handleTimeoutMsg`, TLC finds `Agreement` true on the same instance (448,117 states).

2. **Votes never take effect** (`snapshot.go:131`, run `VotesEffect`). `Apply` resets and
   returns a copy and applies the votes of the headers to the snapshot it was called on; the
   snapshot of the block that completes a majority has the members of before.

The following came up while modelling. Each is a formula at the end of its module, under
"What the repository says and the code does not do". TLC refutes it
when it takes the place of the properties in the configuration named in parentheses.

3. **Backlog priorities collide** (`core/backlog.go:77`): from height 16777 on a proposal can
   wait behind a vote of the same sender, until that vote is current: `NoStuckBacklog`
   (`CoreVotes.cfg`). `BacklogWaits` says that nothing else holds a message up.
4. **The seal of an answer to an old proposal** (`core/broadcast.go:38`) signs the current
   proposal or is absent: `SealSignsDigest` (`CoreVotes.cfg`). A committed block that counts
   such a Commit does not verify: `CommittedSealsVerify` (`CoreVotes.cfg`); nor does one with
   a faulty validator's seal (`core/commit.go:86`), an exception in `CommittedBlockVerifies`.
5. **Votes for later rounds are wiped** when a round starts (`core/round.go:62`):
   `RoundChangeVotesCounted` (one of four validators with peers that vote for rounds 1 and 2).
   `RoundVotesKept` says that they are wiped nowhere else.
6. **A commit can be cleared away** before its call waits (`engine.go:357`): `CommitNotLost`
   (`SealCalls.cfg`).
7. **Another proposer's block ends a call** with nil (`engine.go:386`), although a comment
   says that it waits for the next result: `NilOnlyWhenCancelled` (`SealCalls.cfg`).
8. **Six validators can decide two blocks in a view** (`validator/validator_set.go:171`): the
   quorum is three, and an honest proposer sends two proposals when its sealer asks twice
   before the first comes back (`core/request.go:37`). `ViewAgreement` fails with a list of six
   validators, two of them in `Running`, and votes of one round.
9. **`Stop` right after `Start`** (`core/pbft.go:167`) returns with the loop alive, although a
   comment says that it makes sure all goroutines have exited: `StopEndsLoops`
   (`LifecycleCalls.cfg`). The loop ends later (`LoopsEnd`), but a `Start` in between makes two.
10. **Round change votes answered with `errIgnored`** are not sent on (`core/round.go:216`),
    although the comment above says they are; nor is an early message. This is why
    `ReachesAll` excepts the messages in `Refused` once a send is lost.
11. **Votes**: a removed manager's own votes stay (`manange.go:139`):
    `RemovedManagersVotesDiscarded`; a repeated validator vote damages the managers' votes
    (`manange.go:221`): `VotesCountedOnce`; a candidate may stay pending above the threshold
    (`manange.go:128`): `NoMajorityPending` (all `VotesTallies.cfg`).
12. **Snapshots**: after a restart the validator set is nil (`snapshot.go:172`):
    `ValSetPresent`; the first vote after genesis panics (`manange.go:171`):
    `FirstVoteCounted` (both `SnapshotsShared.cfg`).
13. **The pool**: expired votes are accepted (`api.go:117`): `AcceptedInTime`
    (`PoolVotes.cfg` with a deadline of 1); one manager's vote replaces another's
    (`manange.go:57`): `ValidUntilDeadline` (two managers).
14. **Headers**: a proposal with an unsigned vote is accepted and cannot be inserted
    (`engine.go:153`), the other exception in `CommittedBlockVerifies`; one seal is enough
    without fault tolerance (`engine.go:229`): `MoreSealsThanFaults` (two validators); `Seal`
    takes milliseconds for seconds (`engine.go:325`): `SealedAtTimestamp` (`HeadersChain.cfg`).
15. **Nobody checks who sent a message** (`core/pbft.go:308`): not a formula, but an assumption
    of the models (section 2, `PBFTCore`).

## 5. What is proved

All theorems hold for any number of validators, heights, rounds, blocks, peer messages,
callers and calls, under the named assumptions of the modules (`ValListAssumption`,
`CoreAssumption`, `SealAssumption`, `SnapshotsAssumption` and so on), which TLC evaluates
on every run. Where a theorem needs more than that, its statement says so: `BacklogDrained`
bounds heights and rounds, the theorems on agreement the faults and the size of the set.

**PBFTCoreProofs, quorums.** `QuorumsIntersect`: two quorums share more than `f` validators if the
set has `3f + 1` members or `f = 0`. For the sizes `3f + 2` and `3f + 3` this is false with
the code's threshold (six validators have disjoint quorums of three), so the condition is
part of the statement.

**PBFTCoreProofs, states.** `IInvHolds` establishes the inductive invariant `IInv`, and from
it `TypeCorrect`, `LocksAreProposals`, `VotersHaveProposals`, `BacklogHeldUp`,
`OwnMessagesInTime`, `TimersAlive`, `CommitsCertified` and `ProposersDetermined`. None of
the invariants is inductive alone. `CommitCertificate` needs to know that each recorded
Commit was sent for the present proposal in the present view (`VotesBacked`), which needs
the proposal to be fixed while Commits are recorded, so `VoteInv` says that they are
recorded only in a voting state outside a round change. `BacklogWaits` needs the fact that
every change that makes a message current is followed by `ProcessBacklog`, whatever order
equal priorities come out in; it holds at every height and round. `BacklogDrained` adds that
where rounds stay below 100 and priorities below 2^24 (heights up to 16775) no message is held
up by a later one, so that nothing usable stays behind; beyond that height the code does not
have this property (section 4, item 3). A timeout breaks
`VotingHasProposal` for the moment between `UnlockHash` and the end of the handler, so the
invariant of one validator is split in two: `ViewInv`, which survives that moment, and
`VoteInv`, which the rest of the handler restores. There is one lemma for each operation;
`BecomeStep` carries a step of one validator over to the invariant of all.

**PBFTCoreProofs, steps.** `NextMoves` sums up, action by action, what a step may do to the
view, the phase and the proposal of its validator and which votes it sends. From it follow
`ViewsMonotone` and `ProposalsStable`. `VotingInv` adds to `IInv` that a Commit of the
current view comes from a validator that has prepared there, that chains hold committed
blocks only, and that the votes of a commitment are a quorum with one vote per validator;
from it follow `VotesOncePerView`, `SealsEnough` (the core's threshold and the one that
header verification applies to the seals agree) and the refinement
`CoreImplementsViewVoting`: every step casts a vote in a view, endorses a decided block,
decides on a quorum or changes nothing of votes and decisions.

**PBFTCoreProofs, agreement.** `Agreement` is false (section 4, item 1), so the question is
how a height can come to be split. `ForksCrossRounds` says: never inside one round first.
Its hypotheses are `FewFaults` (at most `f` validators do not run this code) and
`QuorumsMeet` (the condition of `QuorumsIntersect`); its statement is that as long as no two
*different* rounds of a height have decided differently (`RoundsAgree`, which also excludes a
contradicting block in `PeerBlocks`), there is one block per height. `ViewsAgree` is the same for `ViewAgreement`, and
`FirstRoundAgrees` drops the condition when there are no round changes. The invariant
`AgreementInv` has two phases. Until a height is decided no running validator has sent two
different Commits in one view; afterwards `sendCommitForOldBlock` does send second Commits,
for a block the chain has, but there is a decision whose quorum has committed to nothing
else in its view (`Anchored`), and any other quorum of the same view meets that one in a
running validator. The argument ends where two rounds have decided differently: from then on a
chain may hold the other block, and an answer to an old proposal of it is a second Commit in
the view of the anchor.

**SealEngineProofs.** `TypeCorrect` and `ResultsCommitted`, from the invariant that every
block on its way to a call has been committed at least as often as it is offered. A result
stands while the goroutine waits for the node to take it.

**CoreLifecycleProofs.** `LifecycleTyped`: goroutines never outnumber the calls that made them
(`CountsInv`). `EveryLoopHasItsQuit`: loops, begun or not, are as many as the quits that wait,
and one more while the core is served (`LoopsMatchQuits`), also when a `Stop` overtakes the
start of a loop; so no loop is left without the quit that ends it. `CoresServedSoundly`: unless
that has happened, a core is idle, serving with one loop and a round state, or quitting with
exactly one quit for that loop. After it has happened two loops and a nil round state are
reachable (section 4, item 9).

**GossipProofs.** `MessagesHandledOnce`: what keeps a message from being handled twice is not
the marking of peers but `knownMessages`, together with the fact that no packet ever goes back
to the signer, which handles its own message without a note (`OnceInv`).
`QuietMeansDelivered` is the safety half of `ReachesAll` for any number of validators: when
nothing of a sent message is in flight, everybody has handled it, unless at least
`Size - 1` sends were lost (one, if handlers may refuse the message). The argument counts:
where `k` validators relay and `u` still lack the message, each of the `k * u` pairs had a send
of its own that is over, so it was lost (`LossesCover`), and `k * u >= k + u - 1`. That each
relay sends to everyone else is `MarksFollow`: before it handles a message a validator has
marked nobody but the signer. TLC checked both invariants with three losses first.

**HeadersProofs.** `HeadersTyped`, `ChainIsSealed`, `CommittedBlocksVerify` and
`PreparedHeadersVerify`, from `HeadersInv`: the chain is linked, and what validators accepted
hangs below some header of the chain at a block period's distance (`Accepted`), which stays
true when the chain grows. `CommittedBlocksVerify` has the two exceptions that the code leaves:
an unsigned vote, and a seal of a faulty validator that is not for the header. Lemmas about the
rules: valid seals are as many different validators as there are seals, and the seals of a quorum are valid and enough, in whatever
order the core's map yields them.

**VoteSnapshotProofs.** `VoteSnapshotTyped`, `ManagersVoteOnce`, `ManagerTalliesCount`,
`ValidatorTalliesCount` and `MembersChangeByMajority`, for any votes, candidates and genesis
members. Lists of votes are reasoned about as sets (`Elems`), and `CountInv` says of each side,
until a vote is misfiled, three things that need each other (`Counted`). A manager has one
standing vote per candidate (`OneEach`), so taking the earlier one away takes one from the
number of managers. The tally is exact (`Exact`): an entry for just the candidates that somebody
wants to change, with the number of those managers. And no vote is left to remove somebody who
is no member (`Fresh`). The last is what makes it sound that the code keeps the votes for a
candidate that joins and deletes its tally: with an old vote for removal among them, the
candidate would join with voters against it and no tally of them. `Fresh` in turn holds because
`checkMVote` and `checkVVote` refuse such a vote, and a removal discards all votes about the
candidate. Types and one vote each on the managers' side (`Sound`) need no such condition and
hold after a vote was misfiled as well.

**SnapshotsProofs.** `SnapshotsTyped`, `SnapshotsKeptAtOwnHeight` and `ValSetsNeverChange`,
for any number of callers, any cache size, epoch and checkpoint interval. `SnapshotsInv` says
of each pending call that its base is still in the heap and no higher than its target, of the
cache and the disk that every entry has its key's height, and of every object that the
vote count it shares its validator set with has the genesis members, or that the set is nil.
The argument for the latter: a count that owns a shared set is one that `newSnapshot` made,
and its tallies are nil, so the first vote that it takes up ends the process before any member
changes (`BlankVotes`); copies and reloads have tallies but sets that nobody points to.
`KeptAtOwnHeight` rests on `Apply` adding the number of headers to the height of a base that
another goroutine may have touched meanwhile; the invariant also shows that the error
`errInvalidVotingChain` is never returned to `snapshot`. A free
address always exists because only cached and borrowed objects are live.

**VoteManagerProofs.** `VoteManagerTyped`, `HeaderVotesAreLive` and `VotesForgottenOnlyDead`.
`HeaderVotesLive` speaks of a header that can still become the next block, so the invariant
needs that a header is never prepared for a later one (`HeaderInv`).

Only model-checked:

- the liveness properties `EveryHeightDecided`, `SealEnds`, `ReachesAll`, `StopEnds` and
  `LoopsEnd`: liveness under fairness is out of the prover's reach;
- `RoundQuorumHeeded` and `RoundVotesKept`;
- that `Agreement` holds without `UnlockHash` (section 4, item 1), on one instance.

## 6. What is not modelled

- Options and configuration: setters without state. Codecs (RLP, JSON of messages) and hash
  prefixes: conversions of well-formed values. The JSON form of snapshots is modelled, since
  it loses fields.
- The length of the round change timer, and with it progress over an unbounded number of rounds.
- Signatures of messages: their authenticity is assumed (section 2, `PBFTCore`).
- Eviction from the message caches (40 peers, 1024 messages each; `Gossip` and `PBFTCore` forget
  nothing). The cache of recovered signers (`ecrecover`), which
  is keyed by the header's hash without its signature.
- `Verify`'s comparison of the transactions with `TxsRoot`: both types are external, and
  whether they can be equal is not decided by this repository. `VerifyHeaders` panics with
  "implement me".
- A restart of the core in the middle of a height. It keeps nothing of the round, so there
  is no recovery to check.
- Changes of the validator set while the core decides: by items 2 and 12 of section 4 no vote reaches the set
  that the core reads (`ValSetNeverChanges`).
- Validators that equivocate or forge (`PeerMessages` can hold contradicting messages of a
  peer, but the agreement properties are checked for validators that run the code).

## 7. Plan

1. *Done:* `Validators`, `PBFTCore`, `SealEngine`, their runs, the first theorems.
2. *Done:* governance votes, snapshots and the pool; gossip; the life cycle; headers and their seals; the abstract specification and its refinement.
3. *Done:* theorems about the core's steps (`ViewMonotone`, `ProposalStable`,
   `OneVotePerView`), the refinement to `ViewVoting`, agreement within a round for `3f + 1`
   validators, and the seals of commits; theorems about gossip, the life cycle, headers,
   snapshots and the pool.
4. *Done:* theorems about the counts of `VoteSnapshot`; float32 priorities, shared validator
   sets, the life cycle with calls at any moment, seals of faulty validators.
5. Theorems for the safety halves of the liveness properties of the core and of sealing: what
   must be the case where nothing can happen any more.
