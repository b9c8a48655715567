------------------------------ MODULE PBFTCore ------------------------------
(***************************************************************************)
(* The consensus core of a validator (package core): the three-phase vote  *)
(* on one block per height, the round change that replaces a proposer, the *)
(* backlog of messages that arrive too early, and the timer that drives    *)
(* it.  Each validator is one event loop (core.handleLoop), so one handler *)
(* call is one atomic step; what interleaves is the loops of different     *)
(* validators, the goroutines that feed the channels, the round change     *)
(* timer, and the node that inserts committed blocks into the chain.       *)
(*                                                                         *)
(* A subset Running of the validators executes this code.  The others, the *)
(* peers, are an environment: their messages are the constant PeerMessages *)
(* and may arrive at any time, in any order, or never.  The network        *)
(* delays, reorders and loses messages; a duplicate is dropped by the      *)
(* known-message cache.                                                    *)
(***************************************************************************)
EXTENDS Validators

CONSTANTS
    Running,        \* the validators that run this code
    PeerMessages,   \* the messages the other validators may send
    PeerBlocks,     \* the blocks the other validators may have committed
    Nonces,         \* distinguish the blocks one author seals at one height
    NoBlock,        \* a nil proposal, and the zero hash
    GenesisHeight,  \* height of the genesis block
    VerifyMayFail,  \* whether backend.Verify may return an error
    CommitMayFail,  \* whether backend.Commit may return an error
    MaxHeight,      \* bound: no block is sealed above this height
    MaxRound,       \* bound: no validator moves to a round above this one
    MaxTimeouts     \* bound: timeout events waiting at one validator

Heights == GenesisHeight + 1 .. MaxHeight
SeqNumbers == GenesisHeight + 1 .. MaxHeight + 1
Rounds == 0 .. MaxRound

\* A proposal is told apart by its height, the validator that sealed it and a
\* nonce; a hash identifies its block, so the block stands for it.
Blocks == [height : Heights, author : Validators, nonce : Nonces]
Hashes == Blocks \cup {NoBlock}

\* One record for all four payloads.  digest is the proposal of a PrePrepare
\* and the subject's hash of the others (the zero hash in a RoundChange);
\* seal is the hash that the CommittedSeal of a Commit signs.
Message ==
    [type : {"PrePrepare", "Prepare", "Commit", "RoundChange"}, from : Validators,
     seq : SeqNumbers, round : Rounds, digest : Hashes, seal : Hashes]

\* What the senders' code guarantees of a message that is on the wire
\* (SendPrePrepare, Subject, sendRoundChange).
WellFormed(m) ==
    /\ m.type # "RoundChange" => m.digest \in Blocks /\ m.digest.height = m.seq
    /\ m.type = "RoundChange" => m.digest = NoBlock /\ m.round > 0

\* Nobody sends in the name of a running validator.  This is taken for granted:
\* checkValidatorSignature (core/pbft.go) returns without looking at a signature,
\* and FromPayload drops the signer that it names.
ASSUME CoreAssumption ==
    /\ Running \subseteq Validators
    /\ PeerBlocks \subseteq Blocks
    /\ PeerMessages \subseteq Message
    /\ \A m \in PeerMessages : WellFormed(m) /\ m.from \notin Running
    /\ NoBlock \notin Blocks
    /\ VerifyMayFail \in BOOLEAN /\ CommitMayFail \in BOOLEAN

ASSUME BoundsAssumption ==
    /\ GenesisHeight \in Nat
    /\ MaxHeight \in Nat /\ MaxHeight > GenesisHeight
    /\ MaxRound \in Nat
    /\ MaxTimeouts \in Nat /\ MaxTimeouts > 0

VARIABLES
    core,       \* the core struct of each running validator
    msgs,       \* every message a running validator has broadcast
    chain,      \* external: the blocks after genesis in each node's chain
    sealed,     \* external: the blocks the nodes' sealers have passed to Request
    committed   \* external: every call of backend.Commit that succeeded

vars == <<core, msgs, chain, sealed, committed>>

\* protocol.State
AcceptRequest == 0
PrePrepared == 1
Prepared == 2
Committed == 3

\* The CommittedSeal of a vote, kept with its sender (MessageSet).
Vote == [from : Validators, seal : Hashes]

CoreState ==
    [seq : SeqNumbers, round : Rounds, state : AcceptRequest .. Committed,
     waiting : BOOLEAN,               \* waitingForRoundChange
     prePrepare : Hashes,             \* the accepted proposal
     prepares : SUBSET Validators,    \* senders of the accepted Prepares
     commits : SUBSET Vote,           \* the accepted Commits
     lockedHash : Hashes, pendingRequest : Hashes,
     roundChanges : [Rounds -> SUBSET Validators],
     proposer : Validators,           \* valSet.GetProposer()
     timer : BOOLEAN,                 \* roundChangeTimer is running
     timeouts : 0 .. MaxTimeouts,     \* timeoutEvents sent, not yet received
     known : SUBSET Message,          \* received messages (knownMessages)
     backlog : SUBSET Message,        \* backlogs, all senders' queues
     backlogCh : SUBSET Message,      \* backlog events in flight
     requestCh : SUBSET Blocks,       \* requests in flight
     pendingRequests : SUBSET Blocks] \* future requests

Commitment == [node : Validators, seq : SeqNumbers, round : Rounds,
               block : Blocks, votes : SUBSET Vote]

-----------------------------------------------------------------------------
(* external: the chain of the node, as the backend reads it. *)

Height(n) == GenesisHeight + Len(chain[n])

\* Author of the last block; the genesis block has none (LastProposal).
LastProposer(n) ==
    IF chain[n] = <<>> THEN NoValidator ELSE chain[n][Len(chain[n])].author

GetProposer(n, h) ==
    IF h - GenesisHeight \in 1 .. Len(chain[n])
    THEN chain[n][h - GenesisHeight].author ELSE NoValidator

HasProposal(n, b) == b \in {chain[n][i] : i \in 1 .. Len(chain[n])}

-----------------------------------------------------------------------------
(* checkMessage: a message is old, future, or to be handled now. *)

Old(c, m) == m.seq < c.seq \/ (m.seq = c.seq /\ m.round < c.round)

\* A round change is early only by its height.  A vote of the current view is
\* early while a round change is awaited, and before the proposal is accepted.
Future(c, m) ==
    \/ m.seq > c.seq
    \/ /\ m.type # "RoundChange"
       /\ m.seq = c.seq
       /\ \/ m.round > c.round
          \/ /\ m.round = c.round
             /\ c.waiting \/ (c.state = AcceptRequest /\ m.type # "PrePrepare")

Current(c, m) == ~Old(c, m) /\ ~Future(c, m)

-----------------------------------------------------------------------------
(* The backlog. *)

msgPriority_PrepareFirst == [PrePrepare |-> 3, Commit |-> 2, Prepare |-> 1]

msgPriority == [PrePrepare |-> 1, Commit |-> 2, Prepare |-> 3]

\* The conversion of a uint64 to float32: 24 significant bits, to the nearest
\* value and of two equally near ones to the even one.
float32(k) ==
    LET ulp == IF k < 2^24 THEN 1
               ELSE 2^(CHOOSE e \in 1 .. 40 : 2^(23 + e) <= k /\ k < 2^(24 + e))
        below == k \div ulp
        rest == 2 * (k % ulp)
    IN IF rest < ulp \/ (rest = ulp /\ below % 2 = 0) THEN below * ulp
       ELSE (below + 1) * ulp

\* Negated: the smallest value is popped first.
toPriority(m) ==
    float32(m.seq * 1000 + (IF m.type = "RoundChange" THEN 0
                            ELSE m.round * 10 + msgPriority[m.type]))

\* The order in which a sender's messages become current: by height, round
\* changes first, then by round and msgPriority.
Before(m, q) ==
    \/ m.seq < q.seq
    \/ /\ m.seq = q.seq /\ q.type # "RoundChange"
       /\ \/ m.type = "RoundChange"
          \/ m.round < q.round
          \/ m.round = q.round /\ msgPriority[m.type] < msgPriority[q.type]

\* external: in what order a queue yields messages of equal priority is open
\* each time it is read.  A choice is the set of those that come first.  It matters
\* only for a message that belongs before its equal: when the earlier of the two
\* is early itself, so is the later.
TieBreaks(n) ==
    LET backlog == core[n].backlog
    IN SUBSET {m \in backlog : \E q \in backlog :
                  q.from = m.from /\ Before(m, q) /\ toPriority(q) = toPriority(m)}

\* m does not leave its sender's queue before q.
NotAhead(m, q, first) ==
    /\ q.from = m.from
    /\ \/ toPriority(q) < toPriority(m)
       \/ toPriority(q) = toPriority(m) /\ (q \in first \/ m \notin first)

\* From each sender's queue, in order of priority, pop up to the first future
\* message; post what is current, drop what is old.
ProcessBacklog(c, first) ==
    LET early == {q \in c.backlog : Future(c, q)}
        popped == {m \in c.backlog : \A q \in early : ~NotAhead(m, q, first)}
    IN [c EXCEPT !.backlog = @ \ popped,
                 !.backlogCh = @ \cup {m \in popped : ~Old(c, m)}]

\* A message from oneself is not kept ("Backlog from self").
StoreBacklog(n, c, m) ==
    IF m.from = n THEN c ELSE [c EXCEPT !.backlog = @ \cup {m}]

-----------------------------------------------------------------------------
(* Requests. *)

\* Pending requests for the current height go back to requestCh, older ones
\* are dropped.  Where this is called the core has just read the head that the
\* requests were built on, so the loop never stops early at a future request
\* and the order of the queue (its priorities are all equal) does not matter.
ProcessPendingRequests(c) ==
    [c EXCEPT !.requestCh = @ \cup {b \in c.pendingRequests : b.height = c.seq},
              !.pendingRequests = {b \in @ : b.height > c.seq}]

setState_LeavesBacklog(c, s, first) ==
    LET c1 == [c EXCEPT !.state = s]
    IN IF s = AcceptRequest THEN ProcessPendingRequests(c1) ELSE c1

setState(c, s, first) ==
    LET c1 == [c EXCEPT !.state = s]
    IN ProcessBacklog(IF s = AcceptRequest THEN ProcessPendingRequests(c1) ELSE c1, first)

-----------------------------------------------------------------------------
(* roundState. *)

IsHashLocked(c) == c.lockedHash # NoBlock

LockHash_Skipped(c) == c

LockHash(c) == IF c.prePrepare = NoBlock THEN c
               ELSE [c EXCEPT !.lockedHash = c.prePrepare]

UnlockHash(c) == [c EXCEPT !.lockedHash = NoBlock]

acceptPrePrepare(c, b) == [c EXCEPT !.prePrepare = b]

acceptPrepare(c, m) == [c EXCEPT !.prepares = @ \cup {m.from}]

acceptCommit_KeepsEarlier(c, m) ==
    [c EXCEPT !.commits = @ \cup {[from |-> m.from, seal |-> m.seal]}]

\* One message per validator: a later one replaces it (MessageSet.Add).
acceptCommit(c, m) ==
    [c EXCEPT !.commits = {v \in @ : v.from # m.from}
                            \cup {[from |-> m.from, seal |-> m.seal]}]

\* The validators that sent a Prepare or a Commit, each counted once.
GetPrepareOrCommitSize(c) ==
    Cardinality(c.prepares \cup {v.from : v \in c.commits})

\* Handling an old message other than a PrePrepare does nothing, so such
\* messages are never delivered and need not be remembered.
Relevant(m, s, r) ==
    m.type = "PrePrepare" \/ m.seq > s \/ (m.seq = s /\ m.round >= r)

newRoundState_KeepsCommits(c, s, r, locked, prePrepare, pending) ==
    [c EXCEPT !.seq = s, !.round = r, !.prePrepare = prePrepare,
              !.prepares = {}, !.lockedHash = locked, !.pendingRequest = pending,
              !.known = {m \in @ : Relevant(m, s, r)},
              !.backlogCh = {m \in @ : Relevant(m, s, r)}]

newRoundState(c, s, r, locked, prePrepare, pending) ==
    [c EXCEPT !.seq = s, !.round = r, !.prePrepare = prePrepare,
              !.prepares = {}, !.commits = {}, !.lockedHash = locked,
              !.pendingRequest = pending,
              !.known = {m \in @ : Relevant(m, s, r)},
              !.backlogCh = {m \in @ : Relevant(m, s, r)}]

updateRoundState_LosesProposal(c, s, r, roundChange) ==
    IF ~roundChange THEN newRoundState(c, s, r, NoBlock, NoBlock, NoBlock)
    ELSE newRoundState(c, s, r, c.lockedHash, NoBlock, c.pendingRequest)

\* A lock, with its proposal, and the pending request survive a change of
\* round; nothing survives a change of height.
updateRoundState(c, s, r, roundChange) ==
    IF ~roundChange THEN newRoundState(c, s, r, NoBlock, NoBlock, NoBlock)
    ELSE newRoundState(c, s, r, c.lockedHash,
                       IF IsHashLocked(c) THEN c.prePrepare ELSE NoBlock,
                       c.pendingRequest)

newRoundChangeTimer(c) == [c EXCEPT !.timer = TRUE]

-----------------------------------------------------------------------------
(* What a validator broadcasts. *)

\* Signing adds the sender, and to a Commit the seal of the proposal that the
\* round state holds at that moment (none while it holds none).
finalizeMessage(n, c, type, s, r, hash) ==
    [type |-> type, from |-> n, seq |-> s, round |-> r, digest |-> hash,
     seal |-> IF type = "Commit" THEN c.prePrepare ELSE NoBlock]

SendPrePrepare(n, c, b) ==
    IF c.seq = b.height /\ c.proposer = n
    THEN {finalizeMessage(n, c, "PrePrepare", c.seq, c.round, b)} ELSE {}

SendPrepare(n, c) == {finalizeMessage(n, c, "Prepare", c.seq, c.round, c.prePrepare)}

SendCommit(n, c) == {finalizeMessage(n, c, "Commit", c.seq, c.round, c.prePrepare)}

\* The view and the hash are those of the old proposal; finalizeMessage seals
\* whatever proposal is current.
sendCommitForOldBlock(n, c, m) ==
    {finalizeMessage(n, c, "Commit", m.seq, m.round, m.digest)}

-----------------------------------------------------------------------------
(* The round change. *)

roundChangeSetAdd(c, m) == [c EXCEPT !.roundChanges[m.round] = @ \cup {m.from}]

roundChangeSetClear_Inclusive(c, r) ==
    [c EXCEPT !.roundChanges = [k \in Rounds |-> IF k <= r THEN {} ELSE @[k]]]

roundChangeSetClear(c, r) ==
    [c EXCEPT !.roundChanges = [k \in Rounds |-> IF k < r THEN {} ELSE @[k]]]

\* The rounds that at least num validators ask for (MaxRound takes the last).
RoundsWanted(c, num) == {k \in Rounds : Cardinality(c.roundChanges[k]) >= num}

catchUpRound_NoTimer(c, r) ==
    roundChangeSetClear(
        updateRoundState([c EXCEPT !.waiting = TRUE], c.seq, r, TRUE), r)

\* Move to a round and wait for the others there.  The state, the proposer and
\* the backlog stay as they are.
catchUpRound(c, r) ==
    newRoundChangeTimer(
        roundChangeSetClear(
            updateRoundState([c EXCEPT !.waiting = TRUE], c.seq, r, TRUE), r))

\* The message sendRoundChange broadcasts once it has caught up.
RoundChangeMsg(n, c, r) ==
    {finalizeMessage(n, c, "RoundChange", c.seq, r, NoBlock)}

EnterRound_KeepsProposer(n, c, s, r, roundChange, first) ==
    newRoundChangeTimer(setState(
        [updateRoundState(c, s, r, roundChange)
            EXCEPT !.roundChanges = [k \in Rounds |-> {}], !.waiting = FALSE],
        AcceptRequest, first))

\* Both kinds of new round forget every round change vote, compute the
\* proposer from the last block, and accept requests again.
EnterRound(n, c, s, r, roundChange, first) ==
    newRoundChangeTimer(setState(
        [updateRoundState(c, s, r, roundChange)
            EXCEPT !.roundChanges = [k \in Rounds |-> {}],
                   !.proposer = CalcProposer(LastProposer(n), r),
                   !.waiting = FALSE],
        AcceptRequest, first))

StartNewRound_SkipsHeight(n, c, r, first) ==
    IF Height(n) >= c.seq THEN EnterRound(n, c, Height(n) + 2, 0, FALSE, first)
    ELSE EnterRound(n, c, c.seq, r, TRUE, first)

StartNewRound_RestartsHeight(n, c, r, first) ==
    IF Height(n) + 1 >= c.seq THEN EnterRound(n, c, Height(n) + 1, 0, FALSE, first)
    ELSE c

\* A chain that reached the current height starts the next height, otherwise
\* the round changes if it does not go back; else nothing happens.
StartNewRound(n, c, r, first) ==
    IF Height(n) >= c.seq THEN EnterRound(n, c, Height(n) + 1, 0, FALSE, first)
    ELSE IF Height(n) = c.seq - 1 /\ r # 0 /\ r >= c.round
    THEN EnterRound(n, c, c.seq, r, TRUE, first)
    ELSE c

\* After a change of round the new proposer proposes again: the proposal it is
\* locked on, else the request it holds.  c is the state after StartNewRound.
Repropose(n, c) ==
    IF c.proposer # n THEN {}
    ELSE IF IsHashLocked(c) THEN SendPrePrepare(n, c, c.prePrepare)
    ELSE IF c.pendingRequest # NoBlock THEN SendPrePrepare(n, c, c.pendingRequest)
    ELSE {}

-----------------------------------------------------------------------------
(* Steps. *)

\* A handler leaves the core in state c and broadcasts the messages out.
Become(n, c, out) ==
    /\ core' = [core EXCEPT ![n] = c]
    /\ msgs' = msgs \cup out
    /\ UNCHANGED <<chain, sealed>>

\* Messages that may reach the handlers of n now: its own through localMsgCh,
\* the others' through p2pMsgCh, and the backlog events.
Deliverable(n) ==
    {m \in ((msgs \cup PeerMessages) \ core[n].known) \cup core[n].backlogCh :
        Relevant(m, core[n].seq, core[n].round)}

Take(c, m) == [c EXCEPT !.known = @ \cup {m}, !.backlogCh = @ \ {m}]

\* The sealer of n asks for its block: a fresh one each time, since sealing
\* stamps and signs it, built on the local chain, which may have grown since.
\* Request refuses it when the core is already past its height.
Request(n, b) ==
    /\ b.author = n
    /\ b \notin sealed
    /\ b.height <= Height(n) + 1
    /\ b.height >= core[n].seq
    /\ core' = [core EXCEPT ![n].requestCh = @ \cup {b}]
    /\ sealed' = sealed \cup {b}
    /\ UNCHANGED <<msgs, chain, committed>>

\* The request is for the current height: it becomes the pending request and
\* is proposed, but only while the core accepts requests.
HandleRequest(n, b) ==
    LET c == [core[n] EXCEPT !.requestCh = @ \ {b}]
        accepts == c.state = AcceptRequest
    IN /\ b.height = c.seq
       /\ Become(n, IF accepts THEN [c EXCEPT !.pendingRequest = b] ELSE c,
                 IF accepts /\ ~c.waiting THEN SendPrePrepare(n, c, b) ELSE {})
       /\ UNCHANGED committed

\* A request for a later height is kept (StoreRequestMsg), one for an earlier
\* height is dropped.
DeferRequest(n, b) ==
    LET c == [core[n] EXCEPT !.requestCh = @ \ {b}]
    IN /\ b.height # c.seq
       /\ Become(n, IF b.height > c.seq
                    THEN [c EXCEPT !.pendingRequests = @ \cup {b}] ELSE c, {})
       /\ UNCHANGED committed

ProposalArrives_AnyState(n, m) ==
    /\ m.type = "PrePrepare"
    /\ Current(core[n], m)
    /\ m.from = core[n].proposer

\* The proposal of the current view, in time and from its proposer.
ProposalArrives(n, m) ==
    /\ m.type = "PrePrepare"
    /\ Current(core[n], m)
    /\ m.from = core[n].proposer
    /\ core[n].state = AcceptRequest

HandlePrePrepare(n, m) ==
    /\ ProposalArrives(n, m)
    /\ ~IsHashLocked(core[n])
    /\ \E first \in TieBreaks(n) :
         LET c == setState(acceptPrePrepare(Take(core[n], m), m.digest), PrePrepared, first)
         IN Become(n, c, SendPrepare(n, c))
    /\ UNCHANGED committed

\* The proposal this validator is locked on comes again: straight to Commit.
HandleLockedPrePrepare(n, m) ==
    /\ ProposalArrives(n, m)
    /\ m.digest = core[n].lockedHash
    /\ \E first \in TieBreaks(n) :
         LET c == setState(acceptPrePrepare(Take(core[n], m), m.digest), Prepared, first)
         IN Become(n, c, SendCommit(n, c))
    /\ UNCHANGED committed

\* Another proposal than the locked one: ask for the next round.
HandleConflictingPrePrepare(n, m) ==
    /\ ProposalArrives(n, m)
    /\ IsHashLocked(core[n]) /\ m.digest # core[n].lockedHash
    /\ core[n].round < MaxRound
    /\ LET r == core[n].round + 1
           c == catchUpRound(Take(core[n], m), r)
       IN Become(n, c, RoundChangeMsg(n, c, r))
    /\ UNCHANGED committed

\* An old proposal, from the proposer of its view and already in the chain,
\* is answered with a Commit.
ProposedOldBlock(n, m) ==
    /\ m.type = "PrePrepare"
    /\ Old(core[n], m)
    /\ m.from = CalcProposer(GetProposer(n, m.digest.height - 1), m.round)
    /\ HasProposal(n, m.digest)

HandleOldPrePrepare(n, m) ==
    /\ ProposedOldBlock(n, m)
    /\ LET c == Take(core[n], m)
       IN Become(n, c, sendCommitForOldBlock(n, c, m))
    /\ UNCHANGED committed

VoteArrives_AnyDigest(n, m) ==
    Current(core[n], m) /\ core[n].prePrepare # NoBlock

\* A vote of the current view for the accepted proposal (verifyPrepare,
\* verifyCommit).
VoteArrives(n, m) ==
    /\ Current(core[n], m)
    /\ core[n].prePrepare # NoBlock
    /\ m.digest = core[n].prePrepare

HandlePrepare_AnyState(n, m) ==
    LET c == acceptPrepare(Take(core[n], m), m)
        prepared(first) == setState(LockHash(c), Prepared, first)
        enough == \/ IsHashLocked(c) /\ m.digest = c.lockedHash
                  \/ reachThreshold(Size, GetPrepareOrCommitSize(c))
    IN /\ m.type = "Prepare"
       /\ VoteArrives(n, m)
       /\ IF enough
          THEN \E first \in TieBreaks(n) :
                 Become(n, prepared(first), SendCommit(n, prepared(first)))
          ELSE Become(n, c, {})
       /\ UNCHANGED committed

\* A lock on this proposal, or a quorum, moves an earlier state to Prepared.
HandlePrepare(n, m) ==
    LET c == acceptPrepare(Take(core[n], m), m)
        prepared(first) == setState(LockHash(c), Prepared, first)
        enough == \/ IsHashLocked(c) /\ m.digest = c.lockedHash
                  \/ reachThreshold(Size, GetPrepareOrCommitSize(c))
    IN /\ m.type = "Prepare"
       /\ VoteArrives(n, m)
       /\ IF enough /\ c.state < Prepared
          THEN \E first \in TieBreaks(n) :
                 Become(n, prepared(first), SendCommit(n, prepared(first)))
          ELSE Become(n, c, {})
       /\ UNCHANGED committed

CommitQuorum(c) == reachThreshold(Size, Cardinality(c.commits))

\* A Commit that does not complete a quorum, or comes after one.
HandleCommit(n, m) ==
    LET c == acceptCommit(Take(core[n], m), m)
    IN /\ m.type = "Commit"
       /\ VoteArrives(n, m)
       /\ ~(CommitQuorum(c) /\ c.state < Committed)
       /\ Become(n, c, {})
       /\ UNCHANGED committed

\* The Commit that completes a quorum: lock, and hand the block and its seals
\* to backend.Commit.
HandleDecidingCommit(n, m) ==
    LET c == acceptCommit(Take(core[n], m), m)
    IN /\ m.type = "Commit"
       /\ VoteArrives(n, m)
       /\ CommitQuorum(c) /\ c.state < Committed
       /\ \E first \in TieBreaks(n) :
            LET done == setState(LockHash(c), Committed, first)
            IN /\ Become(n, done, {})
               /\ committed' = committed \cup
                    {[node |-> n, seq |-> done.seq, round |-> done.round,
                      block |-> done.prePrepare, votes |-> done.commits]}

\* The same Commit when backend.Commit fails: unlock, ask for the next round.
HandleFailedCommit(n, m) ==
    LET c == acceptCommit(Take(core[n], m), m)
    IN /\ CommitMayFail
       /\ m.type = "Commit"
       /\ VoteArrives(n, m)
       /\ CommitQuorum(c) /\ c.state < Committed
       /\ core[n].round < MaxRound
       /\ \E first \in TieBreaks(n) :
            LET done == setState(LockHash(c), Committed, first)
                next == catchUpRound(UnlockHash(done), done.round + 1)
            IN Become(n, next, RoundChangeMsg(n, next, next.round))
       /\ UNCHANGED committed

\* Votes for the round of m once m itself is counted.
RoundChangeVotes(c, m) == Cardinality(c.roundChanges[m.round])

StartsRound_WaitingOnly(c, m) ==
    reachThreshold(Size, RoundChangeVotes(c, m)) /\ c.waiting

\* Enough votes to start the round of m: this validator waits for it, or it is
\* a later round.
StartsRound(c, m) ==
    /\ reachThreshold(Size, RoundChangeVotes(c, m))
    /\ c.waiting \/ c.round < m.round

\* While waiting, the vote that makes f + 1 for a later round.
JoinsRound(c, m) ==
    /\ ~StartsRound(c, m)
    /\ c.waiting
    /\ RoundChangeVotes(c, m) = FaultTolerantNum(Size) + 1
    /\ c.round < m.round

HandleRoundChange(n, m) ==
    LET c == roundChangeSetAdd(Take(core[n], m), m)
        started(first) == StartNewRound(n, c, m.round, first)
        joined == catchUpRound(c, m.round)
    IN /\ m.type = "RoundChange"
       /\ Current(core[n], m)
       /\ \/ /\ StartsRound(c, m)
             /\ \E first \in TieBreaks(n) :
                  Become(n, started(first), IF Height(n) < c.seq
                                            THEN Repropose(n, started(first)) ELSE {})
          \/ /\ JoinsRound(c, m)
             /\ Become(n, joined, RoundChangeMsg(n, joined, m.round))
          \/ /\ ~StartsRound(c, m) /\ ~JoinsRound(c, m)
             /\ Become(n, c, {})
       /\ UNCHANGED committed

\* A message that checkMessage finds early goes to the backlog (handleMsg).
HandleFutureMessage(n, m) ==
    /\ Future(core[n], m)
    /\ Become(n, StoreBacklog(n, Take(core[n], m), m), {})
    /\ UNCHANGED committed

\* A message a handler returns from without effect: a proposal that is late,
\* not the proposer's or rejected by backend.Verify, a vote for another
\* proposal, an old proposal that the chain does not hold.
IgnoreMessage(n, m) ==
    /\ \/ /\ m.type = "PrePrepare" /\ Current(core[n], m)
          /\ \/ m.from # core[n].proposer
             \/ core[n].state # AcceptRequest
             \/ VerifyMayFail
       \/ m.type \in {"Prepare", "Commit"} /\ Current(core[n], m) /\ ~VoteArrives(n, m)
       \/ m.type = "PrePrepare" /\ Old(core[n], m) /\ ~ProposedOldBlock(n, m)
    /\ Become(n, Take(core[n], m), {})
    /\ UNCHANGED committed

handleMsg(n, m) ==
    \/ HandlePrePrepare(n, m)
    \/ HandleLockedPrePrepare(n, m)
    \/ HandleConflictingPrePrepare(n, m)
    \/ HandleOldPrePrepare(n, m)
    \/ HandlePrepare(n, m)
    \/ HandleCommit(n, m)
    \/ HandleDecidingCommit(n, m)
    \/ HandleFailedCommit(n, m)
    \/ HandleRoundChange(n, m)
    \/ HandleFutureMessage(n, m)
    \/ IgnoreMessage(n, m)

\* The event loop handles one message.
ReceiveMessage(n) == \E m \in Deliverable(n) : handleMsg(n, m)

\* The node announces a new head (NewChainHead).  Without a block at the
\* current height StartNewRound(0) does nothing.
HandleFinalCommitted(n) ==
    /\ Height(n) >= core[n].seq
    /\ \E first \in TieBreaks(n) : Become(n, StartNewRound(n, core[n], 0, first), {})
    /\ UNCHANGED committed

\* The timer's function sends a timeoutEvent.
TimerFires(n) ==
    /\ core[n].timer
    /\ core[n].timeouts < MaxTimeouts
    /\ Become(n, [core[n] EXCEPT !.timer = FALSE, !.timeouts = @ + 1], {})
    /\ UNCHANGED committed

\* The caller gives up on its request: stop the timer, send the event itself.
RequestTimeout(n) ==
    /\ ~core[n].waiting
    /\ core[n].timeouts < MaxTimeouts
    /\ Become(n, [core[n] EXCEPT !.timer = FALSE, !.timeouts = @ + 1], {})
    /\ UNCHANGED committed

\* The state handleTimeoutMsg continues from: the lock and the pending request
\* are gone.
TimedOut(c) ==
    [UnlockHash(c) EXCEPT !.timeouts = @ - 1, !.pendingRequest = NoBlock]

\* The rounds ahead that f + 1 validators ask for.
RoundsAhead(c) == {k \in RoundsWanted(c, FaultTolerantNum(Size) + 1) : k > c.round}

\* Follow f + 1 validators to their latest round; else start the next height
\* if its predecessor is in the chain; else ask for the next round.
handleTimeoutMsg(n) ==
    LET c == TimedOut(core[n])
        follows == ~c.waiting /\ RoundsAhead(c) # {}
    IN /\ core[n].timeouts > 0
       /\ \/ /\ follows
             /\ \E r \in RoundsAhead(c) :
                  /\ \A k \in RoundsAhead(c) : k <= r
                  /\ Become(n, catchUpRound(c, r), RoundChangeMsg(n, c, r))
          \/ /\ ~follows /\ Height(n) >= c.seq
             /\ \E first \in TieBreaks(n) : Become(n, StartNewRound(n, c, 0, first), {})
          \/ /\ ~follows /\ Height(n) < c.seq
             /\ c.round < MaxRound
             /\ Become(n, catchUpRound(c, c.round + 1), RoundChangeMsg(n, c, c.round + 1))
       /\ UNCHANGED committed

\* external: the node appends a block that a validator has committed.
InsertBlock(n) ==
    /\ \E b \in PeerBlocks \cup {e.block : e \in committed} :
          /\ b.height = Height(n) + 1
          /\ chain' = [chain EXCEPT ![n] = Append(@, b)]
    /\ UNCHANGED <<core, msgs, sealed, committed>>

-----------------------------------------------------------------------------
\* Start runs StartNewRound(0) on a chain that holds the genesis block only.
Init ==
    /\ core = [n \in Running |->
         [seq |-> GenesisHeight + 1, round |-> 0, state |-> AcceptRequest,
          waiting |-> FALSE, prePrepare |-> NoBlock, prepares |-> {},
          commits |-> {}, lockedHash |-> NoBlock, pendingRequest |-> NoBlock,
          roundChanges |-> [k \in Rounds |-> {}],
          proposer |-> CalcProposer(NoValidator, 0),
          timer |-> TRUE, timeouts |-> 0, known |-> {}, backlog |-> {},
          backlogCh |-> {}, requestCh |-> {}, pendingRequests |-> {}]]
    /\ msgs = {}
    /\ chain = [n \in Running |-> <<>>]
    /\ sealed = {}
    /\ committed = {}

Next ==
    \E n \in Running :
        \/ \E b \in Blocks : Request(n, b)
        \/ \E b \in core[n].requestCh : HandleRequest(n, b) \/ DeferRequest(n, b)
        \/ ReceiveMessage(n)
        \/ HandleFinalCommitted(n)
        \/ TimerFires(n)
        \/ RequestTimeout(n)
        \/ handleTimeoutMsg(n)
        \/ InsertBlock(n)

Spec == Init /\ [][Next]_vars

\* Every handler leaves the core, the messages and the commitments in their
\* types; in particular no height is ever started whose predecessor could not
\* exist (StartNewRound).
TypeOK ==
    /\ core \in [Running -> CoreState]
    /\ msgs \subseteq Message
    /\ chain \in [Running -> Seq(Blocks)]
    /\ sealed \subseteq Blocks
    /\ committed \subseteq Commitment

-----------------------------------------------------------------------------
(* Safety. *)

\* A lock and the proposal it stands for travel together through every round
\* change: what a proposer re-sends as "the locked proposal" (StartNewRound)
\* is the block whose hash is locked, and it belongs to the current height.
LockIsProposal ==
    \A n \in Running : LET c == core[n] IN
        IsHashLocked(c) => c.prePrepare = c.lockedHash /\ c.lockedHash.height = c.seq

\* Subject() is never nil when a vote is built: past AcceptRequest there is a
\* proposal, and from Prepared on it is locked, whichever way the state was
\* reached (prepares, a lock of an earlier round, or commits alone).
VotingHasProposal ==
    \A n \in Running : LET c == core[n] IN
        ~c.waiting => /\ c.state >= PrePrepared => c.prePrepare # NoBlock
                      /\ c.state >= Prepared => IsHashLocked(c)

\* q belongs after m and toPriority does not put it there.
HeldUpBy(m, q) ==
    /\ q.from = m.from /\ Before(m, q)
    /\ toPriority(q) < toPriority(m) \/ toPriority(q) = toPriority(m)

\* ProcessBacklog runs often enough: a message that could be handled now stays
\* in the backlog only behind a later one of the same sender whose priority
\* came out no larger, by float32's rounding or by a round beyond 99.
BacklogWaits ==
    \A n \in Running : \A m \in core[n].backlog :
        Current(core[n], m) => \E q \in core[n].backlog : HeldUpBy(m, q)

\* A validator's own vote reaches itself through a channel, later; it is never
\* early then, so StoreBacklog's "Backlog from self" branch loses no vote.
OwnMessagesNotFuture ==
    \A m \in msgs : ~Future(core[m.from], m)

\* A round cannot last forever: its timer runs, or a timeout event is waiting.
TimerAlive ==
    \A n \in Running : core[n].timer \/ core[n].timeouts > 0

\* The validators that sent, among ms or as peers, a Commit for e.block in the
\* view of the commitment e.
CommitSenders(e, ms) ==
    {v \in Validators : \E m \in ms \cup PeerMessages :
        /\ m.type = "Commit" /\ m.from = v /\ m.digest = e.block
        /\ m.seq = e.seq /\ m.round = e.round}

\* A block goes to backend.Commit only after a quorum of validators sent a
\* Commit for that block in that very view.
CommitCertificate == \A e \in committed : IsQuorum(CommitSenders(e, msgs))

\* A validator never sends a second, different Prepare or Commit in the view it
\* is in, whatever locks, timeouts and proposals came before.  (A Commit that
\* answers an old proposal is for a view it has left, and may differ.)
OneVotePerView ==
    [][\A m2 \in msgs' \ msgs : \A m1 \in msgs :
        /\ m1.type = m2.type /\ m1.type \in {"Prepare", "Commit"}
        /\ m1.from = m2.from /\ m1.seq = m2.seq /\ m1.round = m2.round
        /\ m2.seq = core[m2.from].seq /\ m2.round = core[m2.from].round
        => m1.digest = m2.digest]_vars

\* In one view at most one block is committed, even when the proposer sends
\* several proposals in it.
ViewAgreement ==
    \A e1, e2 \in committed :
        e1.seq = e2.seq /\ e1.round = e2.round => e1.block = e2.block

\* Outside a round change the proposer is the one that the author of the
\* previous block and the round determine, so validators with the same
\* predecessor block in the same view follow the same proposer.
ProposerOfView ==
    \A n \in Running : LET c == core[n] IN
        ~c.waiting => c.proposer = CalcProposer(GetProposer(n, c.seq - 1), c.round)

\* No handler takes a validator back to an earlier view.
ViewMonotone ==
    [][\A n \in Running :
        \/ core'[n].seq > core[n].seq
        \/ core'[n].seq = core[n].seq /\ core'[n].round >= core[n].round]_vars

\* Once a proposal is accepted in a view it stays the proposal of that view,
\* and the state only advances, until the view is left.
ProposalStable ==
    [][\A n \in Running :
        LET c == core[n]
            d == core'[n]
        IN c.seq = d.seq /\ c.round = d.round /\ ~c.waiting /\ c.state >= PrePrepared
           => d.prePrepare = c.prePrepare /\ d.state >= c.state /\ ~d.waiting]_vars

\* A quorum of votes for a round is heeded: no validator sits on votes that
\* would start a round ahead of it, or the one it waits in, whether the last of
\* them came while it waited, followed f + 1 others or was in another round
\* (HandleRoundChange, handleTimeoutMsg, sendNextRoundChange).
RoundQuorumHeeded ==
    \A n \in Running : \A r \in Rounds : LET c == core[n] IN
        reachThreshold(Size, Cardinality(c.roundChanges[r]))
            => r < c.round \/ (r = c.round /\ ~c.waiting)

\* Votes for the round a validator moves to, and for later ones, are kept on
\* the way there (catchUpRound) and while it votes; they are given up only where
\* it starts to accept requests, at the beginning of a round.
RoundVotesKept ==
    [][\A n \in Running :
        LET c == core[n]
            d == core'[n]
        IN d.seq = c.seq /\ (d.waiting \/ d.state # AcceptRequest)
           => \A k \in Rounds : k >= d.round => c.roundChanges[k] \subseteq d.roundChanges[k]]_vars

-----------------------------------------------------------------------------
(* What the repository says and the code does not do. *)

\* One block per height, over all rounds ("the three phases ensure
\* consistency", README).  handleTimeoutMsg drops the lock on a committed
\* block, so a later round can commit another one.
Agreement ==
    \A e1, e2 \in committed : e1.seq = e2.seq => e1.block = e2.block

\* The priorities serve their purpose ("MsgPrePrepare > MsgCommit > MsgPrepare",
\* msgPriority): no message that could be handled now stays in the backlog.
NoStuckBacklog ==
    \A n \in Running : \A m \in core[n].backlog : ~Current(core[n], m)

\* The seal of a Commit signs the block the Commit is for
\* (PrepareCommittedSeal).  A Commit for an old block seals the proposal of the
\* current view instead, or nothing.
SealSignsDigest ==
    \A m \in msgs : m.type = "Commit" /\ m.from \in Running => m.seal = m.digest

\* Only invalid round change votes are discarded (StartNewRound's comment): a
\* vote received for a round still ahead is counted when that round comes.
RoundChangeVotesCounted ==
    \A n \in Running : LET c == core[n] IN
        \A m \in c.known \ (c.backlog \cup c.backlogCh) :
            /\ m.type = "RoundChange" /\ m.seq = c.seq
            /\ m.round > c.round \/ (c.waiting /\ m.round = c.round)
            => m.from \in c.roundChanges[m.round]

-----------------------------------------------------------------------------
(* Liveness. *)

\* Every event loop keeps running and its select is fair, messages arrive, an
\* armed timer fires, a committed block reaches every chain.
LoopFairness ==
    \A n \in Running :
        /\ WF_vars(ReceiveMessage(n))
        /\ WF_vars(HandleFinalCommitted(n) \/ InsertBlock(n))
        /\ WF_vars(TimerFires(n) \/ handleTimeoutMsg(n))

\* Besides, every node keeps sealing blocks, and its requests are handled.
RequestFairness ==
    \A n \in Running :
        /\ WF_vars(\E b \in Blocks : Request(n, b))
        /\ WF_vars(\E b \in core[n].requestCh : HandleRequest(n, b) \/ DeferRequest(n, b))

LoopFairSpec == Spec /\ LoopFairness
FairSpec == LoopFairSpec /\ RequestFairness

\* Without round changes every height is decided at every validator, in
\* whatever order proposals, votes, requests and new heads reach it.
EveryHeightDecided == <>(\A n \in Running : core[n].seq = MaxHeight + 1)
=============================================================================
