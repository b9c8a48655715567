----------------------------- MODULE SealEngine -----------------------------
(***************************************************************************)
(* Sealing a block in the node's consensus engine (pbftEngine.Seal and     *)
(* pbftEngine.Commit).  Every call of Seal hands its block to the core and *)
(* leaves a goroutine behind that waits for the core's verdict on the one  *)
(* channel commitCh; the core commits blocks at its own pace, its own      *)
(* node's and others', and each Commit offers its block to that channel in *)
(* a goroutine of its own.  The goroutines take turns by sealLock.         *)
(***************************************************************************)
EXTENDS Naturals, Sequences

CONSTANTS
    Seals,          \* the calls of Seal; each seals a block of its own
    OtherBlocks,    \* blocks of other proposers
    NoSeal,         \* sealLock is free
    NoHash,         \* the zero hash, and a nil result
    MaxCommits      \* bound: commits of one block (rounds can repeat one)

\* The block of a call stands for the call.
Blocks == Seals \cup OtherBlocks

ASSUME SealAssumption ==
    /\ NoSeal \notin Seals /\ NoHash \notin Blocks
    /\ Seals \cap OtherBlocks = {}
    /\ MaxCommits \in Nat

VARIABLES
    phase,      \* where each call of Seal, or its goroutine, is
    result,     \* what it sends, or has sent, into its results channel
    sealLock,   \* the goroutine that holds sealLock
    proposedBlockHash,
    commitCh,   \* a buffered channel of capacity 1
    requested,  \* the blocks that the core has taken
    offers,     \* goroutines of Commit that have not tried to send yet
    committed,  \* how often the core has committed each block
    cancelled   \* external: calls whose context is done

vars == <<phase, result, sealLock, proposedBlockHash, commitCh, requested, offers,
          committed, cancelled>>

\* "returning" is a call that waits for the node to take its result, "failed"
\* one that returned an error and no result.
Phases == {"idle", "delaying", "proposing", "requesting", "clearing", "locking",
           "waiting", "returning", "unlocking", "done", "failed"}

-----------------------------------------------------------------------------
(* Seal. *)

\* The parent's snapshot, the membership of this node, the parent header and
\* the signature are in order; otherwise Seal returns an error.
Seal(s) ==
    /\ phase[s] = "idle"
    /\ \E p \in {"delaying", "failed"} : phase' = [phase EXCEPT ![s] = p]
    /\ UNCHANGED <<requested, result, sealLock, proposedBlockHash, commitCh, offers,
                   committed, cancelled>>

\* results <- r waits until the node takes r; a goroutine that holds sealLock
\* keeps it meanwhile.
Return(s, r) ==
    /\ phase' = [phase EXCEPT ![s] = "returning"]
    /\ result' = [result EXCEPT ![s] = r]

\* The block's time has come, or the context is done first.
Delay(s) ==
    /\ phase[s] = "delaying"
    /\ \/ phase' = [phase EXCEPT ![s] = "proposing"] /\ UNCHANGED result
       \/ s \in cancelled /\ Return(s, NoHash)
    /\ UNCHANGED <<requested, sealLock, proposedBlockHash, commitCh, offers, committed, cancelled>>

\* A goroutine of an earlier call may hold the lock: Seal itself waits for it.
Propose(s) ==
    /\ phase[s] = "proposing"
    /\ sealLock = NoSeal
    /\ proposedBlockHash' = s
    /\ phase' = [phase EXCEPT ![s] = "requesting"]
    /\ UNCHANGED <<requested, result, sealLock, commitCh, offers, committed, cancelled>>

\* core.Request takes the block, or refuses one of a past height.
RequestCore(s) ==
    /\ phase[s] = "requesting"
    /\ \/ /\ phase' = [phase EXCEPT ![s] = "clearing"]
          /\ requested' = requested \cup {s}
          /\ UNCHANGED result
       \/ Return(s, NoHash) /\ UNCHANGED requested
    /\ UNCHANGED <<sealLock, proposedBlockHash, commitCh, offers, committed, cancelled>>

\* One iteration of the loop.
clearCommitChannel(s) ==
    /\ phase[s] = "clearing"
    /\ IF commitCh # <<>>
       THEN commitCh' = Tail(commitCh) /\ UNCHANGED phase
       ELSE phase' = [phase EXCEPT ![s] = "locking"] /\ UNCHANGED commitCh
    /\ UNCHANGED <<requested, result, sealLock, proposedBlockHash, offers, committed, cancelled>>

Lock(s) ==
    /\ phase[s] = "locking"
    /\ sealLock = NoSeal
    /\ sealLock' = s
    /\ phase' = [phase EXCEPT ![s] = "waiting"]
    /\ UNCHANGED <<requested, result, proposedBlockHash, commitCh, offers, committed, cancelled>>

Verdict_AnyBlock(s, b) == b

\* Another block than the proposed one counts as no result.
Verdict(s, b) == IF b = s THEN b ELSE NoHash

ReceiveCommit(s) ==
    /\ phase[s] = "waiting"
    /\ commitCh # <<>>
    /\ Return(s, Verdict(s, Head(commitCh)))
    /\ commitCh' = Tail(commitCh)
    /\ UNCHANGED <<requested, sealLock, proposedBlockHash, offers, committed, cancelled>>

GiveUp(s) ==
    /\ phase[s] = "waiting"
    /\ s \in cancelled
    /\ Return(s, NoHash)
    /\ UNCHANGED <<requested, sealLock, proposedBlockHash, commitCh, offers, committed, cancelled>>

Unlock_KeepsLock(s) ==
    /\ phase[s] = "unlocking"
    /\ proposedBlockHash' = NoHash
    /\ phase' = [phase EXCEPT ![s] = "done"]
    /\ UNCHANGED <<requested, result, sealLock, commitCh, offers, committed, cancelled>>

\* The deferred clear.
Unlock(s) ==
    /\ phase[s] = "unlocking"
    /\ proposedBlockHash' = NoHash
    /\ sealLock' = NoSeal
    /\ phase' = [phase EXCEPT ![s] = "done"]
    /\ UNCHANGED <<requested, result, commitCh, offers, committed, cancelled>>

-----------------------------------------------------------------------------
(* The core and the node. *)

\* external: the core commits a block, one of this node only once requested.
\* Commit starts a goroutine and succeeds.
Commit(b) ==
    /\ b \in Seals => b \in requested
    /\ committed[b] < MaxCommits
    /\ committed' = [committed EXCEPT ![b] = @ + 1]
    /\ offers' = [offers EXCEPT ![b] = @ + 1]
    /\ UNCHANGED <<requested, phase, result, sealLock, proposedBlockHash, commitCh, cancelled>>

\* The goroutine's send does not wait: with the channel full the block is
\* dropped.
Offer(b) ==
    /\ offers[b] > 0
    /\ offers' = [offers EXCEPT ![b] = @ - 1]
    /\ commitCh' = IF commitCh = <<>> THEN <<b>> ELSE commitCh
    /\ UNCHANGED <<requested, phase, result, sealLock, proposedBlockHash, committed, cancelled>>

\* external: the node takes the result of a call.
TakeResult(s) ==
    /\ phase[s] = "returning"
    /\ phase' = [phase EXCEPT ![s] = IF sealLock = s THEN "unlocking" ELSE "done"]
    /\ UNCHANGED <<requested, result, sealLock, proposedBlockHash, commitCh, offers,
                   committed, cancelled>>

\* external: the node cancels a call (a new head, a timeout).
Cancel(s) ==
    /\ s \notin cancelled
    /\ phase[s] # "idle"
    /\ cancelled' = cancelled \cup {s}
    /\ UNCHANGED <<requested, phase, result, sealLock, proposedBlockHash, commitCh, offers, committed>>

-----------------------------------------------------------------------------
Init ==
    /\ phase = [s \in Seals |-> "idle"]
    /\ result = [s \in Seals |-> NoHash]
    /\ sealLock = NoSeal
    /\ proposedBlockHash = NoHash
    /\ commitCh = <<>>
    /\ requested = {}
    /\ offers = [b \in Blocks |-> 0]
    /\ committed = [b \in Blocks |-> 0]
    /\ cancelled = {}

\* What a call and its goroutine do by themselves.
Step(s) ==
    \/ Delay(s)
    \/ Propose(s)
    \/ RequestCore(s)
    \/ clearCommitChannel(s)
    \/ Lock(s)
    \/ ReceiveCommit(s)
    \/ GiveUp(s)
    \/ Unlock(s)

Next ==
    \/ \E s \in Seals : Seal(s) \/ Step(s) \/ TakeResult(s) \/ Cancel(s)
    \/ \E b \in Blocks : Commit(b) \/ Offer(b)

Spec == Init /\ [][Next]_vars

-----------------------------------------------------------------------------
TypeOK ==
    /\ phase \in [Seals -> Phases]
    /\ result \in [Seals -> Blocks \cup {NoHash}]
    /\ sealLock \in Seals \cup {NoSeal}
    /\ proposedBlockHash \in Seals \cup {NoHash}
    /\ commitCh \in Seq(Blocks) /\ Len(commitCh) <= 1
    /\ requested \subseteq Seals
    /\ offers \in [Blocks -> 0 .. MaxCommits]
    /\ committed \in [Blocks -> 0 .. MaxCommits]
    /\ cancelled \subseteq Seals

\* The block that Seal returns for insertion into the chain is its own, and
\* the core has committed it: neither a block left in commitCh by an earlier
\* call nor another proposer's block gets through.
ResultCommitted ==
    \A s \in Seals : result[s] # NoHash => result[s] = s /\ committed[s] > 0

-----------------------------------------------------------------------------
(* What the repository says and the code does not do. *)

\* A call whose block the core committed gets it: the block is on its way or
\* in the channel "which is being watched inside the engine.Seal() function"
\* (Commit).  It can arrive before the goroutine clears the channel.
CommitNotLost ==
    \A s \in Seals :
        phase[s] = "waiting" /\ committed[s] > 0 => offers[s] > 0 \/ commitCh = <<s>>

\* On another block's verdict a call waits for the next result (the comment in
\* Seal's goroutine), so it ends without a result only when it was cancelled
\* or its request refused.
NilOnlyWhenCancelled ==
    \A s \in Seals :
        phase[s] \in {"returning", "done"} /\ s \in requested /\ result[s] = NoHash
            => s \in cancelled

-----------------------------------------------------------------------------
\* The goroutines run, the node's context has a deadline, and the node takes
\* every result, also that of a call it has cancelled.
FairSpec ==
    /\ Spec
    /\ \A s \in Seals : WF_vars(Step(s)) /\ WF_vars(TakeResult(s)) /\ WF_vars(Cancel(s))

\* Every call ends with a result, although Seal itself may wait for the lock
\* that the goroutine of an earlier call holds while it waits for the core, and
\* then for the node to take its result.
SealEnds == \A s \in Seals : phase[s] = "delaying" ~> phase[s] = "done"
=============================================================================
