----------------------------- MODULE VoteManager -----------------------------
(***************************************************************************)
(* Votes between the API and the blocks (manager in manange.go, API in     *)
(* api.go, the votes of pbftEngine.Prepare).  Managers hand signed votes   *)
(* to a node's API; the node keeps one per candidate in a pool for each    *)
(* side, managers (m) and validators (v), and puts a live vote of each     *)
(* pool into the header of a block it prepares.  The members that the head *)
(* block's snapshot lists are given: VoteTally is what decides them.       *)
(***************************************************************************)
EXTENDS Integers

CONSTANTS
    Managers, Candidates,   \* who may vote, and about whom
    Deadlines,              \* deadlines that votes carry, big integers
    Word,                   \* 2^64: heights are uint64
    NoVote,                 \* no vote for a candidate, or none in a header
    MaxHeight               \* bound: height of the chain

Sides == {"m", "v"}

Vote == [manager : Managers, authorize : BOOLEAN, deadline : Deadlines]

ASSUME ManagerAssumption ==
    /\ Deadlines \subseteq Nat /\ MaxHeight \in Nat /\ Word \in Nat \ {0}
    /\ NoVote \notin Vote

VARIABLES
    pool,       \* mCandidate and vCandidate: the vote kept for each candidate
    members,    \* external: managers and validators in the head's snapshot
    head,       \* height of the current block
    header      \* the prepared header: its height and a candidate's vote a side

vars == <<pool, members, head, header>>

NoHeader == [height |-> 0, vote |-> [side \in Sides |-> NoVote]]

\* rpc.LatestBlockNumber, a negative number that names the newest block.
LatestBlockNumber == -1

\* checkApiVote compares the deadline with the name of the newest block, not
\* with its height; the signer must be a manager.
checkApiVote(manager, deadline) ==
    /\ deadline >= LatestBlockNumber
    /\ manager \in members["m"]

\* ProposeManager with setMVote, ProposeValidator with setVVote.
Propose(side, manager, c, authorize, deadline) ==
    /\ checkApiVote(manager, deadline)
    /\ pool' = [pool EXCEPT ![side][c] =
                    [manager |-> manager, authorize |-> authorize, deadline |-> deadline]]
    /\ UNCHANGED <<members, head, header>>

\* checkMVote, checkVVote of the snapshot.
checkVote(side, c, authorize) == authorize # (c \in members[side])

Pooled(side) == {c \in Candidates : pool[side][c] # NoVote}

\* big.Int.Uint64: the low 64 bits.
Uint64(deadline) == deadline % Word

Usable_AtDeadline(side, c, height) ==
    /\ checkVote(side, c, pool[side][c].authorize)
    /\ Uint64(pool[side][c].deadline) >= height

Usable(side, c, height) ==
    /\ checkVote(side, c, pool[side][c].authorize)
    /\ Uint64(pool[side][c].deadline) > height

\* getVotes on one pool.  The map is walked in any order: unusable votes are
\* deleted until a usable one is met, which is chosen and stays.  The result
\* is the candidate, NoVote if there is none, and the deleted candidates.
getVotes_DeletesChosen(side, height) ==
    LET usable == {c \in Pooled(side) : Usable(side, c, height)}
        dead == Pooled(side) \ usable
    IN IF usable = {} THEN {<<NoVote, dead>>}
       ELSE {<<c, gone \cup {c}>> : c \in usable, gone \in SUBSET dead}

getVotes(side, height) ==
    LET usable == {c \in Pooled(side) : Usable(side, c, height)}
        dead == Pooled(side) \ usable
    IN IF usable = {} THEN {<<NoVote, dead>>}
       ELSE usable \X SUBSET dead

ChosenVote_CandidateOnly(side, c) ==
    IF c = NoVote THEN NoVote ELSE [candidate |-> c, vote |-> NoVote]

ChosenVote(side, c) ==
    IF c = NoVote THEN NoVote ELSE [candidate |-> c, vote |-> pool[side][c]]

\* Prepare, for the block after the head.
Prepare ==
    LET height == head + 1
    IN /\ height <= MaxHeight
       /\ \E m \in getVotes("m", height), v \in getVotes("v", height) :
            LET result == [side \in Sides |-> IF side = "m" THEN m ELSE v]
            IN /\ header' = [height |-> height,
                             vote |-> [side \in Sides |-> ChosenVote(side, result[side][1])]]
               /\ pool' = [side \in Sides |->
                              [c \in Candidates |-> IF c \in result[side][2] THEN NoVote
                                                    ELSE pool[side][c]]]
       /\ UNCHANGED <<members, head>>

\* external: the next block is inserted, this node's or another's; its votes
\* may decide about one candidate of a side.
Insert ==
    /\ head < MaxHeight
    /\ head' = head + 1
    /\ \E side \in Sides, changed \in {{}} \cup {{c} : c \in Candidates} :
          members' = [members EXCEPT ![side] = (@ \ changed) \cup (changed \ @)]
    /\ UNCHANGED <<pool, header>>

Init ==
    /\ pool = [side \in Sides |-> [c \in Candidates |-> NoVote]]
    /\ members = [side \in Sides |-> IF side = "m" THEN Managers ELSE {}]
    /\ head = 0
    /\ header = NoHeader

Next ==
    \/ \E side \in Sides, manager \in Managers, c \in Candidates, authorize \in BOOLEAN,
          deadline \in Deadlines : Propose(side, manager, c, authorize, deadline)
    \/ Prepare
    \/ Insert

Spec == Init /\ [][Next]_vars

-----------------------------------------------------------------------------
(* Properties. *)

TypeOK ==
    /\ pool \in [Sides -> [Candidates -> Vote \cup {NoVote}]]
    /\ members \in [Sides -> SUBSET (Managers \cup Candidates)]
    /\ head \in 0 .. MaxHeight
    /\ header.height \in 0 .. MaxHeight
    /\ header.vote \in [Sides -> [candidate : Candidates, vote : Vote] \cup {NoVote}]

\* A header that can still become the next block carries only votes that would
\* change the members now and whose deadline is after the block, whatever the
\* API has put into the pools since Prepare (getVotes).
HeaderVotesLive ==
    \A side \in Sides :
        LET chosen == header.vote[side]
        IN (header.height = head + 1 /\ chosen # NoVote) =>
               /\ chosen.vote.authorize # (chosen.candidate \in members[side])
               /\ chosen.vote.deadline > header.height

\* getVotes forgets only dead votes: a vote leaves its pool without another in
\* its place only when it is moot or will be expired in the next block, which a
\* deadline of more than 64 bits may be long before its time.
OnlyDeadVotesForgotten ==
    [][\A side \in Sides, c \in Candidates :
           (pool[side][c] # NoVote /\ pool'[side][c] = NoVote) =>
               ~(/\ pool[side][c].authorize # (c \in members[side])
                 /\ Uint64(pool[side][c].deadline) > head + 1)]_vars

-----------------------------------------------------------------------------
(* What the repository says and the code does not do. *)

\* A vote is accepted only with a deadline that has not passed: "小于当前区块，直接
\* 返回错误" (below the current block: return an error) in checkApiVote.
AcceptedInTime ==
    [][\A side \in Sides, c \in Candidates :
           (pool'[side][c] # pool[side][c] /\ pool'[side][c] # NoVote) =>
               pool'[side][c].deadline >= head]_vars

\* A live vote in the pool gives way only to a later vote of the same manager:
\* "截止到某个区块前投票有效" (the vote is valid until that block) in ManagementVote
\* and ValidatorVote.
ValidUntilDeadline ==
    [][\A side \in Sides, c \in Candidates :
           (/\ pool[side][c] # NoVote /\ pool[side][c].deadline > head + 1
            /\ checkVote(side, c, pool[side][c].authorize)) =>
               /\ pool'[side][c] # NoVote
               /\ pool'[side][c].manager = pool[side][c].manager]_vars
=============================================================================
