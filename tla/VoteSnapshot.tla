---------------------------- MODULE VoteSnapshot ----------------------------
(***************************************************************************)
(* The life of one voteSnapshot: votes of header after header are applied  *)
(* to it, an epoch's end resets it, and what continues may be its copy or  *)
(* its reloaded form.  The votes come from the constants MVotes and        *)
(* VVotes.                                                                 *)
(***************************************************************************)
EXTENDS VoteTally

CONSTANTS
    GenesisManagers, GenesisValidators,     \* selfConfig.Managers, .Validators
    MVotes, VVotes,     \* the votes that headers may carry
    MaxLog              \* bound: length of vVotes, which keeps repeated votes

Candidates(votes) == {v.candidate : v \in votes}

Tally == [authorize : BOOLEAN, votes : Nat \ {0}]

ASSUME VotesAssumption ==
    /\ \A v \in MVotes \cup VVotes : v.authorize \in BOOLEAN
    /\ NoVote \notin MVotes \cup VVotes
    /\ \A cs \in SUBSET Candidates(MVotes \cup VVotes) : NilMap \notin [cs -> Tally]
    /\ MaxLog \in Nat

VARIABLES
    vs,         \* the voteSnapshot
    crashed,    \* applying a vote has panicked
    misfiled    \* history: a validator vote has displaced a manager vote

vars == <<vs, crashed, misfiled>>

IsMap(map, candidates) ==
    /\ DOMAIN map \subseteq candidates
    /\ \A c \in DOMAIN map : map[c] \in Tally

IsSide(side, genesis, votes) ==
    /\ side.members \subseteq genesis \cup Candidates(votes)
    /\ side.votes \in Seq(votes)
    /\ IsMap(Entries(side.tally), Candidates(votes))

TypeOK ==
    /\ IsSide(vs.m, GenesisManagers, MVotes)
    /\ IsSide(vs.v, GenesisValidators, VVotes)
    /\ crashed \in BOOLEAN /\ misfiled \in BOOLEAN

Init ==
    /\ vs = newVoteSnapshot(GenesisManagers, GenesisValidators)
    /\ crashed = FALSE
    /\ misfiled = FALSE

\* Snapshot.Apply hands the votes of a header to the voteSnapshot.
ApplyHeader(mVote, vVote) ==
    LET data == [mVote |-> mVote, vVote |-> vVote]
    IN /\ ~crashed
       /\ Len(vs.v.votes) < MaxLog
       /\ crashed' = panics(vs, data)
       /\ vs' = IF crashed' THEN vs ELSE applyHeader(vs, data)
       /\ misfiled' = (misfiled \/ (vVote # NoVote /\ earlier(vs.v, vVote) # 0))

Reset == ~crashed /\ vs' = reset(vs) /\ misfiled' = FALSE /\ UNCHANGED crashed

Copy == ~crashed /\ vs' = copy(vs) /\ UNCHANGED <<crashed, misfiled>>

Reload == ~crashed /\ vs' = reload(vs) /\ UNCHANGED <<crashed, misfiled>>

Next ==
    \/ \E mVote \in MVotes \cup {NoVote}, vVote \in VVotes \cup {NoVote} :
           ApplyHeader(mVote, vVote)
    \/ Reset
    \/ Copy
    \/ Reload

Spec == Init /\ [][Next]_vars

-----------------------------------------------------------------------------
(* Properties. *)

Indices(side, c, authorize) ==
    {i \in DOMAIN side.votes :
        side.votes[i].candidate = c /\ side.votes[i].authorize = authorize}

Voters(side, c, authorize) ==
    {side.votes[i].manager : i \in Indices(side, c, authorize)}

\* One side's tally of a candidate is the number of different managers with a
\* standing vote to change that candidate's membership, and there is no tally
\* without such a vote.  Votes are replaced and retracted, candidates are
\* added and removed and their votes kept or dropped along the way.
TallyCounts(side) ==
    LET map == Entries(side.tally)
        Standing(c) == Voters(side, c, c \notin side.members)
    IN /\ \A c \in DOMAIN map : /\ map[c].authorize = (c \notin side.members)
                                /\ map[c].votes = Cardinality(Standing(c))
       /\ \A c \in Candidates(MVotes \cup VVotes) : Standing(c) # {} => c \in DOMAIN map

\* applyMVotes keeps tally and votes in step, until applyVVotes takes a
\* repeated validator vote out of the managers' votes.
ManagerTallyCounts == ~misfiled => TallyCounts(vs.m)

\* applyVVotes keeps tally and votes in step, until that vote stays in vVotes.
ValidatorTallyCounts == ~misfiled => TallyCounts(vs.v)

\* A manager has at most one standing vote about a candidate, on the manager
\* side at all times: "只能投一次票" (a vote only once) in the loop of applyMVotes.
OneManagerVoteEach ==
    \A i, j \in DOMAIN vs.m.votes :
        /\ vs.m.votes[i].manager = vs.m.votes[j].manager
        /\ vs.m.votes[i].candidate = vs.m.votes[j].candidate
        => i = j

\* Membership changes only for the candidate of the vote being applied, and
\* only if more managers than half of the members want exactly that change by
\* their last vote.  The others' votes were cast in earlier headers; the one
\* being applied need not be among them, since members may have gone since.
MajorityChange(side, new, v) ==
    new.members # side.members =>
        LET c == v.candidate
            joins == c \notin side.members
            others == Voters(side, c, joins) \ {v.manager}
            voters == IF v.authorize = joins THEN others \cup {v.manager} ELSE others
        IN /\ v # NoVote
           /\ new.members = IF joins THEN side.members \cup {c} ELSE side.members \ {c}
           /\ Cardinality(voters) > Cardinality(side.members) \div 2

\* applyMVotes, applyVVotes: only votes change members, and by majority only,
\* until a validator vote is misfiled.
ChangedByMajority ==
    [][~misfiled' /\ (vs'.m.members # vs.m.members \/ vs'.v.members # vs.v.members) =>
        \E mVote \in MVotes \cup {NoVote}, vVote \in VVotes \cup {NoVote} :
            /\ ApplyHeader(mVote, vVote)
            /\ MajorityChange(vs.m, vs'.m, mVote)
            /\ MajorityChange(vs.v, vs'.v, vVote)]_vars

-----------------------------------------------------------------------------
(* What the repository says and the code does not do. *)

\* A removed manager has no vote left: "Discard any previous votes the
\* deauthorized validator cast" in applyMVotes.
RemovedManagersVotesDiscarded ==
    \A i \in DOMAIN vs.m.votes : vs.m.votes[i].manager \in vs.m.members

\* No candidate is left with more votes than half of the managers: "如果关于
\* 候选人的投票数超过了1/2，那么就更新" (update if the votes about the candidate
\* exceed a half) in applyMVotes.
NoMajorityPending == \A c \in DOMAIN Entries(vs.m.tally) : ~passes(vs.m, c)

\* A tally counts a manager once: "只能投一次票" in applyVVotes, which takes a
\* repeated vote out of the other side's votes.
VotesCountedOnce ==
    \A side \in {vs.m, vs.v} : \A c \in DOMAIN Entries(side.tally) :
        side.tally[c].votes <= Cardinality(Voters(side, c, side.tally[c].authorize))
=============================================================================
