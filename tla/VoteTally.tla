------------------------------ MODULE VoteTally ------------------------------
(***************************************************************************)
(* Counting the votes that blocks carry about managers and validators      *)
(* (voteSnapshot in manange.go).  The two counts work alike and are kept   *)
(* as two sides of one record: side m decides about managers, side v about *)
(* validators, each with its members, the votes cast so far in order, and  *)
(* a tally per candidate.  Managers cast the votes of both sides.          *)
(***************************************************************************)
EXTENDS Naturals, Sequences, FiniteSets

CONSTANTS
    NilMap,     \* a Go map that was never made: reading is fine, writing panics
    NoVote      \* a header without a vote of this side

Seqs == INSTANCE SequencesExt

EmptyMap == [c \in {} |-> [authorize |-> TRUE, votes |-> 0]]

Entries(map) == IF map = NilMap THEN EmptyMap ELSE map

Drop(map, c) == [d \in DOMAIN map \ {c} |-> map[d]]

Put(map, c, tally) == [d \in DOMAIN map \cup {c} |-> IF d = c THEN tally ELSE map[d]]

-----------------------------------------------------------------------------

newVoteSnapshot_MadeTallies(managers, validators) ==
    [m |-> [members |-> managers, votes |-> <<>>, tally |-> EmptyMap],
     v |-> [members |-> validators, votes |-> <<>>, tally |-> EmptyMap]]

\* newVoteSnapshot leaves both tallies nil.
newVoteSnapshot(managers, validators) ==
    [m |-> [members |-> managers, votes |-> <<>>, tally |-> NilMap],
     v |-> [members |-> validators, votes |-> <<>>, tally |-> NilMap]]

\* checkMVote, checkVVote: only a vote that would change something counts.
checkVote(side, c, authorize) == authorize # (c \in side.members)

\* castM, castV on a tally that is a real map.
cast(map, c, authorize) ==
    Put(map, c, IF c \in DOMAIN map THEN [map[c] EXCEPT !.votes = @ + 1]
                                    ELSE [authorize |-> authorize, votes |-> 1])

uncast_ToZero(map, c, authorize) ==
    IF c \notin DOMAIN map \/ map[c].authorize # authorize THEN map
    ELSE Put(map, c, [map[c] EXCEPT !.votes = @ - 1])

\* uncastM, uncastV: a vote of the other direction is not in the tally.
uncast(map, c, authorize) ==
    IF c \notin DOMAIN map \/ map[c].authorize # authorize THEN map
    ELSE IF map[c].votes > 1 THEN Put(map, c, [map[c] EXCEPT !.votes = @ - 1])
                             ELSE Drop(map, c)

\* The first vote of v's manager about v's candidate.
earlier(side, v) ==
    Seqs!SelectInSeq(side.votes, LAMBDA w : w.manager = v.manager /\ w.candidate = v.candidate)

\* The side without that vote in its tally.
retract(side, v) ==
    LET i == earlier(side, v)
    IN IF i = 0 \/ side.tally = NilMap THEN side
       ELSE [side EXCEPT !.tally = uncast(@, v.candidate, side.votes[i].authorize)]

add(side, v) ==
    IF checkVote(side, v.candidate, v.authorize)
    THEN [side EXCEPT !.votes = Append(@, v),
                      !.tally = cast(@, v.candidate, v.authorize)]
    ELSE side

passes_Half(side, c) ==
    LET map == Entries(side.tally)
    IN c \in DOMAIN map /\ map[c].votes >= Cardinality(side.members) \div 2

\* More than half of the members.
passes(side, c) ==
    LET map == Entries(side.tally)
    IN c \in DOMAIN map /\ map[c].votes > Cardinality(side.members) \div 2

AddValidator(members, c) == members \cup {c}

RemoveValidator(members, c) == members \ {c}

settle_KeepsVotes(side, c) ==
    IF ~passes(side, c) THEN side
    ELSE [side EXCEPT !.members = IF side.tally[c].authorize THEN AddValidator(@, c)
                                                             ELSE RemoveValidator(@, c),
                      !.tally = Drop(@, c)]

\* The votes about other candidates, in their order.
discard(votes, c) ==
    LET kept == {i \in DOMAIN votes : votes[i].candidate # c}
        Place(i) == Cardinality({j \in kept : j <= i})
    IN [k \in 1 .. Cardinality(kept) |-> votes[CHOOSE i \in kept : Place(i) = k]]

\* A passed vote changes the members and ends the tally.  The votes about a
\* removed candidate are dropped; those for an added one stay.
settle(side, c) ==
    IF ~passes(side, c) THEN side
    ELSE IF side.tally[c].authorize
         THEN [side EXCEPT !.members = AddValidator(@, c), !.tally = Drop(@, c)]
         ELSE [side EXCEPT !.members = RemoveValidator(@, c), !.tally = Drop(@, c),
                           !.votes = discard(@, c)]

\* A write to a nil tally.
writesNil(side, v) == checkVote(side, v.candidate, v.authorize) /\ side.tally = NilMap

-----------------------------------------------------------------------------

\* applyMVotes: a repeated vote replaces the earlier one.
mPanics(vs, v) == v # NoVote /\ writesNil(vs.m, v)

applyMVotes_KeepsSame(vs, v) ==
    LET i == earlier(vs.m, v)
        out == retract(vs.m, v)
        kept == IF i = 0 \/ vs.m.votes[i] = v THEN out
                ELSE [out EXCEPT !.votes = Seqs!RemoveAt(@, i)]
    IN IF v = NoVote THEN vs
       ELSE [vs EXCEPT !.m = settle(add(kept, v), v.candidate)]

applyMVotes(vs, v) ==
    LET i == earlier(vs.m, v)
        out == retract(vs.m, v)
        kept == IF i = 0 THEN out ELSE [out EXCEPT !.votes = Seqs!RemoveAt(@, i)]
    IN IF v = NoVote THEN vs
       ELSE [vs EXCEPT !.m = settle(add(kept, v), v.candidate)]

\* applyVVotes: a repeated vote stays in vVotes, and it is the vote with its
\* index in mVotes that goes, if there is one; with fewer mVotes the slice
\* expression panics.
vPanics(vs, v) ==
    /\ v # NoVote
    /\ earlier(vs.v, v) > Len(vs.m.votes) \/ writesNil(vs.v, v)

applyVVotes_KeepsTally(vs, v) ==
    LET counted == add(retract(vs.v, v), v)
    IN IF v = NoVote THEN vs
       ELSE [vs EXCEPT !.v = [settle(counted, v.candidate) EXCEPT !.tally = counted.tally]]

applyVVotes(vs, v) ==
    LET i == earlier(vs.v, v)
        mVotes == IF i = 0 THEN vs.m.votes ELSE Seqs!RemoveAt(vs.m.votes, i)
    IN IF v = NoVote THEN vs
       ELSE [vs EXCEPT !.m.votes = mVotes, !.v = settle(add(retract(vs.v, v), v), v.candidate)]

\* Both votes of a header, in the order of Snapshot.Apply.
panics(vs, data) == mPanics(vs, data.mVote) \/ vPanics(applyMVotes(vs, data.mVote), data.vVote)

applyHeader(vs, data) == applyVVotes(applyMVotes(vs, data.mVote), data.vVote)

-----------------------------------------------------------------------------

reset(vs) == [vs EXCEPT !.m.votes = <<>>, !.m.tally = EmptyMap,
                        !.v.votes = <<>>, !.v.tally = EmptyMap]

\* copy makes its maps, whatever the original had.
copy(vs) == [vs EXCEPT !.m.tally = Entries(@), !.v.tally = Entries(@)]

\* MarshalJSON and UnmarshalJSON: an empty map is omitted and comes back nil.
roundTrip(map) == IF Entries(map) = EmptyMap THEN NilMap ELSE map

reload(vs) == [vs EXCEPT !.m.tally = roundTrip(@), !.v.tally = roundTrip(@)]
=============================================================================
