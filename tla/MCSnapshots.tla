---------------------------- MODULE MCSnapshots ----------------------------
EXTENDS Snapshots, TLC

CONSTANTS m1, v1, v2, c1, c2

Data(mVote, vVote) == [mVote |-> mVote, vVote |-> vVote]

ValidatorVote == [manager |-> m1, candidate |-> v2, authorize |-> TRUE]

Plain == Data(NoVote, NoVote)
VotingHeaders == {Plain, Data(NoVote, ValidatorVote)}
Symmetry == Permutations({c1, c2})
=============================================================================
