--------------------------- MODULE MCVoteSnapshot ---------------------------
EXTENDS VoteSnapshot, TLC

CONSTANTS m1, m2, m3, m4, v1, v2, v3

Votes(managers, candidates) ==
    [manager : managers, candidate : candidates, authorize : BOOLEAN]

ManagerVotes == Votes({m1, m2, m3}, {m4}) \cup Votes({m1, m2}, {m3})
ValidatorVotes == Votes({m1, m2}, {v3})
Symmetry == Permutations({m1, m2})
=============================================================================
