--------------------------- MODULE MCVoteManager ---------------------------
EXTENDS VoteManager

CONSTANTS m1, m2, c1, c2
=============================================================================
