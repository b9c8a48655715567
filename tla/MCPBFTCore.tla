---------------------------- MODULE MCPBFTCore ----------------------------
EXTENDS CoreVoting, CoreHeaders

List2 == <<"v1", "v2">>
List4 == <<"v1", "v2", "v3", "v4">>

PeerBlock(v) == [height |-> GenesisHeight + 1, author |-> v, nonce |-> 0]

PeerMsg(type, v, s, r, b) ==
    [type |-> type, from |-> v, seq |-> GenesisHeight + s, round |-> r,
     digest |-> b, seal |-> IF type = "Commit" THEN b ELSE NoBlock]

b1 == PeerBlock("v1")
b2 == PeerBlock("v2")
Voters == {"v1", "v2"}

\* v3 votes at height 1 in rounds 0 and 1; in round 1 the proposer v2 repeats
\* the block of round 0 or proposes its own.  v2 commits b1 twice, the second
\* time as an answer to an old proposal, without a seal.
VoteMessages ==
    {PeerMsg("PrePrepare", "v1", 1, 0, b1), PeerMsg("Prepare", "v1", 1, 0, b1),
     PeerMsg("PrePrepare", "v2", 1, 1, b1), PeerMsg("PrePrepare", "v2", 1, 1, b2),
     PeerMsg("Commit", "v2", 1, 1, b1)}
    \cup {PeerMsg("Commit", v, 1, 0, b1) : v \in Voters}
    \cup {PeerMsg("RoundChange", v, 1, 1, NoBlock) : v \in Voters \cup {"v4"}}
    \cup {[PeerMsg("Commit", "v2", 1, 0, b1) EXCEPT !.seal = NoBlock]}

OpenBlocks == {b1}
=============================================================================
