----------------------------- MODULE CoreVoting -----------------------------
(***************************************************************************)
(* The consensus core implements ViewVoting: its Commits are the votes,    *)
(* its calls of backend.Commit the decisions.                              *)
(***************************************************************************)
EXTENDS PBFTCore

\* The votes that the Commits among ms cast.
CommitVotes(ms) ==
    {[from |-> m.from, view |-> <<m.seq, m.round>>, block |-> m.digest] :
        m \in {m \in ms : m.type = "Commit"}}

Decisions ==
    {[by |-> e.node, view |-> <<e.seq, e.round>>, block |-> e.block] : e \in committed}

Voting == INSTANCE ViewVoting
          WITH votes <- CommitVotes(msgs), PeerVotes <- CommitVotes(PeerMessages),
               decided <- Decisions

\* Every step of the core is a step of ViewVoting or none of its business:
\* whatever the order of proposals, votes, locks, timeouts and round changes, a
\* validator adds one vote at a time, never a second one in its view, and hands a
\* block to backend.Commit only on a quorum of that view (SendCommit,
\* sendCommitForOldBlock, commit).
ImplementsViewVoting == Voting!Spec
=============================================================================
