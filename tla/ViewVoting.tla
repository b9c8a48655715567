----------------------------- MODULE ViewVoting -----------------------------
(***************************************************************************)
(* What the three-phase vote promises, without its messages, rounds, locks *)
(* and timers: a validator casts at most one vote in a view, except for a  *)
(* block that is already decided, and a block is decided in a view only    *)
(* when a quorum of validators voted for it in that view.                  *)
(***************************************************************************)
EXTENDS Validators

CONSTANTS
    Running,    \* the validators that follow the rules
    PeerVotes,  \* the votes the other validators may cast
    PeerBlocks  \* the blocks the other validators may have decided

VARIABLES
    votes,      \* the votes cast by the running validators
    decided     \* which validator decided which block in which view

\* A running validator votes for block b in a view.
CastVote(vote) ==
    /\ vote.from \in Running
    /\ \A w \in votes : w.from = vote.from /\ w.view = vote.view => w.block = vote.block
    /\ votes' = votes \cup {vote}
    /\ UNCHANGED decided

\* A running validator helps others to a decided block, in any view.
Endorse(vote) ==
    /\ vote.from \in Running
    /\ vote.block \in PeerBlocks \cup {d.block : d \in decided}
    /\ votes' = votes \cup {vote}
    /\ UNCHANGED decided

\* A running validator has seen a quorum of votes for a block in a view.
Decide(d) ==
    /\ d.by \in Running
    /\ IsQuorum({w.from : w \in {u \in votes \cup PeerVotes :
                                    u.view = d.view /\ u.block = d.block}})
    /\ decided' = decided \cup {d}
    /\ UNCHANGED votes

Init == votes = {} /\ decided = {}

\* The votes and decisions are told apart by what a step adds, so that the
\* blocks and views need not be enumerated.
Next ==
    \/ \E vote \in votes' : CastVote(vote) \/ Endorse(vote)
    \/ \E d \in decided' : Decide(d)

Spec == Init /\ [][Next]_<<votes, decided>>
=============================================================================
