----------------------------- MODULE CoreHeaders -----------------------------
(***************************************************************************)
(* The blocks that the core commits, as other nodes verify them: the seals *)
(* that backend.Commit writes into the header are those of the Commits the *)
(* core counted (commit in core/commit.go, Commit in pbft.go), and         *)
(* verifyCommittedSeals is what a node checks before it inserts the block. *)
(***************************************************************************)
EXTENDS PBFTCore, HeaderRules

Seqs == INSTANCE SequencesExt

\* writeCommittedSeals: the seals of the counted Commits, in any order.  A seal
\* signs the committed block only if it was made for it.
CommittedSeals(e) ==
    Seqs!SetToSeq({Seal(v.from, v.seal = e.block) : v \in e.votes})

CommittedHeader(e) == [voteSigned |-> TRUE, seals |-> CommittedSeals(e)]

\* A committed block has enough seals to pass the threshold of
\* verifyCommittedSeals, each of another validator (reachThreshold in the core
\* against the count in the engine).
CommittedSealsEnough ==
    \A e \in committed :
        /\ EnoughSeals(Cardinality(e.votes))
        /\ \A v, w \in e.votes : v.from = w.from => v = w

-----------------------------------------------------------------------------
(* What the repository says and the code does not do. *)

\* A committed block passes verifyCommittedSeals, so that every node can insert
\* it: "提交已批准的提议，提议将会写入区块链" (commit the approved proposal, which will
\* be written to the blockchain) in PBFTBackend.Commit.
CommittedSealsVerify ==
    \A e \in committed : verifyCommittedSeals(CommittedHeader(e)) = "nil"
=============================================================================
