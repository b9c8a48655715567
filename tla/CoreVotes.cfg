\* One of four validators, with peers that vote in two rounds, at the first height at
\* which float32 confuses the priorities of the backlog.
SPECIFICATION Spec
CONSTANTS
  ValList <- List4
  Policy = "RoundRobin"
  NoValidator = "none"
  Running = {"v3"}
  PeerMessages <- VoteMessages
  PeerBlocks <- OpenBlocks
  Nonces = {0}
  NoBlock = NoBlock
  GenesisHeight = 16777
  VerifyMayFail = TRUE
  CommitMayFail = TRUE
  MaxHeight = 16778
  MaxRound = 1
  MaxTimeouts = 1
  BlockPeriod = 1
  FaultTolerantTime = 0
INVARIANTS
  TypeOK
  LockIsProposal
  VotingHasProposal
  BacklogWaits
  TimerAlive
  CommittedSealsEnough
  CommitCertificate
  ProposerOfView
  OwnMessagesNotFuture
  RoundQuorumHeeded
PROPERTIES
  ProposalStable
  ViewMonotone
  RoundVotesKept
\* The bounds on heights, rounds and timeouts end every behaviour.
CHECK_DEADLOCK FALSE
