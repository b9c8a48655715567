\* Two validators; every sealer asks for two blocks per height.
SPECIFICATION Spec
CONSTANTS
  ValList <- List2
  Policy = "RoundRobin"
  NoValidator = "none"
  Running = {"v1", "v2"}
  PeerMessages = {}
  PeerBlocks = {}
  Nonces = {0, 1}
  NoBlock = NoBlock
  GenesisHeight = 0
  VerifyMayFail = FALSE
  CommitMayFail = FALSE
  MaxHeight = 1
  MaxRound = 0
  MaxTimeouts = 1
  BlockPeriod = 1
  FaultTolerantTime = 0
INVARIANTS
  ViewAgreement
PROPERTIES
  OneVotePerView
  ImplementsViewVoting
\* The bounds on heights, rounds and timeouts end every behaviour.
CHECK_DEADLOCK FALSE
