\* Two validators and a timeout after a commit.
SPECIFICATION Spec
CONSTANTS
  ValList <- List2
  Policy = "RoundRobin"
  NoValidator = "none"
  Running = {"v1", "v2"}
  PeerMessages = {}
  PeerBlocks = {}
  Nonces = {0}
  NoBlock = NoBlock
  GenesisHeight = 0
  VerifyMayFail = FALSE
  CommitMayFail = FALSE
  MaxHeight = 1
  MaxRound = 1
  MaxTimeouts = 1
  BlockPeriod = 1
  FaultTolerantTime = 0
INVARIANTS
  Agreement
\* The bounds on heights, rounds and timeouts end every behaviour.
CHECK_DEADLOCK FALSE
