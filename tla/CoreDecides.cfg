\* Two validators, two heights, no round change.
SPECIFICATION FairSpec
CONSTANTS
  ValList <- List2
  Policy = "Sticky"
  NoValidator = "none"
  Running = {"v1", "v2"}
  PeerMessages = {}
  PeerBlocks = {}
  Nonces = {0}
  NoBlock = NoBlock
  GenesisHeight = 0
  VerifyMayFail = FALSE
  CommitMayFail = FALSE
  MaxHeight = 2
  MaxRound = 0
  MaxTimeouts = 1
  BlockPeriod = 1
  FaultTolerantTime = 0
PROPERTIES
  EveryHeightDecided
\* The bounds on heights, rounds and timeouts end every behaviour.
CHECK_DEADLOCK FALSE
