\* Four validators, one of them faulty, an outsider, proposals and peers' headers.
SPECIFICATION Spec
CONSTANTS
  ValList <- List4
  Policy = "RoundRobin"
  NoValidator = "none"
  BlockPeriod = 1
  FaultTolerantTime = 1
  Outsiders = {"x"}
  Faulty = {"v4"}
  MaxSeals = 3
  MaxHeight = 1
  MaxTime = 1
INVARIANTS
  TypeOK
  ChainSealed
  CommittedBlockVerifies
  PreparedVerifies
\* The chain and the clock reach their bounds.
CHECK_DEADLOCK FALSE
