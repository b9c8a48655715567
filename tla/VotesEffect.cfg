\* One caller, a working database: a vote that passes after the first block.
SPECIFICATION Spec
CONSTANTS
  NilMap = NilMap
  NoVote = NoVote
  NilSet = NilSet
  NoCall = NoCall
  m1 = m1
  v1 = v1
  v2 = v2
  c1 = c1
  c2 = c2
  Callers = {c1}
  GenesisManagers = {m1}
  GenesisValidators = {v1}
  HeaderData <- VotingHeaders
  Epoch = 5
  CheckpointInterval = 5
  CacheSize = 3
  DiskMayFail = FALSE
  MaxHeight = 3
INVARIANTS
  VotesTakeEffect
