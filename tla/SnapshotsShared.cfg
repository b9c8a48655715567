\* Two goroutines, a cache of one snapshot, a failing database and restarts.
SPECIFICATION Spec
CONSTANTS
  NilMap = NilMap
  NoVote = NoVote
  NilSet = NilSet
  NoCall = NoCall
  m1 = m1
  v1 = v1
  v2 = v2
  c1 = c1
  c2 = c2
  Callers = {c1, c2}
  GenesisManagers = {m1}
  GenesisValidators = {v1}
  HeaderData <- VotingHeaders
  Epoch = 3
  CheckpointInterval = 2
  CacheSize = 1
  DiskMayFail = TRUE
  MaxHeight = 3
SYMMETRY Symmetry
INVARIANTS
  TypeOK
  KeptAtOwnHeight
  
