\* Three managers vote about one of them and a fourth, two also about a validator.
SPECIFICATION Spec
CONSTANTS
  NilMap = NilMap
  NoVote = NoVote
  m1 = m1
  m2 = m2
  m3 = m3
  m4 = m4
  v1 = v1
  v2 = v2
  v3 = v3
  GenesisManagers = {m1, m2, m3}
  GenesisValidators = {v1, v2}
  MVotes <- ManagerVotes
  VVotes <- ValidatorVotes
  MaxLog = 2
SYMMETRY Symmetry
INVARIANTS
  TypeOK
  OneManagerVoteEach
  ManagerTallyCounts
  ValidatorTallyCounts
PROPERTIES
  ChangedByMajority
\* A panic ends the life of the snapshot.
CHECK_DEADLOCK FALSE
