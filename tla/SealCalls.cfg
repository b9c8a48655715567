\* Two overlapping calls of Seal and another proposer.
SPECIFICATION FairSpec
CONSTANTS
  Seals = {s1, s2}
  OtherBlocks = {b1}
  NoSeal = NoSeal
  NoHash = NoHash
  MaxCommits = 2
INVARIANTS
  ResultCommitted
PROPERTIES
  SealEnds
\* The calls end, and the bound ends the commits.
CHECK_DEADLOCK FALSE
