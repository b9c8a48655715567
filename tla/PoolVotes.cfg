\* Votes about two candidates while the chain grows; one deadline is beyond the
\* width of a height.
SPECIFICATION Spec
CONSTANTS
  m1 = m1
  m2 = m2
  c1 = c1
  c2 = c2
  Managers = {m1}
  Candidates = {c1, c2}
  Deadlines = {3, 5}
  Word = 4
  NoVote = NoVote
  MaxHeight = 3
INVARIANTS
  TypeOK
  HeaderVotesLive
PROPERTIES
  OnlyDeadVotesForgotten
