\* Three validators; three messages, one of which handlers may refuse, and a lost send.
SPECIFICATION Spec
CONSTANTS
  ValList <- List3
  Policy = "RoundRobin"
  NoValidator = "none"
  Messages = {"m1", "m2", "m3"}
  Signer <- SignerOf
  Refused = {"m2"}
  MaxLosses = 1
INVARIANTS
  HandledOnce
PROPERTIES
  ReachesAll
\* Messages are finitely many.
CHECK_DEADLOCK FALSE
