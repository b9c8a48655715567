\* Starts and stops in turn, at any moment, with requests at any time.
SPECIFICATION Spec
CONSTANTS
  MaxCalls = 6
  MaxTimeouts = 3
INVARIANTS
  TypeOK
  ServedSoundly
PROPERTIES
  StopEnds
  LoopsEnd
\* The calls are finitely many.
CHECK_DEADLOCK FALSE
