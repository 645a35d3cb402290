SPECIFICATION FairSpec
CONSTANTS
  N = 4
  NoOne = NoOne
  MaxBytes = 2
  MaxSize = 3
INVARIANTS
  TypeOK
  LosersClosed
  VerdictIsJust
  FailuresFallBack
  WholeBody
PROPERTIES
  EveryFetchEnds
CHECK_DEADLOCK FALSE
