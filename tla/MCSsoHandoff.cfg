SPECIFICATION FairSpec
CONSTANTS
  MaxHandoffs = 3
  Sources = {a, b}
  Callbacks = {k1, k2}
  PendingTtl = 1
  ReplayRetention = 2
  MaxPending = 2
  SourceFloor = 1
  SourceShare = 10
  MaxRequests = 1
  RateWindow = 1
  MaxTime = 4
INVARIANTS
  TypeOK
  OneCodePerHandoff
  NoLateCode
  CapsRespected
  
PROPERTIES
  EventuallyPurged
