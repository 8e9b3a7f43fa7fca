SPECIFICATION FairSpec
CONSTANTS
  j1 = j1  j2 = j2  j3 = j3  j4 = j4
  Jobs = {j1, j2, j3, j4}
  Limit = 2
  Ttl = 3
  MaxWait = 1
  MaxHold = 3
  Skew = 1
  Offset <- TwoClocks
INVARIANTS
  TypeOK
  SpanBound
PROPERTIES
  ImplementsSemaphore
  EveryWaitEnds
  SelfHeals
