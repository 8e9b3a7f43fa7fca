SPECIFICATION CapsSpec
CONSTANTS
  Tasks = {t1, t2, t3}
  TokenCap = 2
  ReplyCap = 1
  Costs = {1}
  TokenBound = 4
  MaxFaults = 1
SYMMETRY Symmetry
INVARIANTS
  CapsTypeOK
  ReplyOvershoot
  StaleCalls
