\* One meeting of each room, two requests at once, one failure.
SPECIFICATION Spec
CONSTANTS
  o1 = o1 g1 = g1 g2 = g2 r1 = r1 r2 = r2
  Meetings = {o1, g1}
  Old = {o1}
  Requests = {r1, r2}
  Limit = 1
  MaxFaults = 1
INVARIANTS TypeOK NoOrphan
SYMMETRY RequestSymmetry
CHECK_DEADLOCK FALSE
