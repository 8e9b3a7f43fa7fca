\* Two org meetings and one slot.
SPECIFICATION Spec
CONSTANTS
  o1 = o1 g1 = g1 g2 = g2 r1 = r1 r2 = r2
  Meetings = {g1, g2}
  Old = {}
  Requests = {r1, r2}
  Limit = 1
  MaxFaults = 1
INVARIANTS LeaksAreFailures AdmittedWithinLimit
SYMMETRY OrgSymmetry
CHECK_DEADLOCK FALSE
