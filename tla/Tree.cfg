CONSTANTS
  office = office
  other = other
  more = more
  member = member
  r1 = r1
  r2 = r2
  r3 = r3
  Inherit = Inherit
  Nobody = Nobody
  Groups <- MCGroups
  Members <- MCMembers
  Tools = {t1, t2}
  Top = 1
  RootRight = 0
  Office = office
  Born <- MCBorn
  Requests = {r1, r2, r3}
SPECIFICATION Spec
SYMMETRY Symmetry
INVARIANTS TypeOK Cascaded PathsFollowParents StraysHaveACause
PROPERTY RecomputeHeals
CHECK_DEADLOCK FALSE
