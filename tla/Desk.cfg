CONSTANTS
  s1 = s1
  s2 = s2
  org = org
  other = other
  person = person
  member = member
  member2 = member2
  orgUser = orgUser
  mo = mo
  mn = mn
  p1 = p1
  Staff = {s1, s2}
  Identities = {org, person, other}
  Members = {member, member2}
  OrgUsers = {orgUser}
  Clients = {org}
  Scope = {person, other}
  Phones = {p1, p2}
  Lists = {{org, s2}, {person}, {member}}
  Old = {mo}
  New = {mn}
  Present <- MCPresent
  Talk = talk
  With = person
  LinkedAs <- MCLinkedAs
  None = None
  Requests = {r1, r2, r3}
SPECIFICATION Spec
SYMMETRY Symmetry
INVARIANT DeskIsInOrder
CHECK_DEADLOCK FALSE
