CONSTANTS
  e = e
  f = f
  app = app
  s1 = s1
  s2 = s2
  Emails = {e, f}
  Numbers = {n1, n2}
  Phones = {p1, p2}
  Issued = {n1}
  Filed = {app}
  FiledFor <- MCFiledFor
  Opened <- MCOpened
  SessionOf <- MCSessionOf
  MaxAttempts = 2
  None = None
  Invite = invite
  Requests = {r1, r2, r3}
SPECIFICATION Spec
SYMMETRY Symmetry
INVARIANTS VerdictsStand NumbersClaimedOnce SessionsDescend
PROPERTY LinksGoCold
CHECK_DEADLOCK FALSE
