SPECIFICATION Spec
CONSTANTS
  ann = ann
  ben = ben
  hi = hi
  en = en
  None = None
  People <- MCPeople
  Languages <- MCLanguages
  Supported <- MCSupported
  Default = hi
  SttSlots = 1
  DubSlots = 1
  Threshold = 2
  Works = 3
  Backlog = 2
  Moves = 3
SYMMETRY Participants
INVARIANTS
  SessionsFollowTheRoom
  DegradedIsShown
  TextsReachOnce
CHECK_DEADLOCK FALSE
