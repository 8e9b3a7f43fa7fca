\* A new member's first message, queued twice: each job may run twice, and
\* things fail twice.
SPECIFICATION FairSpec
CONSTANTS
  m1 = m1 ann = ann j1 = j1 j2 = j2
  Messages = {m1}
  About <- Twice
  Jobs = {j1, j2}
  Slots = 1
  Sends = 1
  From <- OneMessage
  Members = {ann}
  Active = {ann}
  Cap = 1
  MaxTries = 2
  MaxFaults = 2
INVARIANTS TypeOK RepeatsOnlyLostAnswers DailyCalls
PROPERTIES JobsEnd
