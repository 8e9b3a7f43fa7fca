SPECIFICATION FairSpec
CONSTANTS
  i1 = i1  h1 = h1  m1 = m1
  Identities = {i1}
  Inbound = {h1}
  Manual = {m1}
  Owner <- OneOwner
  Cron = Cron
  Admins = {}
  Keep = 2
  DayLen = 2
  Buffer = 1
  FlushAt = 1
  MaxFaults = 1
PROPERTIES
  PendingDrains
