CONSTANTS
  group = group
  member = member
  room = room
  agent = agent
  Profiles = {group, member}
  Below <- MCBelow
  Office = group
  Caps <- MCCaps
  Rooms = {room}
  Agents = {agent}
  RoomOf <- MCRoomOf
  Rank <- MCRank
  Opening <- MCOpening
  Amounts = {0, 1}
  Spends = 1
  Requests = {r1, r2, r3}
SPECIFICATION CreditsSpec
INVARIANTS CreditsTypeOK Explained NeverNegative SpendIsNeverOverstated
PROPERTY RequestsEnd
CHECK_DEADLOCK FALSE
