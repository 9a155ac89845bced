SPECIFICATION FairSpec
CONSTANTS
  Users = {u1, u2, u3}
  Rooms = {main, r1}
  PublicRooms = {main}
  Requests = {p1, p2}
  Times = {t1}
  Null = Null
  NoRow = NoRow
INVARIANTS
  NobodyInArchivedGroup
CHECK_DEADLOCK FALSE
