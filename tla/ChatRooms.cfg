SPECIFICATION FairAccessSpec
CONSTANTS
  Users = {u1, u2, u3}
  Rooms = {main, r1}
  PublicRooms = {main}
  Requests = {p1, p2}
  Times = {t1}
  Readers = {u1}
  Null = Null
  NoRow = NoRow
INVARIANTS
  OwnerInOwnGroup
  NoAbandonedPrivateRoom
  ArchivedIsEmptyUnlessOverlap
PROPERTIES
  ImplementsPolicy
  EmptyPrivateRoomCloses
  AccessHeldAtOnce
CHECK_DEADLOCK FALSE
