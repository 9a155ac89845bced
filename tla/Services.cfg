SPECIFICATION MCSpec
CONSTANTS
  None = None
  Users = {u1, u2}
  Messages = {m1, m2}
  OldMessages = {m1}
  Files = {f1, f2}
  Requests = {p1, p2}
  Before = Before
  Parts = {1, 2, 3}
  Folders = {"a", "b"}
  Stored = {"x", "y"}
  Readings = {1, 2}
  Archives = {"z"}
  Readers = {"u"}
  Sessions = {1, 2}
  Tabs = {1, 2}
  Exchanges = {1, 2}
INVARIANTS
  OnlyOwnFiles
  NoDanglingAttachment
  EmptyOnlyWhenMarred
  DeletedHasNoAttachment
  UploadsAccountedFor
  ReadWasPublic
PROPERTY SignInHolds
CHECK_DEADLOCK FALSE
