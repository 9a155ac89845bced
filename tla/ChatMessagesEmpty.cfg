SPECIFICATION SoundSpec
CONSTANTS
  Users = {u1, u2}
  Messages = {m1, m2}
  OldMessages = {m1}
  Files = {f1}
  Requests = {p1}
  Before = Before
INVARIANTS
  MessageHasContent
CHECK_DEADLOCK FALSE
