SPECIFICATION MCSpec
CONSTANTS
  Roles = {"a", "b"}
  Users = {"u"}
  Keys = {"k", "l"}
  n = n
  m = m
  o = o
  Names = {n, m, o}
  Requests = {"p", "q"}
  Loads = {"i", "j"}
  None = None
INVARIANTS
  AdminShownIsKept
  PermissionsAsAsked
CHECK_DEADLOCK FALSE
