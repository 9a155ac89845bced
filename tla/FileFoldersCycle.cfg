SPECIFICATION Spec
CONSTANTS
  Folders = {a, b, c}
  Items = {}
  Requests = {p1, p2}
  Root = Root
INVARIANTS
  Acyclic
CHECK_DEADLOCK FALSE
