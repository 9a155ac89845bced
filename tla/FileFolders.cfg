SPECIFICATION MCSpec
CONSTANTS
  Folders = {1, 2, 3}
  Items = {x}
  Requests = {p1, p2}
  Root = Root
INVARIANTS
  AcyclicUnlessMovesOverlap
  PlacedUnlessDeleteOverlaps
PROPERTIES
  RequestsEnd
CHECK_DEADLOCK FALSE
