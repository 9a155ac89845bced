SPECIFICATION MCSpec
CONSTANTS
  Users = {u1, u2}
  Root = u1
  Roles = {r1, r2}
  Second = r2
  Super = super
  Sessions = {s1}
  Requests = {p1, p2}
  Postgres = FALSE
INVARIANTS
  OneSuperadministratorUnlessOverlap
  ClaimsAreCurrentUnlessOverlap
  LinkedRolesLiveUnlessOverlap
  HasRoleUnlessOverlap
PROPERTY HandedOverWhole
CHECK_DEADLOCK FALSE
SYMMETRY Symmetry
