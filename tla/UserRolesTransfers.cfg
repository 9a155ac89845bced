SPECIFICATION TransferSpec
CONSTANTS
  Users = {u1, u2}
  Root = u1
  Roles = {r1}
  Super = super
  Sessions = {s1}
  Requests = {p1, p2}
  Postgres = TRUE
INVARIANTS
  ExactlyOneSuperadministrator
