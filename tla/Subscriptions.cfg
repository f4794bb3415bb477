SPECIFICATION Spec
CONSTANTS
  Plan = {p1, p2}
  Tenant = {t1, t2}
  User = {u1, u2}
  Limit = {1, 2}
  Request = {r1, r2}
  MaxMembers = 2
SYMMETRY Symmetry
INVARIANTS
  TypeOK
  PlansInUseStay
PROPERTY SerialImplementsContract
