CONSTANTS
  t1 = t1
  t2 = t2
  u1 = u1
  Tenant = {t1, t2}
  User = {u1}
  Request = {r1, r2}
  Conn = {c1, c2}
  Context <- MeetingContexts
  RlsEnforced = TRUE
  NoTenant = NoTenant
  Blank = Blank
  NoConn = NoConn
SPECIFICATION Spec
SYMMETRY Symmetry
INVARIANTS
  TypeOK
  PolicyFollowsContext
PROPERTIES
  WritesStayInTenant
