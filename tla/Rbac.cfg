SPECIFICATION WatchedSpec
CONSTANTS
  t1 = t1
  t2 = t2
  m1 = m1
  m2 = m2
  sys = sys
  admin = admin
  key = key
  Tenant = {t1, t2}
  Member = {m1, m2}
  TenantOf <- TwoTenants
  Key = {key}
  Name = {admin}
  Role = {sys, r1}
  SystemRole <- Seeds
  Request = {q1, q2}
  PoolSize = 2
  NoTenant = NoTenant
  Keep = Keep
SYMMETRY Symmetry
INVARIANTS
  TypeOK
  AssignmentsStayInTenant
  ResolvesWidest
  RevokedRolesGrantNothing
PROPERTY SerialImplementsContract
