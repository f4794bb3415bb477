SPECIFICATION WatchedLiveSpec
CONSTANTS
  t1 = t1
  t2 = t2
  m1 = m1
  m2 = m2
  sys = sys
  admin = admin
  key = key
  Tenant = {t1}
  Member = {m1}
  TenantOf <- OneMember
  Key = {}
  Name = {admin}
  Role = {r1, r2}
  SystemRole <- NoSeeds
  Request = {q1, q2}
  PoolSize = 2
  NoTenant = NoTenant
  Keep = Keep
INVARIANT ActiveNamesUnique
PROPERTY
  UpdatesEnd
