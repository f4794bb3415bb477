SPECIFICATION Spec
CONSTANTS
  User = {u1, u2}
  Tenant = {t1}
  Request = {r1, r2}
  NoTenant = NoTenant
  TTL = 2
  Flight = 1
  RlsEnforced = FALSE
  MaxTokens = 1
SYMMETRY Symmetry
INVARIANTS
  TypeOK
  TenantAccessEndsInTime
  AdminEndsInTime
