---------------------------- MODULE MCTenantScope ----------------------------
EXTENDS TenantScope, TLC

CONSTANTS t1, t2, u1

\* The contexts that meet on a connection: the users of two tenants, a platform
\* admin in a tenant and in none, and a user who has no tenant.
MeetingContexts ==
  {[tenant |-> t1, user |-> u1, admin |-> FALSE, scope |-> "ANY"],
   [tenant |-> t2, user |-> u1, admin |-> FALSE, scope |-> "OWN"],
   [tenant |-> t1, user |-> u1, admin |-> TRUE, scope |-> "ANY"],
   [tenant |-> NoTenant, user |-> u1, admin |-> TRUE, scope |-> "ANY"],
   [tenant |-> NoTenant, user |-> u1, admin |-> FALSE, scope |-> "ANY"]}

\* Slots and connections are interchangeable.
Symmetry == Permutations(Request) \cup Permutations(Conn)
=============================================================================
