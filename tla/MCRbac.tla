------------------------------- MODULE MCRbac -------------------------------
(***************************************************************************)
(* Instances of Rbac for TLC: one system role, with ANY on the first key.  *)
(***************************************************************************)
EXTENDS Rbac, TLC

CONSTANTS t1, t2, m1, m2, sys, admin, key

TwoTenants == m1 :> t1 @@ m2 :> t2
OneTenant == m1 :> t1 @@ m2 :> t1

Seeds == sys :> [tenant |-> NoTenant, name |-> admin, active |-> TRUE,
                 perms |-> (key :> [scope |-> "ANY", active |-> TRUE])]

\* No system role, for the run that is not about them.
NoSeeds == << >>

OneMember == m1 :> t1

Symmetry == Permutations(Request) \cup Permutations(Role \ {sys})

=============================================================================
