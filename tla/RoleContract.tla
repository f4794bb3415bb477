---------------------------- MODULE RoleContract ----------------------------
(***************************************************************************)
(* What the contract of /rbac/roles promises, with the checks of a call    *)
(* and its write in one step: a tenant's roles have different names, only  *)
(* its own members get them, and none that a member holds is deleted.  An  *)
(* update of a role is up to three steps, for name and state, for what it  *)
(* takes from the permissions and for what it adds.                        *)
(***************************************************************************)
EXTENDS Naturals

CONSTANTS Tenant, Member, TenantOf, Name, Role, Body, SystemRole, NoTenant

VARIABLES roles, assigned

vars == <<roles, assigned>>

Init == roles = SystemRole /\ assigned = << >>

With(f, x, v) == [y \in DOMAIN f \cup {x} |-> IF y = x THEN v ELSE f[y]]

Granted(body) == [k \in DOMAIN body |-> [scope |-> body[k], active |-> TRUE]]

\* The roles a tenant may change: not the seeded ones.
Own == {id \in DOMAIN roles : roles[id].tenant \in Tenant}

Holders(id) == {m \in Member : <<m, id>> \in DOMAIN assigned /\ assigned[<<m, id>>]}

\* A new role's name is one its tenant never used, not even for a deleted role.
Create(id, t, n, body) ==
  /\ id \notin DOMAIN roles
  /\ \A other \in DOMAIN roles : roles[other].tenant = t => roles[other].name # n
  /\ roles' = With(roles, id, [tenant |-> t, name |-> n, active |-> TRUE,
                               perms |-> Granted(body)])
  /\ UNCHANGED assigned

\* Renaming and reactivating look at the active roles only.
Edit(id, n, active) ==
  /\ active => \A other \in DOMAIN roles \ {id} :
       roles[other].active /\ roles[other].tenant = roles[id].tenant => roles[other].name # n
  /\ roles' = [roles EXCEPT ![id].name = n, ![id].active = active]
  /\ UNCHANGED assigned

Strip(id) ==
  /\ roles' = [roles EXCEPT ![id].perms =
                 [k \in DOMAIN @ |-> [scope |-> @[k].scope, active |-> FALSE]]]
  /\ UNCHANGED assigned

\* Permissions are added, never changed.
Grant(id, body) ==
  /\ \A k \in DOMAIN body : k \notin DOMAIN roles[id].perms
  /\ roles' = [roles EXCEPT ![id].perms =
                 [k \in DOMAIN @ \cup DOMAIN body |->
                    IF k \in DOMAIN @ THEN @[k] ELSE Granted(body)[k]]]
  /\ UNCHANGED assigned

Delete(id) ==
  /\ Holders(id) = {}
  /\ roles' = [roles EXCEPT ![id].active = FALSE]
  /\ UNCHANGED assigned

Assign(m, id) ==
  /\ roles[id].tenant \in {NoTenant, TenantOf[m]}
  /\ assigned' = With(assigned, <<m, id>>, TRUE)
  /\ UNCHANGED roles

Revoke(pair) ==
  /\ assigned' = [assigned EXCEPT ![pair] = FALSE]
  /\ UNCHANGED roles

Next == \/ \E id \in Role, t \in Tenant, n \in Name, body \in Body : Create(id, t, n, body)
        \/ \E id \in Own : \/ \E n \in Name, active \in BOOLEAN : Edit(id, n, active)
                           \/ Strip(id) \/ \E body \in Body : Grant(id, body)
                           \/ Delete(id)
        \/ \E m \in Member, id \in DOMAIN roles : Assign(m, id)
        \/ \E pair \in DOMAIN assigned : Revoke(pair)

Spec == Init /\ [][Next]_vars
=============================================================================
