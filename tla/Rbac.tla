-------------------------------- MODULE Rbac --------------------------------
(***************************************************************************)
(* Roles, permissions and role assignments: RbacService and the            *)
(* PermissionResolverService, cut at every database round trip.            *)
(*                                                                         *)
(* updateRole runs in an interactive transaction, but two of its three     *)
(* statements leave it: the cdc extension runs role.update in a            *)
(* transaction of its own, and the audit-columns extension turns           *)
(* permission.deleteMany into an updateMany of the parent client.  Both    *)
(* commit at once and need a second connection while the outer transaction *)
(* holds one.                                                              *)
(***************************************************************************)
EXTENDS FiniteSets, Integers

CONSTANTS Tenant, Member,
          TenantOf,      \* the tenant of each membership
          Key,           \* a permission's module:action
          Name, Role,    \* names and ids of roles
          SystemRole,    \* the seeded roles, with their permissions
          Request, PoolSize,
          NoTenant, Keep \* tenantId null; a field the body leaves out

Scope == {"OWN", "ANY"}

\* The permissions of a request body: class-validator admits a list, and a
\* repeated key fails like a key the role already has.
Body == UNION {[K -> Scope] : K \in SUBSET Key}
Grants == UNION {[K -> [scope : Scope, active : BOOLEAN]] : K \in SUBSET Key}

Row == [tenant : Tenant \cup {NoTenant}, name : Name, active : BOOLEAN,
        perms : Grants]

ASSUME RbacAssumption == /\ TenantOf \in [Member -> Tenant]
                         /\ DOMAIN SystemRole \subseteq Role
                         /\ SystemRole \in [DOMAIN SystemRole -> Row]
                         /\ \A id \in DOMAIN SystemRole :
                              SystemRole[id].tenant = NoTenant
                         /\ NoTenant \notin Tenant
                         /\ Keep \notin Name \cup BOOLEAN \cup Body
                         /\ PoolSize \in Nat

VARIABLES
  roles,      \* roles and their permissions, rows never physically removed
  assigned,   \* role_assignments: <<member, role>> -> is_active
  req,        \* what each request is doing
  stale       \* history: the roles not assigned to a request's member, and
              \* those not active, at any moment since the request began

vars == <<roles, assigned, req, stale>>

Pair == Member \X Role
Idle == [pc |-> "idle"]
Change == [name : Name \cup {Keep}, active : BOOLEAN \cup {Keep},
           perms : Body \cup {Keep}]

\* A permission as the resolver reads it.
Read == [key : Key, scope : Scope]

Busy == [pc : {"create"}, tenant : Tenant, name : Name, perms : Body]
        \cup [pc : {"begin", "write", "remove", "add", "updated"},
              id : Role, change : Change]
        \cup [pc : {"assign", "revoke"}, pair : Pair]
        \cup [pc : {"delete"}, id : Role]
        \cup [pc : {"roles", "perms"}, member : Member, ids : SUBSET Role]
        \cup [pc : {"merge"}, member : Member, read : SUBSET Read,
              rest : SUBSET Read, result : Body]

Fresh == [unassigned |-> {}, inactive |-> {}]

Init == /\ roles = SystemRole
        /\ assigned = << >>
        /\ req = [r \in Request |-> Idle]
        /\ stale = [r \in Request |-> Fresh]

-----------------------------------------------------------------------------
\* The connection pool: an updateRole or a resolution holds one from BEGIN to
\* its end, every other statement takes one while it runs.

InTx(r) == req[r].pc \in {"write", "remove", "add", "roles", "perms"}
Free == Cardinality({r \in Request : InTx(r)}) < PoolSize

Become(r, state) == req' = [req EXCEPT ![r] = state]

\* unique_active_role_tenant; rows without a tenant never collide.
NameTaken(id, tenant, name) ==
  \E other \in DOMAIN roles \ {id} :
    /\ roles[other].active
    /\ tenant # NoTenant
    /\ roles[other].tenant = tenant /\ roles[other].name = name

\* A bound, not code: Role has an id left for every request that creates one.
IdsLeft ==
  Cardinality(DOMAIN roles) + Cardinality({r \in Request : req[r].pc = "create"})
    < Cardinality(Role)

\* findFirst by name and tenant, over inactive roles too.
CreateRead(r) ==
  /\ req[r] = Idle /\ Free /\ IdsLeft
  /\ \E t \in Tenant, n \in Name, p \in Body :
       /\ ~\E id \in DOMAIN roles : roles[id].tenant = t /\ roles[id].name = n
       /\ Become(r, [pc |-> "create", tenant |-> t, name |-> n, perms |-> p])
  /\ UNCHANGED <<roles, assigned>>

NewRole(q) ==
  [tenant |-> q.tenant, name |-> q.name, active |-> TRUE,
   perms |-> [k \in DOMAIN q.perms |-> [scope |-> q.perms[k], active |-> TRUE]]]

\* Faulty variant: no unique index, the check alone.
CreateWriteUnindexed(r) ==
  /\ req[r].pc = "create" /\ Free
  /\ \E id \in Role \ DOMAIN roles :
       roles' = [i \in DOMAIN roles \cup {id} |->
                   IF i = id THEN NewRole(req[r]) ELSE roles[i]]
  /\ Become(r, Idle)
  /\ UNCHANGED assigned

\* The role and its permissions are inserted in one transaction (cdc's).
CreateWrite(r) ==
  /\ req[r].pc = "create" /\ Free
  /\ \E id \in Role \ DOMAIN roles :
       roles' = IF NameTaken(id, req[r].tenant, req[r].name) THEN roles
                ELSE [i \in DOMAIN roles \cup {id} |->
                        IF i = id THEN NewRole(req[r]) ELSE roles[i]]
  /\ Become(r, Idle)
  /\ UNCHANGED assigned

-----------------------------------------------------------------------------
\* The role must be the tenant's own; a system role answers 403.
UpdateRead(r) ==
  /\ req[r] = Idle /\ Free
  /\ \E t \in Tenant, id \in DOMAIN roles, c \in Change :
       /\ roles[id].tenant = t
       /\ Become(r, [pc |-> "begin", id |-> id, change |-> c])
  /\ UNCHANGED <<roles, assigned>>

UpdateBegin(r) ==
  /\ req[r].pc = "begin" /\ Free
  /\ Become(r, [req[r] EXCEPT !.pc = "write"])
  /\ UNCHANGED <<roles, assigned>>

\* A field the body leaves out is kept.
Or(new, old) == IF new = Keep THEN old ELSE new

\* The role as tx.role.update leaves it.
Updated(id, c) == [roles[id] EXCEPT !.name = Or(c.name, roles[id].name),
                                    !.active = Or(c.active, roles[id].active)]

\* tx.role.update, which cdc runs and commits on another connection; the
\* unique index fails the request when the updated row would collide.
UpdateWrite(r) ==
  /\ req[r].pc = "write" /\ Free
  /\ LET id == req[r].id
         c == req[r].change
         new == Updated(id, c)
     IN IF new.active /\ NameTaken(id, new.tenant, new.name)
        THEN Become(r, Idle) /\ UNCHANGED roles
        ELSE /\ roles' = [roles EXCEPT ![id] = new]
             /\ Become(r, [req[r] EXCEPT !.pc = IF c.perms = Keep THEN "updated"
                                                ELSE "remove"])
  /\ UNCHANGED assigned

\* tx.permission.deleteMany, which the audit-columns extension turns into a
\* soft delete on another connection.
UpdateRemove(r) ==
  /\ req[r].pc = "remove" /\ Free
  /\ LET id == req[r].id
         old == roles[id].perms
     IN roles' = [roles EXCEPT ![id].perms =
                    [k \in DOMAIN old |-> [scope |-> old[k].scope, active |-> FALSE]]]
  /\ Become(r, [req[r] EXCEPT !.pc = IF req[r].change.perms = << >> THEN "updated"
                                     ELSE "add"])
  /\ UNCHANGED assigned

\* tx.permission.createMany and COMMIT.  (roleId, module, action) is unique
\* over soft-deleted rows too, and a collision fails the request.
UpdateAdd(r) ==
  /\ req[r].pc = "add"
  /\ LET id == req[r].id
         old == roles[id].perms
         new == req[r].change.perms
     IN IF DOMAIN old \cap DOMAIN new # {}
        THEN Become(r, Idle) /\ UNCHANGED roles
        ELSE /\ roles' = [roles EXCEPT ![id].perms =
                  [k \in DOMAIN old \cup DOMAIN new |->
                     IF k \in DOMAIN old THEN old[k]
                     ELSE [scope |-> new[k], active |-> TRUE]]]
             /\ Become(r, [req[r] EXCEPT !.pc = "updated"])
  /\ UNCHANGED assigned

\* Faulty variant: no timeout once updateRole's transaction has begun.
AbortWaiting(r) ==
  /\ req[r].pc = "begin"
  /\ Become(r, Idle)
  /\ UNCHANGED <<roles, assigned>>

\* maxWait while it waits for a connection, timeout once it has begun: the
\* transaction rolls back, which undoes nothing, and its connection is freed.
Abort(r) ==
  /\ req[r].pc = "begin" \/ InTx(r)
  /\ Become(r, Idle)
  /\ UNCHANGED <<roles, assigned>>

UpdateAnswer(r) ==
  /\ req[r].pc = "updated"
  /\ Become(r, Idle)
  /\ UNCHANGED <<roles, assigned>>

-----------------------------------------------------------------------------
\* Faulty variant: the role is not looked up.
AssignReadUnread(r) ==
  /\ req[r] = Idle /\ Free
  /\ \E m \in Member, id \in Role : Become(r, [pc |-> "assign", pair |-> <<m, id>>])
  /\ UNCHANGED <<roles, assigned>>

\* Faulty variant: any member may be named.
AssignReadAnyone(r) ==
  /\ req[r] = Idle /\ Free
  /\ \E t \in Tenant, m \in Member, id \in DOMAIN roles :
       /\ roles[id].tenant \in {NoTenant, t}
       /\ Become(r, [pc |-> "assign", pair |-> <<m, id>>])
  /\ UNCHANGED <<roles, assigned>>

\* Both lookups, of columns that never change.  Neither the role's nor the
\* membership's isActive is asked for.
AssignRead(r) ==
  /\ req[r] = Idle /\ Free
  /\ \E t \in Tenant, m \in Member, id \in DOMAIN roles :
       /\ roles[id].tenant \in {NoTenant, t}
       /\ TenantOf[m] = t
       /\ Become(r, [pc |-> "assign", pair |-> <<m, id>>])
  /\ UNCHANGED <<roles, assigned>>

Assigned(pair, active) ==
  assigned' = [p \in DOMAIN assigned \cup {pair} |->
                 IF p = pair THEN active ELSE assigned[p]]

\* The upsert.
AssignWrite(r) ==
  /\ req[r].pc = "assign" /\ Free
  /\ Assigned(req[r].pair, TRUE)
  /\ Become(r, Idle)
  /\ UNCHANGED roles

RevokeRead(r) ==
  /\ req[r] = Idle /\ Free
  /\ \E t \in Tenant, pair \in DOMAIN assigned :
       /\ TenantOf[pair[1]] = t
       /\ Become(r, [pc |-> "revoke", pair |-> pair])
  /\ UNCHANGED <<roles, assigned>>

RevokeWrite(r) ==
  /\ req[r].pc = "revoke" /\ Free
  /\ Assigned(req[r].pair, FALSE)
  /\ Become(r, Idle)
  /\ UNCHANGED roles

\* Members the role is assigned to.
Holders(id) == {m \in Member : <<m, id>> \in DOMAIN assigned /\ assigned[<<m, id>>]}

\* Faulty variant: an assigned role is deleted all the same.
DeleteReadUnchecked(r) ==
  /\ req[r] = Idle /\ Free
  /\ \E t \in Tenant, id \in DOMAIN roles :
       /\ roles[id].tenant = t
       /\ Become(r, [pc |-> "delete", id |-> id])
  /\ UNCHANGED <<roles, assigned>>

\* 409 when the role has active assignments.
DeleteRead(r) ==
  /\ req[r] = Idle /\ Free
  /\ \E t \in Tenant, id \in DOMAIN roles :
       /\ roles[id].tenant = t
       /\ Holders(id) = {}
       /\ Become(r, [pc |-> "delete", id |-> id])
  /\ UNCHANGED <<roles, assigned>>

DeleteWrite(r) ==
  /\ req[r].pc = "delete" /\ Free
  /\ roles' = [roles EXCEPT ![req[r].id].active = FALSE]
  /\ Become(r, Idle)
  /\ UNCHANGED assigned

-----------------------------------------------------------------------------
\* resolvePermissions: one findUnique whose includes Prisma loads with a SELECT
\* each, in the transaction the tenant-scoped extension opens.

ResolveAssignments(r) ==
  /\ req[r] = Idle /\ Free
  /\ \E m \in Member :
       Become(r, [pc |-> "roles", member |-> m,
                  ids |-> {id \in DOMAIN roles : m \in Holders(id)}])
  /\ UNCHANGED <<roles, assigned>>

\* Faulty variant: deactivated roles are not skipped.
ResolveAllRoles(r) ==
  /\ req[r].pc = "roles"
  /\ Become(r, [req[r] EXCEPT !.pc = "perms"])
  /\ UNCHANGED <<roles, assigned>>

\* Deactivated roles are skipped.
ResolveRoles(r) ==
  /\ req[r].pc = "roles"
  /\ Become(r, [pc |-> "perms", member |-> req[r].member,
                ids |-> {id \in req[r].ids : roles[id].active}])
  /\ UNCHANGED <<roles, assigned>>

\* Faulty variant: the last permission read wins.
WidenLast(map, p) ==
  [k \in DOMAIN map \cup {p.key} |-> IF k = p.key THEN p.scope ELSE map[k]]

\* One turn of the loop over the permissions.
Widen(map, p) ==
  IF p.key \notin DOMAIN map \/ (map[p.key] = "OWN" /\ p.scope = "ANY")
  THEN [k \in DOMAIN map \cup {p.key} |-> IF k = p.key THEN p.scope ELSE map[k]]
  ELSE map

\* A permission's isActive is not looked at.
ResolvePermissions(r) ==
  /\ req[r].pc = "perms"
  /\ LET read == UNION {{[key |-> k, scope |-> roles[id].perms[k].scope] :
                            k \in DOMAIN roles[id].perms} : id \in req[r].ids}
     IN Become(r, [pc |-> "merge", member |-> req[r].member,
                   read |-> read, rest |-> read, result |-> << >>])
  /\ UNCHANGED <<roles, assigned>>

\* The loop, in whatever order the rows came.  It touches nothing shared; each
\* turn is a step so that every order is explored.
Merge(r) ==
  /\ req[r].pc = "merge"
  /\ \E p \in req[r].rest :
       Become(r, [pc |-> "merge", member |-> req[r].member,
                  read |-> req[r].read, rest |-> req[r].rest \ {p},
                  result |-> Widen(req[r].result, p)])
  /\ UNCHANGED <<roles, assigned>>

ResolveAnswer(r) ==
  /\ req[r].pc = "merge" /\ req[r].rest = {}
  /\ Become(r, Idle)
  /\ UNCHANGED <<roles, assigned>>

-----------------------------------------------------------------------------
Missing(m) == [unassigned |-> {id \in Role : m \notin Holders(id)},
               inactive |-> {id \in Role : id \in DOMAIN roles => ~roles[id].active}]

\* The history variable, which no action depends on.
Watch ==
  stale' = [r \in Request |->
    CASE req'[r].pc = "roles" /\ req[r] = Idle -> Missing(req'[r].member)
      [] req'[r].pc \in {"roles", "perms", "merge"} /\ req[r] # Idle ->
           LET now == Missing(req[r].member)'
           IN [unassigned |-> stale[r].unassigned \cap now.unassigned,
               inactive |-> stale[r].inactive \cap now.inactive]
      [] OTHER -> Fresh]

Update(r) == \/ UpdateBegin(r) \/ UpdateWrite(r) \/ UpdateRemove(r)
             \/ UpdateAdd(r) \/ UpdateAnswer(r)

Step(r) == \/ CreateRead(r) \/ CreateWrite(r)
           \/ UpdateRead(r) \/ Update(r)
           \/ AssignRead(r) \/ AssignWrite(r)
           \/ RevokeRead(r) \/ RevokeWrite(r)
           \/ DeleteRead(r) \/ DeleteWrite(r)
           \/ ResolveAssignments(r) \/ ResolveRoles(r)
           \/ ResolvePermissions(r) \/ Merge(r) \/ ResolveAnswer(r)
           \/ Abort(r)

Next == \E r \in Request : Step(r) /\ Watch

Spec == Init /\ [][Next]_vars

-----------------------------------------------------------------------------
\* What resolvePermissions is about to return.
Resolved(r) == req[r].pc = "merge" /\ req[r].rest = {}

TypeOK ==
  /\ DOMAIN roles \subseteq Role /\ roles \in [DOMAIN roles -> Row]
  /\ DOMAIN assigned \subseteq Member \X DOMAIN roles
  /\ assigned \in [DOMAIN assigned -> BOOLEAN]
  /\ req \in [Request -> {Idle} \cup Busy]
  /\ stale \in [Request -> [unassigned : SUBSET Role, inactive : SUBSET Role]]

\* A custom role is only ever assigned to members of its own tenant, whatever
\* creates, renames, deactivates or reassigns it meanwhile (assignRole).
AssignmentsStayInTenant ==
  \A p \in DOMAIN assigned :
    roles[p[2]].tenant \in {NoTenant, TenantOf[p[1]]}

\* No sequence of tenants' calls changes a system role or one of its
\* permissions (updateRole, deleteRole).
SystemRolesUntouched ==
  [][\A id \in DOMAIN SystemRole : roles'[id] = roles[id]]_vars

\* Two active roles of a tenant never share a name, though createRole checks
\* before it writes and updateRole renames and reactivates unchecked.
ActiveNamesUnique ==
  \A a, b \in DOMAIN roles :
    (/\ roles[a].active /\ roles[b].active
     /\ roles[a].tenant = roles[b].tenant /\ roles[a].tenant # NoTenant
     /\ roles[a].name = roles[b].name) => a = b

Widest(perms) == [k \in {p.key : p \in perms} |->
                    IF [key |-> k, scope |-> "ANY"] \in perms THEN "ANY" ELSE "OWN"]

\* The resolver's loop computes the union of the permissions with the widest
\* scope of each, in whatever order the database returns the rows.
ResolvesWidest ==
  \A r \in Request : Resolved(r) =>
    req[r].result = Widest(req[r].read)

\* A resolution grants nothing on the strength of a role that was revoked from
\* the member or deactivated before it began and has stayed so, though other
\* requests change both while it reads.
RevokedRolesGrantNothing ==
  \A r \in Request : Resolved(r) =>
    \A k \in DOMAIN req[r].result :
      \E id \in DOMAIN roles \ (stale[r].unassigned \cup stale[r].inactive) :
        k \in DOMAIN roles[id].perms

\* When updateRole has answered with success, the role grants the permissions
\* of the body and no others: what the resolver reads of it.
UpdateReplacesPermissions ==
  \A r \in Request :
    (req[r].pc = "updated" /\ req[r].change.perms # Keep) =>
      LET perms == roles[req[r].id].perms
      IN [k \in DOMAIN perms |-> perms[k].scope] = req[r].change.perms

\* Every updateRole ends, though transactions that hold the last connections
\* wait for another: the transaction timeouts release them.
UpdatesEnd ==
  \A r \in Request :
    req[r].pc \in {"begin", "write", "remove", "add"} ~> req[r] = Idle

=============================================================================
