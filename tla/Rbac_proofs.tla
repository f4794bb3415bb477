----------------------------- MODULE Rbac_proofs -----------------------------
(***************************************************************************)
(* Type correctness of Rbac, and that for every set of tenants, members,   *)
(* roles and requests custom roles stay inside their tenant, system roles  *)
(* are immutable, active names are unique and the resolver's loop computes *)
(* the widest union; that a resolution grants nothing on the strength of a *)
(* role long revoked; and that until requests overlap every write is a     *)
(* step of RoleContract.                                                   *)
(***************************************************************************)
EXTENDS RbacSerial, TLAPS

\* What a request decided in its first round trip still holds when it writes:
\* ids are never reused and a role's tenant never changes.
InFlight(r) ==
  /\ req[r].pc \in {"assign", "revoke"} =>
       /\ req[r].pair[2] \in DOMAIN roles
       /\ roles[req[r].pair[2]].tenant \in {NoTenant, TenantOf[req[r].pair[1]]}
  /\ req[r].pc \in {"begin", "write", "remove", "add", "updated", "delete"} =>
       /\ req[r].id \in DOMAIN roles
       /\ roles[req[r].id].tenant \in Tenant
  /\ req[r].pc \in {"remove", "add"} => req[r].change.perms # Keep
  /\ req[r].pc \in {"roles", "perms"} => req[r].ids \subseteq DOMAIN roles

SystemKept == \A id \in DOMAIN SystemRole :
                id \in DOMAIN roles /\ roles[id] = SystemRole[id]

\* The loop invariant of the resolver.
MergedSoFar(r) ==
  req[r].pc = "merge" =>
    /\ req[r].rest \subseteq req[r].read
    /\ req[r].result = Widest(req[r].read \ req[r].rest)

IInv == /\ TypeOK
        /\ \A r \in Request : InFlight(r)
        /\ SystemKept
        /\ AssignmentsStayInTenant
        /\ ActiveNamesUnique
        /\ \A r \in Request : MergedSoFar(r)

\* What a step may do to the table of roles.
RolesKept == /\ DOMAIN roles \subseteq DOMAIN roles'
             /\ \A id \in DOMAIN roles : roles'[id].tenant = roles[id].tenant
             /\ \A id \in DOMAIN SystemRole : roles'[id] = roles[id]

\* The roles table stays well typed.
RolesTyped == DOMAIN roles \subseteq Role /\ roles \in [DOMAIN roles -> Row]

-----------------------------------------------------------------------------
\* A body's permissions become rows of the table, and rows stay rows when some
\* of their fields change.
LEMMA GrantsMade ==
  /\ \A b \in Body :
       [k \in DOMAIN b |-> [scope |-> b[k], active |-> TRUE]] \in Grants
  /\ \A g \in Grants :
       [k \in DOMAIN g |-> [scope |-> g[k].scope, active |-> FALSE]] \in Grants
  /\ \A g \in Grants, b \in Body :
       [k \in DOMAIN g \cup DOMAIN b |->
          IF k \in DOMAIN g THEN g[k] ELSE [scope |-> b[k], active |-> TRUE]]
         \in Grants
<1>1. ASSUME NEW b \in Body
      PROVE  [k \in DOMAIN b |-> [scope |-> b[k], active |-> TRUE]] \in Grants
  <2>1. PICK K \in SUBSET Key : b \in [K -> Scope]
    BY DEF Body
  <2>2. [k \in DOMAIN b |-> [scope |-> b[k], active |-> TRUE]]
          \in [K -> [scope : Scope, active : BOOLEAN]]
    BY <2>1
  <2> QED
    BY <2>2 DEF Grants
<1>2. ASSUME NEW g \in Grants
      PROVE  [k \in DOMAIN g |-> [scope |-> g[k].scope, active |-> FALSE]] \in Grants
  <2>1. PICK K \in SUBSET Key : g \in [K -> [scope : Scope, active : BOOLEAN]]
    BY DEF Grants
  <2>2. [k \in DOMAIN g |-> [scope |-> g[k].scope, active |-> FALSE]]
          \in [K -> [scope : Scope, active : BOOLEAN]]
    BY <2>1
  <2> QED
    BY <2>2 DEF Grants
<1>3. ASSUME NEW g \in Grants, NEW b \in Body
      PROVE  [k \in DOMAIN g \cup DOMAIN b |->
                IF k \in DOMAIN g THEN g[k] ELSE [scope |-> b[k], active |-> TRUE]]
               \in Grants
  <2>1. PICK K \in SUBSET Key : g \in [K -> [scope : Scope, active : BOOLEAN]]
    BY DEF Grants
  <2>2. PICK L \in SUBSET Key : b \in [L -> Scope]
    BY DEF Body
  <2>3. [k \in DOMAIN g \cup DOMAIN b |->
           IF k \in DOMAIN g THEN g[k] ELSE [scope |-> b[k], active |-> TRUE]]
          \in [K \cup L -> [scope : Scope, active : BOOLEAN]]
    BY <2>1, <2>2
  <2>4. K \cup L \in SUBSET Key
    OBVIOUS
  <2> QED
    BY <2>3, <2>4 DEF Grants
<1> QED
  BY <1>1, <1>2, <1>3

\* The fields of a request at each point of its program.
LEMMA Fields ==
  ASSUME TypeOK, NEW r \in Request
  PROVE  /\ req[r].pc = "create" => /\ req[r].tenant \in Tenant
                                    /\ req[r].name \in Name
                                    /\ req[r].perms \in Body
         /\ req[r].pc \in {"begin", "write", "remove", "add", "updated"} =>
              /\ req[r].id \in Role /\ req[r].change \in Change
              /\ req[r] = [pc |-> req[r].pc, id |-> req[r].id,
                           change |-> req[r].change]
         /\ req[r].pc \in {"assign", "revoke"} => req[r].pair \in Pair
         /\ req[r].pc = "delete" => req[r].id \in Role
         /\ req[r].pc \in {"roles", "perms"} =>
              /\ req[r].member \in Member /\ req[r].ids \subseteq Role
              /\ req[r] = [pc |-> req[r].pc, member |-> req[r].member,
                           ids |-> req[r].ids]
         /\ req[r].pc = "merge" =>
              /\ req[r].member \in Member /\ req[r].read \subseteq Read
              /\ req[r].rest \subseteq Read /\ req[r].result \in Body
              /\ req[r] = [pc |-> "merge", member |-> req[r].member,
                           read |-> req[r].read, rest |-> req[r].rest,
                           result |-> req[r].result]
<1> req[r] \in {Idle} \cup Busy
  BY DEF TypeOK
<1> QED
  BY DEF Idle, Busy

-----------------------------------------------------------------------------
\* Replacing a custom role's row by one of the same name that is not newly
\* active.
LEMMA RowReplaced ==
  ASSUME IInv, NEW id \in DOMAIN roles, roles[id].tenant \in Tenant,
         NEW row \in Row, row.tenant = roles[id].tenant,
         row.name = roles[id].name, row.active => roles[id].active,
         roles' = [roles EXCEPT ![id] = row]
  PROVE  RolesKept /\ RolesTyped' /\ ActiveNamesUnique'
<1>1. /\ DOMAIN roles' = DOMAIN roles /\ roles'[id] = row
      /\ \A i \in DOMAIN roles \ {id} : roles'[i] = roles[i]
  OBVIOUS
<1>2. RolesTyped /\ ActiveNamesUnique /\ SystemKept
  BY DEF IInv, TypeOK, RolesTyped
<1>3. id \notin DOMAIN SystemRole
  BY <1>2, RbacAssumption DEF SystemKept
<1>4. RolesTyped'
  BY <1>2 DEF RolesTyped
<1>5. RolesKept
  BY <1>1, <1>2, <1>3 DEF RolesKept, SystemKept
<1>6. ActiveNamesUnique'
  BY <1>1, <1>2 DEF ActiveNamesUnique
<1> QED
  BY <1>4, <1>5, <1>6

\* No step removes a role, moves it to another tenant or touches a system
\* role, and the table stays well typed with unique active names.
LEMMA RolesStep ==
  ASSUME IInv, NEW r \in Request, Step(r)
  PROVE  RolesKept /\ RolesTyped' /\ ActiveNamesUnique'
<1>t. TypeOK /\ InFlight(r) /\ SystemKept /\ ActiveNamesUnique
  BY DEF IInv
<1>r. RolesTyped
  BY <1>t DEF TypeOK, RolesTyped
<1>s. \A id \in DOMAIN roles : roles[id].tenant \in Tenant => id \notin DOMAIN SystemRole
  BY <1>t, RbacAssumption DEF SystemKept
<1>1. CASE UNCHANGED roles
  BY <1>1, <1>t, <1>r DEF RolesKept, RolesTyped, ActiveNamesUnique
<1>2. CASE CreateWrite(r) /\ roles' # roles
  <2>1. PICK id \in Role \ DOMAIN roles :
          roles' = IF NameTaken(id, req[r].tenant, req[r].name) THEN roles
                   ELSE [i \in DOMAIN roles \cup {id} |->
                           IF i = id THEN NewRole(req[r]) ELSE roles[i]]
    BY <1>2 DEF CreateWrite
  <2>2. /\ ~NameTaken(id, req[r].tenant, req[r].name)
        /\ roles' = [i \in DOMAIN roles \cup {id} |->
                       IF i = id THEN NewRole(req[r]) ELSE roles[i]]
    BY <2>1, <1>2
  <2>3. req[r].tenant \in Tenant /\ req[r].name \in Name /\ req[r].perms \in Body
    BY <1>t, <1>2, Fields DEF CreateWrite
  <2>4. /\ NewRole(req[r]) \in Row
        /\ NewRole(req[r]).tenant = req[r].tenant
        /\ NewRole(req[r]).name = req[r].name
    BY <2>3, GrantsMade DEF NewRole, Row
  <2>5. RolesTyped'
    BY <2>2, <2>4, <1>r DEF RolesTyped
  <2>6. RolesKept
    BY <2>2, <1>t DEF RolesKept, SystemKept
  <2>7. ActiveNamesUnique'
    BY <2>2, <2>3, <2>4, <1>t DEF ActiveNamesUnique, NameTaken
  <2> QED
    BY <2>5, <2>6, <2>7
<1>3. CASE UpdateWrite(r) /\ roles' # roles
  <2> DEFINE id == req[r].id
             new == Updated(id, req[r].change)
  <2>1. /\ ~(new.active /\ NameTaken(id, new.tenant, new.name))
        /\ roles' = [roles EXCEPT ![id] = new]
    BY <1>3 DEF UpdateWrite
  <2>2. id \in DOMAIN roles /\ roles[id].tenant \in Tenant /\ req[r].change \in Change
    BY <1>t, <1>3, Fields DEF UpdateWrite, InFlight
  <2>3. roles[id] \in Row
    BY <2>2, <1>r DEF RolesTyped
  <2>4. /\ Or(req[r].change.name, roles[id].name) \in Name
        /\ Or(req[r].change.active, roles[id].active) \in BOOLEAN
    BY <2>2, <2>3 DEF Or, Change, Row
  <2>5. new \in Row /\ new.tenant = roles[id].tenant
    BY <2>3, <2>4 DEF Updated, Row
  <2>6. RolesTyped'
    BY <2>1, <2>5, <1>r DEF RolesTyped
  <2>7. RolesKept
    BY <2>1, <2>2, <2>5, <1>s DEF RolesKept
  <2>8. /\ DOMAIN roles' = DOMAIN roles
        /\ roles'[id] = new
        /\ \A i \in DOMAIN roles \ {id} : roles'[i] = roles[i]
    BY <2>1, <2>2
  <2>9. ActiveNamesUnique'
    <3> SUFFICES ASSUME NEW a \in DOMAIN roles', NEW b \in DOMAIN roles',
                        roles'[a].active, roles'[b].active,
                        roles'[a].tenant = roles'[b].tenant,
                        roles'[a].tenant # NoTenant,
                        roles'[a].name = roles'[b].name
                 PROVE  a = b
      BY DEF ActiveNamesUnique
    <3> HIDE DEF id, new
    <3> QED
      BY <2>1, <2>8, <1>t DEF ActiveNamesUnique, NameTaken
  <2> QED
    BY <2>6, <2>7, <2>9
<1>4. CASE UpdateRemove(r) \/ (UpdateAdd(r) /\ roles' # roles)
  <2> DEFINE id == req[r].id
  <2>1. id \in DOMAIN roles /\ roles[id].tenant \in Tenant /\ req[r].change \in Change
    BY <1>t, <1>4, Fields DEF UpdateRemove, UpdateAdd, InFlight
  <2>2. roles[id] \in Row /\ roles[id].perms \in Grants
    BY <2>1, <1>r DEF RolesTyped, Row
  <2>3. PICK g \in Grants : roles' = [roles EXCEPT ![id].perms = g]
    <3>1. CASE UpdateRemove(r)
      <4>1. [k \in DOMAIN roles[id].perms |->
               [scope |-> roles[id].perms[k].scope, active |-> FALSE]] \in Grants
        BY <2>2, GrantsMade
      <4> QED
        BY <3>1, <4>1 DEF UpdateRemove
    <3>2. CASE UpdateAdd(r) /\ roles' # roles
      <4> DEFINE b == req[r].change.perms
      <4>1. b # Keep
        BY <1>t, <3>2 DEF UpdateAdd, InFlight
      <4>2. b \in Body
        BY <4>1, <2>1 DEF Change
      <4>3. [k \in DOMAIN roles[id].perms \cup DOMAIN b |->
               IF k \in DOMAIN roles[id].perms THEN roles[id].perms[k]
               ELSE [scope |-> b[k], active |-> TRUE]] \in Grants
        BY <2>2, <4>2, GrantsMade
      <4> QED
        BY <3>2, <4>3 DEF UpdateAdd
    <3> QED
      BY <1>4, <3>1, <3>2
  <2> DEFINE row == [roles[id] EXCEPT !.perms = g]
  <2>4. /\ row \in Row /\ row.tenant = roles[id].tenant
        /\ row.name = roles[id].name /\ row.active = roles[id].active
    BY <2>2 DEF Row
  <2>5. roles' = [roles EXCEPT ![id] = row]
    BY <2>1, <2>3
  <2> QED
    BY <2>1, <2>4, <2>5, RowReplaced
<1>5. CASE DeleteWrite(r)
  <2> DEFINE id == req[r].id
             row == [roles[id] EXCEPT !.active = FALSE]
  <2>1. id \in DOMAIN roles /\ roles[id].tenant \in Tenant
    BY <1>t, <1>5 DEF DeleteWrite, InFlight
  <2>2. roles[id] \in Row
    BY <2>1, <1>r DEF RolesTyped
  <2>3. /\ row \in Row /\ row.tenant = roles[id].tenant
        /\ row.name = roles[id].name /\ row.active = FALSE
    BY <2>2 DEF Row
  <2>4. roles' = [roles EXCEPT ![id] = row]
    BY <1>5, <2>1 DEF DeleteWrite
  <2> QED
    BY <2>1, <2>3, <2>4, RowReplaced
<1> QED
  BY <1>1, <1>2, <1>3, <1>4, <1>5
     DEF Step, Update, CreateRead, UpdateRead, UpdateBegin, UpdateAnswer,
         AssignRead, AssignWrite, RevokeRead, RevokeWrite, DeleteRead,
         ResolveAssignments, ResolveRoles, ResolvePermissions, Merge,
         ResolveAnswer, Abort

-----------------------------------------------------------------------------
\* Assignments change only to pairs checked in the same request.
LEMMA AssignedStep ==
  ASSUME IInv, NEW r \in Request, Step(r)
  PROVE  /\ DOMAIN assigned' \subseteq Member \X DOMAIN roles'
         /\ assigned' \in [DOMAIN assigned' -> BOOLEAN]
         /\ AssignmentsStayInTenant'
<1>t. TypeOK /\ InFlight(r) /\ AssignmentsStayInTenant
  BY DEF IInv
<1>k. RolesKept
  BY RolesStep
<1>1. CASE UNCHANGED assigned
  BY <1>1, <1>t, <1>k DEF TypeOK, RolesKept, AssignmentsStayInTenant
<1>2. CASE AssignWrite(r) \/ RevokeWrite(r)
  <2> DEFINE pair == req[r].pair
  <2>1. /\ pair \in Member \X DOMAIN roles
        /\ roles[pair[2]].tenant \in {NoTenant, TenantOf[pair[1]]}
    BY <1>t, <1>2, Fields DEF AssignWrite, RevokeWrite, InFlight, Pair
  <2>2. PICK active \in BOOLEAN :
          assigned' = [p \in DOMAIN assigned \cup {pair} |->
                         IF p = pair THEN active ELSE assigned[p]]
    BY <1>2 DEF AssignWrite, RevokeWrite, Assigned
  <2>3. roles' = roles
    BY <1>2 DEF AssignWrite, RevokeWrite
  <2> HIDE DEF pair
  <2> QED
    BY <2>1, <2>2, <2>3, <1>t DEF TypeOK, AssignmentsStayInTenant
<1> QED
  BY <1>1, <1>2
     DEF Step, Update, CreateRead, CreateWrite, UpdateRead, UpdateBegin,
         UpdateWrite, UpdateRemove, UpdateAdd, UpdateAnswer, AssignRead,
         RevokeRead, DeleteRead, DeleteWrite, ResolveAssignments, ResolveRoles,
         ResolvePermissions, Merge, ResolveAnswer, Abort

-----------------------------------------------------------------------------
\* One turn of the loop keeps its invariant.
LEMMA WidenWidest ==
  ASSUME NEW perms \in SUBSET Read, NEW p \in Read
  PROVE  Widen(Widest(perms), p) = Widest(perms \cup {p})
<1> DEFINE keys == {q.key : q \in perms}
           old == Widest(perms)
           new == Widest(perms \cup {p})
<1>1. DOMAIN old = keys /\ DOMAIN new = keys \cup {p.key}
  BY DEF Widest
<1>2. \A q \in Read : q = [key |-> q.key, scope |-> q.scope]
                    /\ q.scope \in {"OWN", "ANY"}
  BY DEF Read, Scope
<1>3. \A k \in keys : old[k] = IF [key |-> k, scope |-> "ANY"] \in perms
                              THEN "ANY" ELSE "OWN"
  BY DEF Widest
<1>4. \A k \in keys \cup {p.key} :
        new[k] = IF [key |-> k, scope |-> "ANY"] \in perms \cup {p}
                 THEN "ANY" ELSE "OWN"
  BY DEF Widest
<1>5. \A k \in keys \ {p.key} : new[k] = old[k]
  <2>1. \A k \in keys \ {p.key} : [key |-> k, scope |-> "ANY"].key # p.key
    OBVIOUS
  <2>2. \A k \in keys \ {p.key} : [key |-> k, scope |-> "ANY"] # p
    BY <2>1
  <2> HIDE DEF old, new, keys
  <2> QED
    BY <1>3, <1>4, <2>2
<1>6. p.key \notin keys => new[p.key] = p.scope
  BY <1>2, <1>4
<1>7. p.key \in keys => new[p.key] = IF p.scope = "ANY" THEN "ANY" ELSE old[p.key]
  BY <1>2, <1>3, <1>4
<1>8. new = [k \in keys \cup {p.key} |-> new[k]] /\ old = [k \in keys |-> old[k]]
  BY DEF Widest
<1>9. old[p.key] \in {"OWN", "ANY"} \/ p.key \notin keys
  BY <1>3
<1> HIDE DEF old, new, keys
<1>10. CASE p.key \notin keys \/ (old[p.key] = "OWN" /\ p.scope = "ANY")
  <2>1. Widen(old, p) = [k \in keys \cup {p.key} |-> IF k = p.key THEN p.scope ELSE old[k]]
    BY <1>1, <1>10 DEF Widen
  <2>2. \A k \in keys \cup {p.key} : new[k] = IF k = p.key THEN p.scope ELSE old[k]
    BY <1>5, <1>6, <1>7, <1>10
  <2>3. [k \in keys \cup {p.key} |-> new[k]]
          = [k \in keys \cup {p.key} |-> IF k = p.key THEN p.scope ELSE old[k]]
    BY <2>2
  <2>4. Widen(old, p) = new
    BY <2>1, <2>3, <1>8
  <2> QED
    BY <2>4 DEF old, new
<1>11. CASE p.key \in keys /\ ~(old[p.key] = "OWN" /\ p.scope = "ANY")
  <2>1. Widen(old, p) = old
    BY <1>1, <1>11 DEF Widen
  <2>2. \A k \in keys : new[k] = old[k]
    BY <1>5, <1>7, <1>9, <1>11
  <2>3. keys \cup {p.key} = keys
    BY <1>11
  <2>4. [k \in keys |-> new[k]] = [k \in keys |-> old[k]]
    BY <2>2
  <2>5. Widen(old, p) = new
    BY <2>1, <2>3, <2>4, <1>8
  <2> QED
    BY <2>5 DEF old, new
<1> QED
  BY <1>10, <1>11

\* The merged permissions are a body.
LEMMA WidestType == ASSUME NEW perms \in SUBSET Read
                    PROVE  Widest(perms) \in Body
<1>1. {q.key : q \in perms} \in SUBSET Key
  BY DEF Read
<1>2. Widest(perms) \in [{q.key : q \in perms} -> Scope]
  BY DEF Widest, Scope
<1> QED
  BY <1>1, <1>2 DEF Body

-----------------------------------------------------------------------------
\* What the request that takes a step becomes.
Moved(r) == /\ req' = [req EXCEPT ![r] = req'[r]]
            /\ req'[r] \in {Idle} \cup Busy
            /\ InFlight(r)'
            /\ MergedSoFar(r)'

\* A request that ends, or starts, or takes its next round trip.
LEMMA Ends == ASSUME TypeOK, NEW r \in Request, Become(r, Idle)
              PROVE  Moved(r)
<1>1. req' = [req EXCEPT ![r] = Idle] /\ req'[r] = Idle /\ Idle.pc = "idle"
  BY DEF TypeOK, Become, Idle
<1> QED
  BY <1>1 DEF Moved, InFlight, MergedSoFar

LEMMA Starts ==
  ASSUME IInv, NEW r \in Request,
         \/ CreateRead(r) \/ UpdateRead(r) \/ AssignRead(r)
         \/ RevokeRead(r) \/ DeleteRead(r) \/ ResolveAssignments(r)
  PROVE  Moved(r)
<1>t. TypeOK /\ AssignmentsStayInTenant
  BY DEF IInv
<1>r. roles \in [DOMAIN roles -> Row] /\ DOMAIN roles \subseteq Role
  BY <1>t DEF TypeOK
<1>1. CASE CreateRead(r)
  <2>1. PICK t \in Tenant, n \in Name, p \in Body :
          Become(r, [pc |-> "create", tenant |-> t, name |-> n, perms |-> p])
    BY <1>1 DEF CreateRead
  <2>2. /\ req'[r] = [pc |-> "create", tenant |-> t, name |-> n, perms |-> p]
        /\ req' = [req EXCEPT ![r] = req'[r]]
    BY <2>1, <1>t DEF TypeOK, Become
  <2>3. req'[r] \in Busy /\ req'[r].pc = "create"
    BY <2>2 DEF Busy
  <2> QED
    BY <2>2, <2>3 DEF Moved, InFlight, MergedSoFar
<1>2. CASE UpdateRead(r)
  <2>1. PICK t \in Tenant, id \in DOMAIN roles, c \in Change :
          /\ roles[id].tenant = t
          /\ Become(r, [pc |-> "begin", id |-> id, change |-> c])
    BY <1>2 DEF UpdateRead
  <2>2. /\ req'[r] = [pc |-> "begin", id |-> id, change |-> c]
        /\ req' = [req EXCEPT ![r] = req'[r]]
    BY <2>1, <1>t DEF TypeOK, Become
  <2>3. req'[r] \in Busy /\ req'[r].pc = "begin" /\ req'[r].id = id
    BY <2>2, <1>r DEF Busy
  <2>4. roles' = roles
    BY <1>2 DEF UpdateRead
  <2> QED
    BY <2>1, <2>2, <2>3, <2>4 DEF Moved, InFlight, MergedSoFar
<1>3. CASE AssignRead(r)
  <2>1. PICK t \in Tenant, m \in Member, id \in DOMAIN roles :
          /\ roles[id].tenant \in {NoTenant, t}
          /\ TenantOf[m] = t
          /\ Become(r, [pc |-> "assign", pair |-> <<m, id>>])
    BY <1>3 DEF AssignRead
  <2>2. /\ req'[r] = [pc |-> "assign", pair |-> <<m, id>>]
        /\ req' = [req EXCEPT ![r] = req'[r]]
    BY <2>1, <1>t DEF TypeOK, Become
  <2>3. req'[r] \in Busy /\ req'[r].pc = "assign" /\ req'[r].pair = <<m, id>>
    BY <2>2, <1>r DEF Busy, Pair
  <2>4. roles' = roles
    BY <1>3 DEF AssignRead
  <2> QED
    BY <2>1, <2>2, <2>3, <2>4 DEF Moved, InFlight, MergedSoFar
<1>4. CASE RevokeRead(r)
  <2>1. PICK pair \in DOMAIN assigned : Become(r, [pc |-> "revoke", pair |-> pair])
    BY <1>4 DEF RevokeRead
  <2>2. /\ req'[r] = [pc |-> "revoke", pair |-> pair]
        /\ req' = [req EXCEPT ![r] = req'[r]]
    BY <2>1, <1>t DEF TypeOK, Become
  <2>3. pair \in Member \X DOMAIN roles
    BY <1>t DEF TypeOK
  <2>4. req'[r] \in Busy /\ req'[r].pc = "revoke" /\ req'[r].pair = pair
    BY <2>2, <2>3, <1>r DEF Busy, Pair
  <2>5. roles' = roles
    BY <1>4 DEF RevokeRead
  <2>6. roles[pair[2]].tenant \in {NoTenant, TenantOf[pair[1]]}
    BY <1>t DEF AssignmentsStayInTenant
  <2> QED
    BY <2>2, <2>3, <2>4, <2>5, <2>6 DEF Moved, InFlight, MergedSoFar
<1>5. CASE DeleteRead(r)
  <2>1. PICK t \in Tenant, id \in DOMAIN roles :
          /\ roles[id].tenant = t
          /\ Become(r, [pc |-> "delete", id |-> id])
    BY <1>5 DEF DeleteRead
  <2>2. /\ req'[r] = [pc |-> "delete", id |-> id]
        /\ req' = [req EXCEPT ![r] = req'[r]]
    BY <2>1, <1>t DEF TypeOK, Become
  <2>3. req'[r] \in Busy /\ req'[r].pc = "delete" /\ req'[r].id = id
    BY <2>2, <1>r DEF Busy
  <2>4. roles' = roles
    BY <1>5 DEF DeleteRead
  <2> QED
    BY <2>1, <2>2, <2>3, <2>4 DEF Moved, InFlight, MergedSoFar
<1>6. CASE ResolveAssignments(r)
  <2>1. PICK m \in Member :
          Become(r, [pc |-> "roles", member |-> m,
                     ids |-> {id \in DOMAIN roles : m \in Holders(id)}])
    BY <1>6 DEF ResolveAssignments
  <2>2. /\ req'[r] = [pc |-> "roles", member |-> m,
                      ids |-> {id \in DOMAIN roles : m \in Holders(id)}]
        /\ req' = [req EXCEPT ![r] = req'[r]]
    BY <2>1, <1>t DEF TypeOK, Become
  <2>3. {id \in DOMAIN roles : m \in Holders(id)} \subseteq Role
    BY <1>r
  <2>4. /\ req'[r] \in Busy /\ req'[r].pc = "roles"
        /\ req'[r].ids \subseteq DOMAIN roles
    BY <2>2, <2>3 DEF Busy
  <2>5. roles' = roles
    BY <1>6 DEF ResolveAssignments
  <2> QED
    BY <2>2, <2>4, <2>5 DEF Moved, InFlight, MergedSoFar
<1> QED
  BY <1>1, <1>2, <1>3, <1>4, <1>5, <1>6

LEMMA Updates ==
  ASSUME IInv, NEW r \in Request, Step(r),
         UpdateBegin(r) \/ UpdateWrite(r) \/ UpdateRemove(r) \/ UpdateAdd(r)
  PROVE  Moved(r)
<1>t. TypeOK /\ InFlight(r)
  BY DEF IInv
<1>k. RolesKept
  BY RolesStep
<1>1. /\ req[r].pc \in {"begin", "write", "remove", "add"}
      /\ req[r].id \in Role /\ req[r].change \in Change
      /\ req[r] = [pc |-> req[r].pc, id |-> req[r].id, change |-> req[r].change]
      /\ req[r].id \in DOMAIN roles /\ roles[req[r].id].tenant \in Tenant
      /\ req[r].pc = "remove" => req[r].change.perms # Keep
  BY <1>t, Fields
     DEF InFlight, UpdateBegin, UpdateWrite, UpdateRemove, UpdateAdd
<1>2. CASE Become(r, Idle)
  BY <1>2, <1>t, Ends
<1>3. CASE ~Become(r, Idle)
  <2>1. PICK pc \in {"write", "remove", "add", "updated"} :
          /\ Become(r, [req[r] EXCEPT !.pc = pc])
          /\ pc \in {"remove", "add"} => req[r].change.perms # Keep
    BY <1>1, <1>3 DEF UpdateBegin, UpdateWrite, UpdateRemove, UpdateAdd
  <2>2. [req[r] EXCEPT !.pc = pc]
          = [pc |-> pc, id |-> req[r].id, change |-> req[r].change]
    BY <1>1
  <2>3. /\ req'[r] = [pc |-> pc, id |-> req[r].id, change |-> req[r].change]
        /\ req' = [req EXCEPT ![r] = req'[r]]
    BY <2>1, <2>2, <1>t DEF TypeOK, Become
  <2>4. /\ req'[r] \in Busy /\ req'[r].pc = pc
        /\ req'[r].id = req[r].id /\ req'[r].change = req[r].change
    BY <2>3, <1>1 DEF Busy
  <2>5. req[r].id \in DOMAIN roles' /\ roles'[req[r].id].tenant \in Tenant
    BY <1>1, <1>k DEF RolesKept
  <2> QED
    BY <2>1, <2>3, <2>4, <2>5 DEF Moved, InFlight, MergedSoFar
<1> QED
  BY <1>2, <1>3

\* The resolver reads, and its loop widens what it merged so far.
LEMMA Resolves ==
  ASSUME IInv, NEW r \in Request,
         ResolveRoles(r) \/ ResolvePermissions(r) \/ Merge(r)
  PROVE  Moved(r)
<1>t. TypeOK /\ InFlight(r) /\ MergedSoFar(r)
  BY DEF IInv
<1>k. roles' = roles
  BY DEF ResolveRoles, ResolvePermissions, Merge
<1>1. CASE ResolveRoles(r)
  <2> DEFINE ids == {id \in req[r].ids : roles[id].active}
  <2>1. /\ req[r].member \in Member
        /\ ids \subseteq Role /\ ids \subseteq DOMAIN roles
    BY <1>1, <1>t, Fields DEF ResolveRoles, InFlight
  <2>3. /\ req'[r] = [pc |-> "perms", member |-> req[r].member, ids |-> ids]
        /\ req' = [req EXCEPT ![r] = req'[r]]
    BY <1>1, <1>t DEF ResolveRoles, TypeOK, Become
  <2> HIDE DEF ids
  <2>4. req'[r] \in Busy /\ req'[r].pc = "perms" /\ req'[r].ids = ids
    BY <2>1, <2>3 DEF Busy
  <2> QED
    BY <2>1, <2>3, <2>4, <1>k DEF Moved, InFlight, MergedSoFar
<1>2. CASE ResolvePermissions(r)
  <2> DEFINE read == UNION {{[key |-> k, scope |-> roles[id].perms[k].scope] :
                               k \in DOMAIN roles[id].perms} : id \in req[r].ids}
  <2>1. /\ req[r].member \in Member /\ req[r].ids \subseteq DOMAIN roles
    BY <1>2, <1>t, Fields DEF ResolvePermissions, InFlight
  <2>2. ASSUME NEW id \in req[r].ids, NEW k \in DOMAIN roles[id].perms
        PROVE  [key |-> k, scope |-> roles[id].perms[k].scope] \in Read
    <3>1. roles[id].perms \in Grants
      BY <2>1, <1>t DEF TypeOK, Row
    <3>2. PICK K \in SUBSET Key :
            roles[id].perms \in [K -> [scope : Scope, active : BOOLEAN]]
      BY <3>1 DEF Grants
    <3> QED
      BY <3>2 DEF Read
  <2>3. read \subseteq Read
    BY <2>2
  <2>4. /\ req'[r] = [pc |-> "merge", member |-> req[r].member,
                      read |-> read, rest |-> read, result |-> << >>]
        /\ req' = [req EXCEPT ![r] = req'[r]]
    BY <1>2, <1>t DEF ResolvePermissions, TypeOK, Become
  <2> HIDE DEF read
  <2>5. Widest(read \ read) = << >>
    BY DEF Widest
  <2>6. << >> \in Body
    BY <2>5, WidestType
  <2>7. /\ req'[r] \in Busy /\ req'[r].pc = "merge" /\ req'[r].rest = read
        /\ req'[r].read = read /\ req'[r].result = << >>
    BY <2>1, <2>3, <2>4, <2>6 DEF Busy
  <2> QED
    BY <2>4, <2>5, <2>7 DEF Moved, InFlight, MergedSoFar
<1>3. CASE Merge(r)
  <2>1. PICK p \in req[r].rest :
          Become(r, [pc |-> "merge", member |-> req[r].member,
                     read |-> req[r].read, rest |-> req[r].rest \ {p},
                     result |-> Widen(req[r].result, p)])
    BY <1>3 DEF Merge
  <2>2. /\ req[r].member \in Member /\ req[r].read \subseteq Read
        /\ req[r].rest \subseteq req[r].read
        /\ req[r].result = Widest(req[r].read \ req[r].rest)
        /\ req[r] = [pc |-> "merge", member |-> req[r].member,
                     read |-> req[r].read, rest |-> req[r].rest,
                     result |-> req[r].result]
    BY <1>3, <1>t, Fields DEF Merge, MergedSoFar
  <2> DEFINE rest == req[r].rest \ {p}
             result == Widest(req[r].read \ rest)
  <2>3. Widen(req[r].result, p) = result
    <3>1. req[r].read \ rest = (req[r].read \ req[r].rest) \cup {p}
      BY <2>1, <2>2
    <3>2. (req[r].read \ req[r].rest) \in SUBSET Read /\ p \in Read
      BY <2>1, <2>2
    <3> QED
      BY <2>2, <3>1, <3>2, WidenWidest
  <2>4. /\ req'[r] = [pc |-> "merge", member |-> req[r].member,
                      read |-> req[r].read, rest |-> rest, result |-> result]
        /\ req' = [req EXCEPT ![r] = req'[r]]
    BY <2>1, <2>3, <1>t DEF TypeOK, Become
  <2>5. result \in Body /\ rest \subseteq req[r].read
    BY <2>2, WidestType
  <2> HIDE DEF rest, result
  <2>6. req'[r] \in Busy /\ req'[r].pc = "merge" /\ req'[r].rest = rest
        /\ req'[r].read = req[r].read /\ req'[r].result = result
    BY <2>2, <2>4, <2>5 DEF Busy
  <2>7. MergedSoFar(r)'
    BY <2>5, <2>6 DEF MergedSoFar, result
  <2> QED
    BY <2>4, <2>6, <2>7 DEF Moved, InFlight
<1> QED
  BY <1>1, <1>2, <1>3

\* The history variable collects roles.
LEMMA StaleStep ==
  ASSUME TypeOK, Watch
  PROVE  stale' \in [Request -> [unassigned : SUBSET Role, inactive : SUBSET Role]]
<1> DEFINE S == [unassigned : SUBSET Role, inactive : SUBSET Role]
<1>1. \A m : Missing(m) \in S /\ (Missing(m))' \in S
  BY DEF Missing
<1>2. Fresh \in S /\ \A q \in Request : stale[q] \in S
  BY DEF Fresh, TypeOK
<1>3. ASSUME NEW x \in S, NEW y \in S
      PROVE  [unassigned |-> x.unassigned \cap y.unassigned,
              inactive |-> x.inactive \cap y.inactive] \in S
  OBVIOUS
<1> QED
  BY <1>1, <1>2, <1>3 DEF Watch

LEMMA ReqStep == ASSUME IInv, NEW r \in Request, Step(r)
                 PROVE  Moved(r)
<1>1. CASE UpdateBegin(r) \/ UpdateWrite(r) \/ UpdateRemove(r) \/ UpdateAdd(r)
  BY <1>1, Updates
<1>2. CASE \/ CreateRead(r) \/ UpdateRead(r) \/ AssignRead(r)
           \/ RevokeRead(r) \/ DeleteRead(r) \/ ResolveAssignments(r)
  BY <1>2, Starts
<1>3. CASE ResolveRoles(r) \/ ResolvePermissions(r) \/ Merge(r)
  BY <1>3, Resolves
<1>4. CASE Become(r, Idle)
  BY <1>4, Ends DEF IInv
<1> QED
  BY <1>1, <1>2, <1>3, <1>4
     DEF Step, Update, CreateWrite, UpdateAnswer, AssignWrite, RevokeWrite,
         DeleteWrite, ResolveAnswer, Abort

LEMMA Inductive == IInv /\ [Next]_vars => IInv'
<1> SUFFICES ASSUME IInv, [Next]_vars PROVE IInv'
  OBVIOUS
<1>1. CASE UNCHANGED vars
  BY <1>1 DEF vars, IInv, TypeOK, InFlight, SystemKept, AssignmentsStayInTenant,
              ActiveNamesUnique, MergedSoFar
<1>2. CASE Next
  <2>1. PICK r \in Request : Step(r) /\ Watch
    BY <1>2 DEF Next
  <2>2. Moved(r) /\ RolesKept /\ RolesTyped' /\ ActiveNamesUnique'
    BY <2>1, ReqStep, RolesStep
  <2>3. TypeOK'
    <3>1. req' \in [Request -> {Idle} \cup Busy]
      BY <2>2 DEF Moved, IInv, TypeOK
    <3>2. stale' \in [Request -> [unassigned : SUBSET Role, inactive : SUBSET Role]]
      BY <2>1, StaleStep DEF IInv
    <3> QED
      BY <2>1, <2>2, <3>1, <3>2, AssignedStep DEF TypeOK, RolesTyped
  <2>4. ASSUME NEW q \in Request PROVE InFlight(q)' /\ MergedSoFar(q)'
    <3>1. CASE q = r
      BY <3>1, <2>2 DEF Moved
    <3>2. CASE q # r
      <4>1. req'[q] = req[q]
        BY <3>2, <2>2 DEF Moved, IInv, TypeOK
      <4>2. InFlight(q) /\ MergedSoFar(q) /\ RolesKept
        BY <2>2 DEF IInv
      <4> QED
        BY <4>1, <4>2 DEF InFlight, MergedSoFar, RolesKept
    <3> QED
      BY <3>1, <3>2
  <2>5. SystemKept'
    <3>1. SystemKept
      BY DEF IInv
    <3> QED
      BY <2>2, <3>1 DEF RolesKept, SystemKept
  <2> QED
    BY <2>1, <2>2, <2>3, <2>4, <2>5, AssignedStep DEF IInv
<1> QED
  BY <1>1, <1>2

LEMMA Initially == Init => IInv
<1> SUFFICES ASSUME Init PROVE IInv
  OBVIOUS
<1>1. /\ roles = SystemRole /\ assigned = << >>
      /\ req = [r \in Request |-> Idle] /\ stale = [r \in Request |-> Fresh]
      /\ Idle.pc = "idle" /\ DOMAIN << >> = {}
  BY DEF Init, Idle
<1>2. TypeOK
  BY <1>1, RbacAssumption DEF TypeOK, Fresh
<1> QED
  BY <1>1, <1>2, RbacAssumption
     DEF IInv, InFlight, SystemKept, AssignmentsStayInTenant,
         ActiveNamesUnique, MergedSoFar

LEMMA Invariance == Spec => []IInv
BY Initially, Inductive, PTL DEF Spec

-----------------------------------------------------------------------------
\* Every value RbacService stores or carries from one query to the next has
\* its type, for any numbers of tenants, members, roles and requests.
THEOREM TypeCorrect == Spec => []TypeOK
<1>1. IInv => TypeOK
  BY DEF IInv
<1> QED
  BY <1>1, Invariance, PTL

\* assignRole never hands a tenant's custom role to a member of another tenant,
\* for any number of concurrent requests.
THEOREM RolesStayInTenant == Spec => []AssignmentsStayInTenant
<1>1. IInv => AssignmentsStayInTenant
  BY DEF IInv
<1> QED
  BY <1>1, Invariance, PTL

\* No two active roles of a tenant share a name, though createRole's check and
\* its insert are two round trips and updateRole renames unchecked.
THEOREM NamesUnique == Spec => []ActiveNamesUnique
<1>1. IInv => ActiveNamesUnique
  BY DEF IInv
<1> QED
  BY <1>1, Invariance, PTL

\* The resolver returns the union with the widest scope of each permission, for
\* any set of rows in any order.
THEOREM ResolutionIsWidest == Spec => []ResolvesWidest
<1>1. IInv => ResolvesWidest
  <2> SUFFICES ASSUME IInv, NEW r \in Request, Resolved(r)
               PROVE  req[r].result = Widest(req[r].read)
    BY DEF ResolvesWidest
  <2>1. req[r].result = Widest(req[r].read \ req[r].rest) /\ req[r].rest = {}
    BY DEF IInv, MergedSoFar, Resolved
  <2>2. req[r].read \ {} = req[r].read
    OBVIOUS
  <2> QED
    BY <2>1, <2>2
<1> QED
  BY <1>1, Invariance, PTL

\* updateRole and deleteRole never reach a system role.
THEOREM SystemRolesImmutable == Spec => SystemRolesUntouched
<1>1. IInv /\ [Next]_vars =>
        [\A id \in DOMAIN SystemRole : roles'[id] = roles[id]]_vars
  <2> SUFFICES ASSUME IInv, Next
               PROVE  \A id \in DOMAIN SystemRole : roles'[id] = roles[id]
    OBVIOUS
  <2>1. PICK r \in Request : Step(r)
    BY DEF Next
  <2> QED
    BY <2>1, RolesStep DEF RolesKept
<1> QED
  BY <1>1, Invariance, PTL DEF Spec, SystemRolesUntouched

-----------------------------------------------------------------------------
\* What a resolution has read was in force at some moment since it began: the
\* roles were assigned when it read the assignments and active when it read
\* them, and stale only loses roles.
InForce(r) ==
  /\ req[r].pc \in {"roles", "perms"} =>
       \A id \in req[r].ids : id \notin stale[r].unassigned
  /\ req[r].pc = "perms" => \A id \in req[r].ids : id \notin stale[r].inactive
  /\ req[r].pc = "merge" =>
       \A p \in req[r].read :
         \E id \in DOMAIN roles \ (stale[r].unassigned \cup stale[r].inactive) :
           p.key \in DOMAIN roles[id].perms

GrantInv == IInv /\ \A r \in Request : InForce(r)

\* Permissions are soft-deleted: a role keeps the keys it has had.
LEMMA KeysKept ==
  ASSUME IInv, NEW r \in Request, Step(r)
  PROVE  \A id \in DOMAIN roles : DOMAIN roles[id].perms \subseteq DOMAIN roles'[id].perms
<1>1. /\ roles \in [DOMAIN roles -> Row]
      /\ \A id \in DOMAIN roles : roles[id] \in Row
  BY DEF IInv, TypeOK
<1>2. CASE CreateWrite(r)
  BY <1>2 DEF CreateWrite
<1>3. CASE UpdateWrite(r) /\ roles' # roles
  <2>1. roles' = [roles EXCEPT ![req[r].id] = Updated(req[r].id, req[r].change)]
    BY <1>3 DEF UpdateWrite
  <2>2. ASSUME NEW id \in DOMAIN roles
        PROVE  Updated(id, req[r].change).perms = roles[id].perms
    BY <1>1 DEF Updated, Row
  <2> QED BY <2>1, <2>2
<1>4. CASE UpdateRemove(r)
  <2> DEFINE old == roles[req[r].id].perms
             g == [k \in DOMAIN old |-> [scope |-> old[k].scope, active |-> FALSE]]
  <2>1. roles' = [roles EXCEPT ![req[r].id].perms = g] /\ DOMAIN g = DOMAIN old
    BY <1>4 DEF UpdateRemove
  <2> HIDE DEF g
  <2>2. ASSUME NEW id \in DOMAIN roles PROVE [roles[id] EXCEPT !.perms = g].perms = g
    BY <1>1 DEF Row
  <2> QED BY <2>1, <2>2
<1>5. CASE UpdateAdd(r) /\ roles' # roles
  <2> DEFINE old == roles[req[r].id].perms
             new == req[r].change.perms
             g == [k \in DOMAIN old \cup DOMAIN new |->
                     IF k \in DOMAIN old THEN old[k] ELSE [scope |-> new[k], active |-> TRUE]]
  <2>1. roles' = [roles EXCEPT ![req[r].id].perms = g] /\ DOMAIN old \subseteq DOMAIN g
    BY <1>5 DEF UpdateAdd
  <2> HIDE DEF g
  <2>2. ASSUME NEW id \in DOMAIN roles PROVE [roles[id] EXCEPT !.perms = g].perms = g
    BY <1>1 DEF Row
  <2> QED BY <2>1, <2>2
<1>6. CASE DeleteWrite(r)
  <2>1. ASSUME NEW id \in DOMAIN roles
        PROVE  [roles[id] EXCEPT !.active = FALSE].perms = roles[id].perms
    BY <1>1 DEF Row
  <2> QED BY <1>6, <2>1 DEF DeleteWrite
<1>7. CASE UNCHANGED roles
  BY <1>7
<1> QED
  BY <1>2, <1>3, <1>4, <1>5, <1>6, <1>7
     DEF Step, Update, CreateRead, UpdateRead, UpdateBegin, UpdateAnswer,
         AssignRead, AssignWrite, RevokeRead, RevokeWrite, DeleteRead,
         ResolveAssignments, ResolveRoles, ResolvePermissions, Merge,
         ResolveAnswer, Abort

\* While a resolution goes on, stale loses what is no longer missing.
LEMMA StaleShrinks ==
  ASSUME NEW r \in Request, Watch, req[r] # Idle,
         req'[r].pc \in {"roles", "perms", "merge"}
  PROVE  /\ stale'[r].unassigned \subseteq stale[r].unassigned
         /\ stale'[r].inactive \subseteq stale[r].inactive
         /\ stale'[r].inactive \subseteq Missing(req[r].member)'.inactive
<1>1. stale'[r] = [unassigned |-> stale[r].unassigned \cap Missing(req[r].member)'.unassigned,
                   inactive |-> stale[r].inactive \cap Missing(req[r].member)'.inactive]
  BY DEF Watch
<1> QED BY <1>1

\* A resolution's own step keeps what it has read in force.
LEMMA OwnStep ==
  ASSUME GrantInv, NEW r \in Request, Step(r), Watch
  PROVE  InForce(r)'
<1>t. IInv /\ TypeOK /\ InFlight(r) /\ InForce(r) /\ Idle.pc = "idle"
  BY DEF GrantInv, IInv, Idle
<1>1. CASE ResolveAssignments(r)
  <2>1. PICK m \in Member :
          Become(r, [pc |-> "roles", member |-> m,
                     ids |-> {id \in DOMAIN roles : m \in Holders(id)}])
    BY <1>1 DEF ResolveAssignments
  <2>2. /\ req[r] = Idle /\ req'[r].pc = "roles" /\ req'[r].member = m
        /\ req'[r].ids = {id \in DOMAIN roles : m \in Holders(id)}
    BY <1>1, <2>1, <1>t DEF ResolveAssignments, Become, TypeOK
  <2>3. stale'[r] = Missing(m)
    BY <2>2 DEF Watch
  <2>4. stale'[r].unassigned = {id \in Role : m \notin Holders(id)}
    BY <2>3 DEF Missing
  <2> QED
    BY <2>2, <2>4 DEF InForce
<1>2. CASE ResolveRoles(r)
  <2>1. /\ req[r].pc = "roles" /\ req[r] # Idle /\ UNCHANGED roles
        /\ req'[r].pc = "perms" /\ req'[r].member = req[r].member
        /\ req'[r].ids = {id \in req[r].ids : roles[id].active}
    BY <1>2, <1>t DEF ResolveRoles, Become, TypeOK
  <2>2. /\ stale'[r].unassigned \subseteq stale[r].unassigned
        /\ stale'[r].inactive \subseteq Missing(req[r].member)'.inactive
    BY <2>1, StaleShrinks
  <2>3. \A id \in req'[r].ids : id \in DOMAIN roles' /\ roles'[id].active
    BY <2>1, <1>t DEF InFlight
  <2>4. Missing(req[r].member)'.inactive
          = {id \in Role : id \in DOMAIN roles' => ~roles'[id].active}
    BY DEF Missing
  <2>5. \A id \in req'[r].ids : id \notin stale'[r].inactive
    BY <2>2, <2>3, <2>4
  <2> QED
    BY <2>1, <2>2, <2>5, <1>t DEF InForce
<1>3. CASE ResolvePermissions(r)
  <2> DEFINE read == UNION {{[key |-> k, scope |-> roles[id].perms[k].scope] :
                               k \in DOMAIN roles[id].perms} : id \in req[r].ids}
  <2>1. /\ req[r].pc = "perms" /\ req[r] # Idle /\ UNCHANGED roles
        /\ req'[r].pc = "merge" /\ req'[r].read = read
    BY <1>3, <1>t DEF ResolvePermissions, Become, TypeOK
  <2>2. /\ stale'[r].unassigned \subseteq stale[r].unassigned
        /\ stale'[r].inactive \subseteq stale[r].inactive
    BY <2>1, StaleShrinks
  <2>3. \A id \in req[r].ids :
          id \in DOMAIN roles' \ (stale'[r].unassigned \cup stale'[r].inactive)
    BY <2>1, <2>2, <1>t DEF InForce, InFlight
  <2>4. \A p \in read : \E id \in req[r].ids : p.key \in DOMAIN roles[id].perms
    OBVIOUS
  <2> HIDE DEF read
  <2> QED
    BY <2>1, <2>3, <2>4 DEF InForce
<1>4. CASE Merge(r)
  <2>1. /\ req[r].pc = "merge" /\ req[r] # Idle /\ UNCHANGED roles
        /\ req'[r].pc = "merge" /\ req'[r].read = req[r].read
    BY <1>4, <1>t DEF Merge, Become, TypeOK
  <2>2. /\ stale'[r].unassigned \subseteq stale[r].unassigned
        /\ stale'[r].inactive \subseteq stale[r].inactive
    BY <2>1, StaleShrinks
  <2> QED
    BY <2>1, <2>2, <1>t DEF InForce
<1>5. CASE req'[r].pc \notin {"roles", "perms", "merge"}
  BY <1>5 DEF InForce
<1>6. req'[r].pc \notin {"roles", "perms", "merge"} \/ ResolveAssignments(r)
        \/ ResolveRoles(r) \/ ResolvePermissions(r) \/ Merge(r)
  <2>1. ASSUME NEW state, Become(r, state) PROVE req'[r] = state
    BY <2>1, <1>t DEF Become, TypeOK
  <2>2. CASE Become(r, Idle)
    BY <2>1, <2>2, <1>t
  <2>3. CASE UpdateBegin(r) \/ UpdateWrite(r) \/ UpdateRemove(r) \/ UpdateAdd(r)
    <3>1. req[r] = [pc |-> req[r].pc, id |-> req[r].id, change |-> req[r].change]
      BY <2>3, <1>t, Fields DEF UpdateBegin, UpdateWrite, UpdateRemove, UpdateAdd
    <3>2. PICK pc \in {"write", "remove", "add", "updated"} :
            Become(r, Idle) \/ Become(r, [req[r] EXCEPT !.pc = pc])
      BY <2>3 DEF UpdateBegin, UpdateWrite, UpdateRemove, UpdateAdd
    <3>3. [req[r] EXCEPT !.pc = pc].pc = pc
      BY <3>1
    <3> QED
      BY <3>2, <3>3, <2>1, <2>2
  <2>4. CASE CreateRead(r)
    BY <2>4, <2>1 DEF CreateRead
  <2>5. CASE UpdateRead(r)
    BY <2>5, <2>1 DEF UpdateRead
  <2>6. CASE AssignRead(r)
    BY <2>6, <2>1 DEF AssignRead
  <2>7. CASE RevokeRead(r)
    BY <2>7, <2>1 DEF RevokeRead
  <2>8. CASE DeleteRead(r)
    BY <2>8, <2>1 DEF DeleteRead
  <2> QED
    BY <2>2, <2>3, <2>4, <2>5, <2>6, <2>7, <2>8
       DEF Step, Update, CreateWrite, UpdateAnswer, AssignWrite, RevokeWrite,
           DeleteWrite, ResolveAnswer, Abort
<1> QED
  BY <1>1, <1>2, <1>3, <1>4, <1>5, <1>6

\* Another request's step leaves it so: roles stay, with their keys.
LEMMA OthersStep ==
  ASSUME GrantInv, NEW r \in Request, Step(r), Watch,
         NEW q \in Request, q # r
  PROVE  InForce(q)'
<1>1. IInv /\ InForce(q) /\ Moved(r) /\ RolesKept
  BY ReqStep, RolesStep DEF GrantInv
<1>2. req'[q] = req[q]
  BY <1>1 DEF Moved, IInv, TypeOK
<1>3. CASE req[q].pc \in {"roles", "perms", "merge"}
  <2>1. req[q] # Idle
    BY <1>3 DEF Idle
  <2>2. /\ stale'[q].unassigned \subseteq stale[q].unassigned
        /\ stale'[q].inactive \subseteq stale[q].inactive
    BY <1>2, <1>3, <2>1, StaleShrinks
  <2>3. \A id \in DOMAIN roles : /\ id \in DOMAIN roles'
                                 /\ DOMAIN roles[id].perms \subseteq DOMAIN roles'[id].perms
    BY <1>1, KeysKept DEF RolesKept
  <2> QED
    BY <1>1, <1>2, <2>2, <2>3 DEF InForce
<1> QED
  BY <1>2, <1>3 DEF InForce

LEMMA GrantInductive == GrantInv /\ [Next]_vars => GrantInv'
<1> SUFFICES ASSUME GrantInv, [Next]_vars PROVE GrantInv'
  OBVIOUS
<1>1. IInv'
  BY Inductive DEF GrantInv
<1>2. CASE UNCHANGED vars
  BY <1>1, <1>2 DEF vars, GrantInv, InForce
<1>3. CASE Next
  <2>1. PICK r \in Request : Step(r) /\ Watch
    BY <1>3 DEF Next
  <2> QED
    BY <1>1, <2>1, OwnStep, OthersStep DEF GrantInv
<1> QED
  BY <1>2, <1>3

\* resolvePermissions grants nothing on the strength of a role that was revoked
\* or deactivated before it began, for any number of concurrent requests.
THEOREM RevokedGrantNothing == Spec => []RevokedRolesGrantNothing
<1>1. Init => GrantInv
  <2> SUFFICES ASSUME Init PROVE GrantInv
    OBVIOUS
  <2>1. \A r \in Request : req[r].pc = "idle"
    BY DEF Init, Idle
  <2> QED
    BY <2>1, Initially DEF GrantInv, InForce
<1>2. GrantInv => RevokedRolesGrantNothing
  <2> SUFFICES ASSUME GrantInv, NEW r \in Request, Resolved(r),
                      NEW k \in DOMAIN req[r].result
               PROVE  \E id \in DOMAIN roles
                               \ (stale[r].unassigned \cup stale[r].inactive) :
                        k \in DOMAIN roles[id].perms
    BY DEF RevokedRolesGrantNothing
  <2>1. req[r].pc = "merge" /\ req[r].result = Widest(req[r].read)
    <3>1. /\ req[r].pc = "merge" /\ req[r].rest = {}
          /\ req[r].result = Widest(req[r].read \ req[r].rest)
      BY DEF Resolved, GrantInv, IInv, MergedSoFar
    <3>2. req[r].read \ {} = req[r].read
      OBVIOUS
    <3> QED
      BY <3>1, <3>2
  <2>2. PICK p \in req[r].read : p.key = k
    BY <2>1 DEF Widest
  <2> QED
    BY <2>1, <2>2 DEF GrantInv, InForce
<1> QED
  BY <1>1, <1>2, GrantInductive, PTL DEF Spec

-----------------------------------------------------------------------------
\* Until requests overlap, what a call read is still true when it writes.
Checked(r) ==
  /\ req[r].pc = "create" => \A id \in DOMAIN roles :
       roles[id].tenant = req[r].tenant => roles[id].name # req[r].name
  /\ req[r].pc = "revoke" => req[r].pair \in DOMAIN assigned
  /\ req[r].pc = "delete" => Holders(req[r].id) = {}

SerialInv == /\ IInv
             /\ overlap \/ (Alone /\ \A r \in Request : Checked(r))

\* A request alone in progress finds the tables as it left them.
LEMMA StillChecked ==
  ASSUME IInv, Alone, Alone', NEW r \in Request, Step(r),
         NEW q \in Request, Checked(q)
  PROVE  Checked(q)'
<1>t. TypeOK /\ Moved(r) /\ Idle.pc = "idle"
  BY ReqStep DEF IInv, Idle
<1>1. CASE q # r /\ req[q] # Idle
  <2>1. req[r] = Idle /\ req'[q] = req[q]
    BY <1>1, <1>t DEF Alone, Moved, TypeOK
  <2>2. UNCHANGED <<roles, assigned>>
    BY <2>1, <1>t
       DEF Step, Update, CreateRead, CreateWrite, UpdateRead, UpdateBegin,
           UpdateWrite, UpdateRemove, UpdateAdd, UpdateAnswer, AssignRead,
           AssignWrite, RevokeRead, RevokeWrite, DeleteRead, DeleteWrite,
           ResolveAssignments, ResolveRoles, ResolvePermissions, Merge,
           ResolveAnswer, Abort
  <2> QED
    BY <2>1, <2>2 DEF Checked, Holders
<1>2. CASE q # r /\ req[q] = Idle
  <2>1. req'[q].pc = "idle"
    BY <1>2, <1>t DEF Moved, TypeOK
  <2> QED
    BY <2>1 DEF Checked
<1>3. CASE q = r
  <2>1. ASSUME NEW state, Become(r, state) PROVE req'[r] = state
    BY <2>1, <1>t DEF Become, TypeOK
  <2>2. CASE Become(r, Idle)
    BY <1>3, <2>1, <2>2, <1>t DEF Checked
  <2>3. CASE DeleteRead(r)
    <3>1. PICK id \in DOMAIN roles : /\ Holders(id) = {} /\ UNCHANGED assigned
                                     /\ Become(r, [pc |-> "delete", id |-> id])
      BY <2>3 DEF DeleteRead
    <3>2. req'[r].pc = "delete" /\ req'[r].id = id
      BY <3>1, <2>1
    <3> QED
      BY <1>3, <3>1, <3>2 DEF Checked, Holders
  <2>4. CASE UpdateBegin(r) \/ UpdateWrite(r) \/ UpdateRemove(r) \/ UpdateAdd(r)
    <3>1. req[r] = [pc |-> req[r].pc, id |-> req[r].id, change |-> req[r].change]
      BY <2>4, <1>t, Fields DEF UpdateBegin, UpdateWrite, UpdateRemove, UpdateAdd
    <3>2. PICK pc \in {"write", "remove", "add", "updated"} :
            Become(r, Idle) \/ Become(r, [req[r] EXCEPT !.pc = pc])
      BY <2>4 DEF UpdateBegin, UpdateWrite, UpdateRemove, UpdateAdd
    <3>3. [req[r] EXCEPT !.pc = pc].pc = pc
      BY <3>1
    <3> QED
      BY <1>3, <3>2, <3>3, <2>1, <2>2 DEF Checked
  <2>5. CASE CreateRead(r)
    <3>1. PICK t \in Tenant, n \in Name, p \in Body :
            /\ ~\E id \in DOMAIN roles : roles[id].tenant = t /\ roles[id].name = n
            /\ Become(r, [pc |-> "create", tenant |-> t, name |-> n, perms |-> p])
      BY <2>5 DEF CreateRead
    <3>2. req'[r].pc = "create" /\ req'[r].tenant = t /\ req'[r].name = n /\ roles' = roles
      BY <2>5, <3>1, <2>1 DEF CreateRead
    <3> QED
      BY <1>3, <3>1, <3>2 DEF Checked
  <2>6. CASE UpdateRead(r)
    BY <1>3, <2>6, <2>1 DEF UpdateRead, Checked
  <2>7. CASE AssignRead(r)
    BY <1>3, <2>7, <2>1 DEF AssignRead, Checked
  <2>8. CASE RevokeRead(r)
    <3>1. PICK pair \in DOMAIN assigned : Become(r, [pc |-> "revoke", pair |-> pair])
      BY <2>8 DEF RevokeRead
    <3>2. req'[r].pc = "revoke" /\ req'[r].pair = pair /\ assigned' = assigned
      BY <2>8, <3>1, <2>1 DEF RevokeRead
    <3> QED
      BY <1>3, <3>2 DEF Checked
  <2>9. CASE ResolveAssignments(r) \/ ResolveRoles(r) \/ ResolvePermissions(r)
    <3>1. req'[r].pc \in {"roles", "perms", "merge"}
      <4>1. CASE ResolveAssignments(r)
        BY <4>1, <2>1 DEF ResolveAssignments
      <4>2. CASE ResolveRoles(r)
        BY <4>2, <2>1 DEF ResolveRoles
      <4>3. CASE ResolvePermissions(r)
        BY <4>3, <2>1 DEF ResolvePermissions
      <4> QED
        BY <2>9, <4>1, <4>2, <4>3
    <3> QED
      BY <1>3, <3>1 DEF Checked
  <2>10. CASE Merge(r)
    BY <1>3, <2>10, <2>1 DEF Merge, Checked
  <2> QED
    BY <2>2, <2>3, <2>4, <2>5, <2>6, <2>7, <2>8, <2>9, <2>10
       DEF Step, Update, CreateWrite, UpdateAnswer, AssignWrite, RevokeWrite,
           DeleteWrite, ResolveAnswer, Abort
<1> QED
  BY <1>1, <1>2, <1>3

-----------------------------------------------------------------------------
\* What each write is in the contract.

\* createRole: the name checked is still free.
LEMMA CreateContracted ==
  ASSUME IInv, NEW r \in Request, CreateWrite(r), Checked(r)
  PROVE  UNCHANGED <<roles, assigned>> \/ Contract!Next
<1>1. req[r].tenant \in Tenant /\ req[r].name \in Name /\ req[r].perms \in Body
  BY Fields DEF IInv, CreateWrite
<1>2. PICK id \in Role \ DOMAIN roles :
        \/ roles' = roles
        \/ roles' = [i \in DOMAIN roles \cup {id} |->
                       IF i = id THEN NewRole(req[r]) ELSE roles[i]]
  BY DEF CreateWrite
<1>3. CASE roles' # roles
  <2>1. Contract!Create(id, req[r].tenant, req[r].name, req[r].perms)
    BY <1>2, <1>3
       DEF CreateWrite, Checked, NewRole, Contract!Create, Contract!With, Contract!Granted
  <2> QED
    BY <1>1, <2>1 DEF Contract!Next
<1> QED
  BY <1>3 DEF CreateWrite

\* A role a request changes is a row of one of its own tenant's.
LEMMA OwnRow ==
  ASSUME IInv, NEW r \in Request,
         req[r].pc \in {"begin", "write", "remove", "add", "updated", "delete"}
  PROVE  /\ req[r].id \in Contract!Own /\ req[r].id \in DOMAIN roles
         /\ roles[req[r].id] \in Row /\ roles[req[r].id].tenant # NoTenant
BY RbacAssumption DEF IInv, TypeOK, InFlight, Contract!Own

\* updateRole's first write: name and state, checked once more as it writes.
LEMMA EditContracted ==
  ASSUME IInv, NEW r \in Request, UpdateWrite(r)
  PROVE  UNCHANGED <<roles, assigned>> \/ Contract!Next
<1> DEFINE id == req[r].id
           c == req[r].change
           new == Updated(id, c)
<1>1. id \in Contract!Own /\ id \in DOMAIN roles /\ roles[id] \in Row /\ roles[id].tenant # NoTenant
  BY OwnRow DEF UpdateWrite
<1>2. c \in Change
  BY Fields DEF IInv, UpdateWrite
<1>3. /\ new.name \in Name /\ new.active \in BOOLEAN
      /\ new = [tenant |-> roles[id].tenant, name |-> new.name, active |-> new.active,
                perms |-> roles[id].perms]
  <2> DEFINE n == Or(c.name, roles[id].name)
             a == Or(c.active, roles[id].active)
  <2>1. /\ c.name \in Name \cup {Keep} /\ c.active \in BOOLEAN \cup {Keep}
        /\ roles[id].name \in Name /\ roles[id].active \in BOOLEAN
    BY <1>1, <1>2 DEF Row, Change
  <2>2. n \in Name
    BY <2>1 DEF Or
  <2>3. a \in BOOLEAN
    BY <2>1 DEF Or
  <2>4. new = [roles[id] EXCEPT !.name = n, !.active = a]
    BY DEF Updated
  <2> HIDE DEF n, a, new, c, id
  <2>5. new = [tenant |-> roles[id].tenant, name |-> n, active |-> a,
               perms |-> roles[id].perms]
    BY <1>1, <2>4 DEF Row
  <2> QED
    BY <2>2, <2>3, <2>5
<1>4. CASE roles' # roles
  <2>1. /\ ~(new.active /\ NameTaken(id, new.tenant, new.name))
        /\ roles' = [roles EXCEPT ![id] = new] /\ assigned' = assigned
    BY <1>4 DEF UpdateWrite
  <2> HIDE DEF new, c, id
  <2>2. roles' = [roles EXCEPT ![id].name = new.name, ![id].active = new.active]
    BY <1>1, <1>3, <2>1 DEF Row
  <2>3. new.active => \A other \in DOMAIN roles \ {id} :
          roles[other].active /\ roles[other].tenant = roles[id].tenant
            => roles[other].name # new.name
    BY <1>1, <1>3, <2>1 DEF NameTaken
  <2>4. Contract!Edit(id, new.name, new.active)
    BY <2>1, <2>2, <2>3 DEF Contract!Edit
  <2> QED
    BY <1>1, <1>3, <2>4 DEF Contract!Next
<1> QED
  BY <1>4 DEF UpdateWrite

\* Its deleteMany: every permission it had is off.
LEMMA StripContracted ==
  ASSUME IInv, NEW r \in Request, UpdateRemove(r)
  PROVE  Contract!Next
<1>1. /\ req[r].id \in Contract!Own /\ req[r].id \in DOMAIN roles
      /\ roles[req[r].id] \in Row
  BY OwnRow DEF UpdateRemove
<1>2. Contract!Strip(req[r].id)
  BY <1>1 DEF UpdateRemove, Row, Contract!Strip
<1> QED
  BY <1>1, <1>2 DEF Contract!Next

\* Its createMany: nothing is added twice.
LEMMA GrantContracted ==
  ASSUME IInv, NEW r \in Request, UpdateAdd(r)
  PROVE  UNCHANGED <<roles, assigned>> \/ Contract!Next
<1> DEFINE id == req[r].id
           new == req[r].change.perms
<1>1. id \in Contract!Own /\ id \in DOMAIN roles /\ roles[id] \in Row
  BY OwnRow DEF UpdateAdd
<1>2. new \in Body
  BY Fields DEF IInv, UpdateAdd, InFlight, Change
<1>3. CASE roles' # roles
  <2>1. /\ DOMAIN roles[id].perms \cap DOMAIN new = {} /\ assigned' = assigned
        /\ roles' = [roles EXCEPT ![id].perms =
                       [k \in DOMAIN roles[id].perms \cup DOMAIN new |->
                          IF k \in DOMAIN roles[id].perms THEN roles[id].perms[k]
                          ELSE [scope |-> new[k], active |-> TRUE]]]
    BY <1>3 DEF UpdateAdd
  <2> HIDE DEF id, new
  <2>2. Contract!Grant(id, new)
    BY <1>1, <2>1 DEF Row, Contract!Grant, Contract!Granted
  <2> QED
    BY <1>1, <1>2, <2>2 DEF Contract!Next
<1> QED
  BY <1>3 DEF UpdateAdd

\* deleteRole: still nobody holds the role.
LEMMA DeleteContracted ==
  ASSUME IInv, NEW r \in Request, DeleteWrite(r), Checked(r)
  PROVE  Contract!Delete(req[r].id) /\ Contract!Next
<1>1. Contract!Delete(req[r].id)
  BY DEF DeleteWrite, Checked, Holders, Contract!Delete, Contract!Holders
<1>2. req[r].id \in Contract!Own
  BY OwnRow DEF DeleteWrite
<1> QED
  BY <1>1, <1>2 DEF Contract!Next

\* createAssignment: the tenant of the role read has not changed.
LEMMA AssignContracted ==
  ASSUME IInv, NEW r \in Request, AssignWrite(r)
  PROVE  Contract!Next
<1>1. PICK m \in Member, id \in Role : req[r].pair = <<m, id>>
  <2>1. req[r].pair \in Pair
    BY Fields DEF IInv, AssignWrite
  <2> QED
    BY <2>1 DEF Pair
<1>2. id \in DOMAIN roles /\ roles[id].tenant \in {NoTenant, TenantOf[m]}
  BY <1>1 DEF IInv, InFlight, AssignWrite
<1>3. Contract!Assign(m, id)
  BY <1>1, <1>2 DEF AssignWrite, Assigned, Contract!Assign, Contract!With
<1> QED
  BY <1>2, <1>3 DEF Contract!Next

\* deleteAssignment: the assignment read is still there.
LEMMA RevokeContracted ==
  ASSUME IInv, NEW r \in Request, RevokeWrite(r), Checked(r)
  PROVE  Contract!Next
<1>1. req[r].pair \in DOMAIN assigned /\ assigned \in [DOMAIN assigned -> BOOLEAN]
  BY DEF RevokeWrite, Checked, IInv, TypeOK
<1>2. DOMAIN assigned \cup {req[r].pair} = DOMAIN assigned
  BY <1>1
<1>3. Contract!Revoke(req[r].pair)
  BY <1>1, <1>2 DEF RevokeWrite, Assigned, Contract!Revoke
<1> QED
  BY <1>1, <1>3 DEF Contract!Next

\* Until requests overlap, every write of the service is a step of the contract
\* of roles, for any number of tenants, members, roles and requests.
THEOREM SerialContract == WatchedSpec => SerialImplementsContract
<1>1. WatchedInit => SerialInv /\ Contract!Init
  BY Initially DEF WatchedInit, SerialInv, Init, Alone, Checked, Idle, Contract!Init
<1>2. SerialInv /\ [WatchedNext]_all => SerialInv'
  <2> SUFFICES ASSUME SerialInv, [WatchedNext]_all PROVE SerialInv'
    OBVIOUS
  <2>1. CASE UNCHANGED all
    BY <2>1, Inductive DEF all, vars, SerialInv, Alone, Checked, Holders
  <2>2. CASE WatchedNext
    <3>1. PICK r \in Request : Step(r) /\ Watching
      BY <2>2 DEF WatchedNext
    <3>2. IInv' /\ IInv /\ Moved(r)
      BY <3>1, Inductive, ReqStep DEF SerialInv, Watching, Next
    <3>3. CASE overlap'
      BY <3>2, <3>3 DEF SerialInv
    <3>4. CASE ~overlap'
      <4>1. Alone /\ Alone' /\ \A q \in Request : Checked(q)
        BY <3>1, <3>4 DEF Watching, SerialInv
      <4>2. \A q \in Request : Checked(q)'
        BY <3>1, <3>2, <4>1, StillChecked
      <4> QED
        BY <3>2, <4>1, <4>2 DEF SerialInv
    <3> QED
      BY <3>3, <3>4
  <2> QED
    BY <2>1, <2>2
<1>3. SerialInv /\ [WatchedNext]_all =>
        [overlap' \/ /\ Contract!Next
                     /\ \A r \in Request : DeleteWrite(r) => Contract!Delete(req[r].id)
         ]_<<roles, assigned>>
  <2> SUFFICES ASSUME SerialInv, WatchedNext, ~overlap'
               PROVE  \/ UNCHANGED <<roles, assigned>>
                      \/ /\ Contract!Next
                         /\ \A r \in Request : DeleteWrite(r) => Contract!Delete(req[r].id)
    BY DEF all
  <2>1. IInv /\ \A r \in Request : Checked(r)
    BY DEF SerialInv, WatchedNext, Watching
  <2>2. \A r \in Request : DeleteWrite(r) => Contract!Delete(req[r].id)
    BY <2>1, DeleteContracted
  <2>3. PICK r \in Request : Step(r)
    BY DEF WatchedNext
  <2>4. CASE CreateWrite(r) \/ UpdateWrite(r) \/ UpdateRemove(r) \/ UpdateAdd(r)
    BY <2>1, <2>2, <2>4, CreateContracted, EditContracted, StripContracted, GrantContracted
  <2>5. CASE AssignWrite(r) \/ RevokeWrite(r) \/ DeleteWrite(r)
    BY <2>1, <2>2, <2>5, AssignContracted, RevokeContracted, DeleteContracted
  <2>6. \/ CreateWrite(r) \/ UpdateWrite(r) \/ UpdateRemove(r) \/ UpdateAdd(r)
        \/ AssignWrite(r) \/ RevokeWrite(r) \/ DeleteWrite(r)
        \/ UNCHANGED <<roles, assigned>>
    BY <2>3
       DEF Step, Update, CreateRead, UpdateRead, UpdateBegin, UpdateAnswer, AssignRead,
           RevokeRead, DeleteRead, ResolveAssignments, ResolveRoles, ResolvePermissions,
           Merge, ResolveAnswer, Abort
  <2> QED
    BY <2>4, <2>5, <2>6
<1> QED
  BY <1>1, <1>2, <1>3, PTL DEF WatchedSpec, SerialImplementsContract
=============================================================================
