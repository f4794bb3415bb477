----------------------------- MODULE TenantScope -----------------------------
(***************************************************************************)
(* Tenant isolation of the one tenant-scoped table, tenant_users: requests *)
(* whose TenantUser operations pass through tenantScopedExtension, each in *)
(* an interactive transaction on a pooled connection where two set_config  *)
(* calls tell the row-level security policy who is asking.                 *)
(*                                                                         *)
(* A membership is named by its <<tenant, user>>, which the table keeps    *)
(* unique.  Context holds what TenantContextMiddleware and                 *)
(* OwnershipScopeInterceptor may leave in AsyncLocalStorage.               *)
(***************************************************************************)
CONSTANTS Tenant, User,
          Request,        \* requests served at the same time
          Conn,           \* connections of the pool
          Context,        \* the request contexts that occur
          RlsEnforced,    \* the database role is subject to the policy
          NoTenant,       \* no tenant in a context; app.tenant_id never set
          Blank,          \* app.tenant_id = '', what a finished SET LOCAL leaves
          NoConn

ContextType == [tenant : Tenant \cup {NoTenant}, user : User,
                admin : BOOLEAN, scope : {"ANY", "OWN"}]

ASSUME ScopeAssumption == /\ Context \subseteq ContextType
                          /\ RlsEnforced \in BOOLEAN
                          /\ NoTenant \notin Tenant /\ Blank \notin Tenant
                          /\ NoTenant # Blank
                          /\ NoConn \notin Conn

VARIABLES
  rows,    \* tenant_users: a membership's creator and is_active
  req,     \* what each request is doing
  on,      \* the connection its transaction runs on
  guc      \* app.tenant_id and app.is_platform_admin on each connection

vars == <<rows, req, on, guc>>

Key == Tenant \X User
Row == [creator : User, active : BOOLEAN]

\* The service calls: what TenantUsersService, UsersService.getTenantsForUser
\* ("mine") and the findUnique of switchTenantContext and resolvePermissions
\* ("unique") ask for.  "reread" is the findFirst that follows an updateMany.
Call == [op : {"create"}, user : User]
        \cup [op : {"list"}, tenant : Tenant \cup {NoTenant}, active : BOOLEAN]
        \cup [op : {"get", "update", "deactivate", "reread", "unique"}, key : Key]
        \cup [op : {"mine"}]

Idle == [pc |-> "idle"]
Busy == [pc : {"wait", "begun", "tenantSet", "query"}, ctx : Context, call : Call]

\* Where app.tenant_id stands between transactions.
Unset == {NoTenant, Blank}

Init == /\ rows = << >>
        /\ req = [r \in Request |-> Idle]
        /\ on = [r \in Request |-> NoConn]
        /\ guc = [c \in Conn |-> [tenant |-> NoTenant, admin |-> FALSE]]

InTx(r) == req[r].pc \in {"begun", "tenantSet", "query"}

-----------------------------------------------------------------------------
\* The arguments the extension makes of a call.

IsWrite(call) == call.op \in {"create", "update", "deactivate"}

\* The caller whose reads are filtered.
Filtered(ctx) == ctx.tenant # NoTenant /\ ~ctx.admin

\* The keys both injectWriteContext and injectReadFilter add to `where`.
Scoped(ctx, k) ==
  k[1] = ctx.tenant /\ (ctx.scope = "OWN" => rows[k].creator = ctx.user)

\* injectReadFilter assigns tenantId and isActive over what the caller asked.
ReadMatches(ctx, call, k) ==
  /\ CASE call.op = "list" -> \/ Filtered(ctx)
                              \/ /\ rows[k].active = call.active
                                 /\ call.tenant \in {NoTenant, k[1]}
       [] call.op = "mine" -> k[2] = ctx.user /\ rows[k].active
       [] OTHER            -> k = call.key
  /\ Filtered(ctx) => Scoped(ctx, k) /\ rows[k].active

\* Faulty variant: like reads, writes of a platform admin are not scoped.
WriteMatchesNotAdmin(ctx, call, k) ==
  k = call.key /\ (Filtered(ctx) => Scoped(ctx, k))

\* injectWriteContext scopes the writes of a platform admin too.
WriteMatches(ctx, call, k) ==
  k = call.key /\ (ctx.tenant # NoTenant => Scoped(ctx, k))

\* tenant_isolation_policy on connection c.
Allows(c, k) == guc[c].admin \/ guc[c].tenant = k[1]

\* ''::uuid is an error, not null.
PolicyFails(c) == RlsEnforced /\ ~guc[c].admin /\ guc[c].tenant = Blank

\* The rows a request's next statement reads or updates.
Matched(r) ==
  {k \in DOMAIN rows :
     /\ RlsEnforced => Allows(on[r], k)
     /\ IF IsWrite(req[r].call) THEN WriteMatches(req[r].ctx, req[r].call, k)
                                ELSE ReadMatches(req[r].ctx, req[r].call, k)}

-----------------------------------------------------------------------------
\* Faulty variant: set_config without is_local, so that the settings stay.
CloseKeeps(r) ==
  /\ req' = [req EXCEPT ![r] = Idle]
  /\ on' = [on EXCEPT ![r] = NoConn]
  /\ UNCHANGED guc

\* The settings of the transaction on r's connection are undone.
Reset(r) ==
  IF on[r] = NoConn THEN guc
  ELSE [guc EXCEPT ![on[r]] =
          [tenant |-> IF @.tenant = NoTenant THEN NoTenant ELSE Blank,
           admin |-> FALSE]]

\* Commit or rollback, and the answer.
Close(r) ==
  /\ req' = [req EXCEPT ![r] = Idle]
  /\ on' = [on EXCEPT ![r] = NoConn]
  /\ guc' = Reset(r)

\* The extension is entered; a filtered findUnique is answered 500 here and
\* changes nothing, so it is no step.
Start(r, ctx, call) ==
  /\ req[r].pc = "idle"
  /\ ~(call.op = "unique" /\ Filtered(ctx))
  /\ call.op # "reread"
  /\ req' = [req EXCEPT ![r] = [pc |-> "wait", ctx |-> ctx, call |-> call]]
  /\ UNCHANGED <<rows, on, guc>>

\* $transaction gets a connection from the pool.
Begin(r, c) ==
  /\ req[r].pc = "wait"
  /\ \A q \in Request : on[q] # c
  /\ req' = [req EXCEPT ![r].pc = "begun"]
  /\ on' = [on EXCEPT ![r] = c]
  /\ UNCHANGED <<rows, guc>>

\* set_config('app.tenant_id', ...), if the context has a tenant.
SetTenant(r) ==
  /\ req[r].pc = "begun"
  /\ req' = [req EXCEPT ![r].pc = "tenantSet"]
  /\ guc' = IF req[r].ctx.tenant = NoTenant THEN guc
            ELSE [guc EXCEPT ![on[r]].tenant = req[r].ctx.tenant]
  /\ UNCHANGED <<rows, on>>

\* set_config('app.is_platform_admin', 'true'), for a platform admin.
SetAdmin(r) ==
  /\ req[r].pc = "tenantSet"
  /\ req' = [req EXCEPT ![r].pc = "query"]
  /\ guc' = IF req[r].ctx.admin THEN [guc EXCEPT ![on[r]].admin = TRUE] ELSE guc
  /\ UNCHANGED <<rows, on>>

\* Reads.
Read(r) ==
  /\ req[r].pc = "query"
  /\ ~IsWrite(req[r].call) /\ ~PolicyFails(on[r])
  /\ Close(r)
  /\ UNCHANGED rows

\* Faulty variant: the row is created without a tenant in the context.
CreateUntenanted(r) ==
  /\ req[r].pc = "query"
  /\ req[r].call.op = "create" /\ ~PolicyFails(on[r])
  /\ LET k == <<req[r].ctx.tenant, req[r].call.user>>
     IN  /\ k \notin DOMAIN rows
         /\ RlsEnforced => Allows(on[r], k)
         /\ rows' = [j \in DOMAIN rows \cup {k} |->
                       IF j = k THEN [creator |-> req[r].ctx.user, active |-> TRUE]
                                ELSE rows[j]]
  /\ Close(r)

\* create: the tenant is the context's, whatever the body says.
Create(r) ==
  /\ req[r].pc = "query"
  /\ req[r].call.op = "create" /\ ~PolicyFails(on[r])
  /\ req[r].ctx.tenant # NoTenant
  /\ LET k == <<req[r].ctx.tenant, req[r].call.user>>
     IN  /\ k \notin DOMAIN rows
         /\ RlsEnforced => Allows(on[r], k)
         /\ rows' = [j \in DOMAIN rows \cup {k} |->
                       IF j = k THEN [creator |-> req[r].ctx.user, active |-> TRUE]
                                ELSE rows[j]]
  /\ Close(r)

\* updateMany of the role, or of is_active; a row was matched, and is read
\* back in a transaction of its own.
Update(r) ==
  /\ req[r].pc = "query"
  /\ req[r].call.op \in {"update", "deactivate"} /\ ~PolicyFails(on[r])
  /\ Matched(r) # {}
  /\ rows' = [k \in DOMAIN rows |->
                IF k \in Matched(r) /\ req[r].call.op = "deactivate"
                THEN [rows[k] EXCEPT !.active = FALSE] ELSE rows[k]]
  /\ req' = [req EXCEPT ![r] =
               [pc |-> "wait", ctx |-> req[r].ctx,
                call |-> [op |-> "reread", key |-> req[r].call.key]]]
  /\ on' = [on EXCEPT ![r] = NoConn]
  /\ guc' = Reset(r)

\* Anything else ends the request with nothing written: no row matched (404),
\* no tenant to create in, a duplicate membership, an error of the policy or
\* the database, Prisma's transaction timeouts, or the death of the process.
Abort(r) ==
  /\ req[r].pc # "idle"
  /\ Close(r)
  /\ UNCHANGED rows

-----------------------------------------------------------------------------
Next == \E r \in Request :
          \/ \E ctx \in Context, call \in Call : Start(r, ctx, call)
          \/ \E c \in Conn : Begin(r, c)
          \/ SetTenant(r) \/ SetAdmin(r)
          \/ Read(r) \/ Create(r) \/ Update(r)
          \/ Abort(r)

Spec == Init /\ [][Next]_vars

-----------------------------------------------------------------------------
\* Type invariant.
TypeOK == /\ DOMAIN rows \subseteq Key
          /\ rows \in [DOMAIN rows -> Row]
          /\ req \in [Request -> {Idle} \cup Busy]
          /\ on \in [Request -> Conn \cup {NoConn}]
          /\ guc \in [Conn -> [tenant : Tenant \cup Unset, admin : BOOLEAN]]

\* The policy alone gives every statement the rows its context is entitled to:
\* all to a platform admin, its own tenant's to a tenant user, none without a
\* tenant.  No setting of another request, finished or running, is in force.
PolicyFollowsContext ==
  \A r \in Request : req[r].pc = "query" =>
    LET ctx == req[r].ctx IN
    {k \in Key : Allows(on[r], k)} =
      {k \in Key : ctx.admin \/ k[1] = ctx.tenant}

\* Nothing is written outside the tenant the writer acts in, not even by a
\* platform admin whose context names one.
WritesStayInTenant ==
  [][\A r \in Request, k \in Key :
       /\ Create(r) \/ Update(r)
       /\ req[r].ctx.tenant \notin {NoTenant, k[1]}
       => /\ k \in DOMAIN rows <=> k \in DOMAIN rows'
          /\ k \in DOMAIN rows => rows'[k] = rows[k]]_vars
=============================================================================
