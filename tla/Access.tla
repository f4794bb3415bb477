------------------------------- MODULE Access -------------------------------
(***************************************************************************)
(* Who gets to do what, and for how long after it stopped being true.      *)
(* login, refresh and switch-tenant read the user, memberships and tenants *)
(* in separate statements and sign what they read; the guards look at the  *)
(* claims of the token, and the handlers they admit change the users,      *)
(* memberships and tenants the next tokens are signed from.                *)
(*                                                                         *)
(* Time is counted in ticks.  Refresh tokens are modelled in RefreshTokens *)
(* and lockout in Lockout: here login and refresh may start at any time.   *)
(* rotateToken does not look at user.is_active, so neither does the model. *)
(***************************************************************************)
EXTENDS Integers, FiniteSets

CONSTANTS User, Tenant, Request,
          NoTenant,      \* no tenant_id claim
          TTL,           \* lifetime of an access token
          Flight,        \* no request is in progress for longer
          RlsEnforced,   \* the database role is subject to row-level security
          MaxTokens      \* bound: unexpired access tokens

ASSUME AccessAssumption == /\ NoTenant \notin Tenant
                           /\ TTL \in Nat \ {0} /\ Flight \in Nat
                           /\ RlsEnforced \in BOOLEAN
                           /\ MaxTokens \in Nat

VARIABLES
  admin,     \* users: is_platform_admin
  member,    \* tenant_users: "none", or the membership is "active" or "ended"
  tenant,    \* tenants: is_active
  tokens,    \* access tokens that have not expired
  req,       \* what each request is doing
  watched,   \* history: a claim somebody watches
  since      \* history: how long it has been false

rows == <<admin, member, tenant>>
vars == <<admin, member, tenant, tokens, req, watched, since>>

Key == Tenant \X User
Claims == [user : User, tenant : Tenant \cup {NoTenant}, admin : BOOLEAN]
Token == [claims : Claims, left : 1..TTL]

Claim == [is : {"member"}, key : Key] \cup [is : {"tenant"}, tenant : Tenant]
         \cup [is : {"admin"}, user : User]

\* Reading the rows, signing, the token's life and a request made with it.
Window == TTL + 2 * Flight

(***************************************************************************)
(* The routes by their guards: "platform" is for platform admins, "self"   *)
(* asks for a valid token only, "tenant" for a tenant claim and "granted"  *)
(* for a permission in that tenant too.                                    *)
(***************************************************************************)
Route == {"platform", "self", "tenant", "granted"}

Idle == [pc |-> "idle"]
Busy == [pc : {"members"}, user : User, admin : BOOLEAN, age : 0..Flight]
        \cup [pc : {"tenants"}, user : User, admin : BOOLEAN,
              ids : SUBSET Tenant, age : 0..Flight]
        \cup [pc : {"includes"}, user : User, tenant : Tenant, age : 0..Flight]
        \cup [pc : {"sign"}, user : User, ids : SUBSET Tenant, admin : BOOLEAN,
              age : 0..Flight]
        \cup [pc : {"serve"}, route : Route, claims : Claims, age : 0..Flight]

Init == /\ admin \in [User -> BOOLEAN]
        /\ member \in [Key -> {"none", "active"}]
        /\ tenant = [t \in Tenant |-> TRUE]
        /\ tokens = {}
        /\ req = [r \in Request |-> Idle]
        /\ watched \in Claim /\ since = 0

Become(r, state) == req' = [req EXCEPT ![r] = state]

-----------------------------------------------------------------------------
\* The guards.

\* jwt.strategy and JwtAuthGuard have let the token in; BypassTenant is on the
\* platform's routes and the user's own.
TenantGuardPasses(c, route) ==
  route \in {"platform", "self"} \/ c.tenant # NoTenant

\* jwt.strategy drops is_platform_admin, so no bypass; the resolver's findUnique
\* is refused to all but platform admins (see TenantScope).  It does not ask
\* whether the membership is active; what its roles grant is Rbac's matter.
PermissionsGuardPasses(c, route) ==
  route = "granted" => c.admin /\ member[<<c.tenant, c.user>>] # "none"

PlatformAdminGuardPasses(c, route) == route = "platform" => c.admin

Admit(r, c, route) ==
  /\ req[r] = Idle
  /\ TenantGuardPasses(c, route)
  /\ PermissionsGuardPasses(c, route)
  /\ PlatformAdminGuardPasses(c, route)
  /\ Become(r, [pc |-> "serve", route |-> route, claims |-> c, age |-> 0])
  /\ UNCHANGED <<rows, tokens>>

Serving(r, route) == req[r].pc = "serve" /\ req[r].route = route

-----------------------------------------------------------------------------
\* Issuing

\* login and rotateToken: the user row.
ReadUser(r, u) ==
  /\ req[r] = Idle
  /\ Become(r, [pc |-> "members", user |-> u, admin |-> admin[u], age |-> 0])
  /\ UNCHANGED <<rows, tokens>>

\* Faulty variant: memberships that ended count.
ReadMembersEnded(r) ==
  /\ req[r].pc = "members"
  /\ Become(r, [pc |-> "tenants", user |-> req[r].user, admin |-> req[r].admin,
                ids |-> {t \in Tenant : ~RlsEnforced
                                        /\ member[<<t, req[r].user>>] # "none"},
                age |-> req[r].age])
  /\ UNCHANGED <<rows, tokens>>

\* include memberships: neither call sets app.tenant_id, so row-level security
\* hides them all.
ReadMembers(r) ==
  /\ req[r].pc = "members"
  /\ Become(r, [pc |-> "tenants", user |-> req[r].user, admin |-> req[r].admin,
                ids |-> {t \in Tenant : ~RlsEnforced
                                        /\ member[<<t, req[r].user>>] = "active"},
                age |-> req[r].age])
  /\ UNCHANGED <<rows, tokens>>

\* Faulty variant: memberships of inactive tenants count.
ReadTenantsInactive(r) ==
  /\ req[r].pc = "tenants"
  /\ Become(r, [pc |-> "sign", user |-> req[r].user, ids |-> req[r].ids,
                admin |-> req[r].admin, age |-> req[r].age])
  /\ UNCHANGED <<rows, tokens>>

\* include tenant; activeMemberships are those of active tenants.
ReadTenants(r) ==
  /\ req[r].pc = "tenants"
  /\ Become(r, [pc |-> "sign", user |-> req[r].user,
                ids |-> {t \in req[r].ids : tenant[t]},
                admin |-> req[r].admin, age |-> req[r].age])
  /\ UNCHANGED <<rows, tokens>>

\* switchTenantContext: the findUnique is refused to a tenant's user, and row-
\* level security hides the row from a user without a tenant (see TenantScope).
SwitchRead(r, t) ==
  /\ Serving(r, "self")
  /\ LET c == req[r].claims IN
       /\ c.admin \/ (c.tenant = NoTenant /\ ~RlsEnforced)
       /\ member[<<t, c.user>>] = "active"
       /\ Become(r, [pc |-> "includes", user |-> c.user, tenant |-> t,
                     age |-> req[r].age])
  /\ UNCHANGED <<rows, tokens>>

\* Faulty variant: the platform-admin flag is not read again but set.
SwitchIncludesAdmin(r) ==
  /\ req[r].pc = "includes"
  /\ tenant[req[r].tenant]
  /\ Become(r, [pc |-> "sign", user |-> req[r].user, ids |-> {req[r].tenant},
                admin |-> TRUE, age |-> req[r].age])
  /\ UNCHANGED <<rows, tokens>>

\* include tenant and user; 403 unless the tenant is active.
SwitchIncludes(r) ==
  /\ req[r].pc = "includes"
  /\ tenant[req[r].tenant]
  /\ Become(r, [pc |-> "sign", user |-> req[r].user, ids |-> {req[r].tenant},
                admin |-> admin[req[r].user], age |-> req[r].age])
  /\ UNCHANGED <<rows, tokens>>

\* generateTokens: the tenant is that of the first membership the database
\* returned.  Clients forget tokens beyond the bound.
Sign(r) ==
  /\ req[r].pc = "sign"
  /\ \E t \in IF req[r].ids = {} THEN {NoTenant} ELSE req[r].ids,
        kept \in SUBSET tokens :
       /\ Cardinality(kept) < MaxTokens
       /\ tokens' = kept \cup
            {[claims |-> [user |-> req[r].user, tenant |-> t, admin |-> req[r].admin],
              left |-> TTL]}
  /\ Become(r, Idle)
  /\ UNCHANGED rows

\* The request is refused or fails, or its handler changes none of this.
Abort(r) ==
  /\ req[r] # Idle
  /\ Become(r, Idle)
  /\ UNCHANGED <<rows, tokens>>

-----------------------------------------------------------------------------
\* What handlers change.  Each is one write; the lookups before it change nothing.

\* UsersService.update with isPlatformAdmin.
SetAdmin(r, u, b) ==
  /\ Serving(r, "platform")
  /\ admin' = [admin EXCEPT ![u] = b]
  /\ Become(r, Idle)
  /\ UNCHANGED <<member, tenant, tokens>>

\* TenantsService.softDelete.
DeactivateTenant(r, t) ==
  /\ Serving(r, "platform")
  /\ tenant' = [tenant EXCEPT ![t] = FALSE]
  /\ Become(r, Idle)
  /\ UNCHANGED <<admin, member, tokens>>

\* TenantUsersService.create, in the tenant of the claim: a membership that ended
\* is a duplicate (409).
CreateMember(r, u) ==
  /\ Serving(r, "granted")
  /\ LET k == <<req[r].claims.tenant, u>> IN
       /\ member[k] = "none"
       /\ member' = [member EXCEPT ![k] = "active"]
  /\ Become(r, Idle)
  /\ UNCHANGED <<admin, tenant, tokens>>

\* TenantUsersService.deactivate, in the tenant of the claim.
EndMember(r, u) ==
  /\ Serving(r, "granted")
  /\ LET k == <<req[r].claims.tenant, u>> IN
       /\ member[k] # "none"
       /\ member' = [member EXCEPT ![k] = "ended"]
  /\ Become(r, Idle)
  /\ UNCHANGED <<admin, tenant, tokens>>

-----------------------------------------------------------------------------
\* Faulty variant: expiry is not checked (ignoreExpiration).
AgedForever(tok) == {[tok EXCEPT !.left = IF tok.left > 1 THEN tok.left - 1 ELSE 1]}

\* Faulty variant: a token is accepted up to and including its expiry.
AgedLate(tok) == {[tok EXCEPT !.left = tok.left - 1]}

\* A tick later: jwt.strategy rejects what has expired.
Aged(tok) == IF tok.left > 1 THEN {[tok EXCEPT !.left = tok.left - 1]} ELSE {}

Tick ==
  /\ \A r \in Request : req[r] # Idle => req[r].age < Flight
  /\ tokens' = UNION {Aged(tok) : tok \in tokens}
  /\ req' = [r \in Request |-> IF req[r] = Idle THEN Idle
                               ELSE [req[r] EXCEPT !.age = req[r].age + 1]]
  /\ UNCHANGED rows

-----------------------------------------------------------------------------
Holds(w) == CASE w.is = "member" -> member[w.key] = "active"
              [] w.is = "tenant" -> tenant[w.tenant]
              [] w.is = "admin" -> admin[w.user]

\* 0 while the watched claim is true, then the ticks since, up to the window.
Watch(ticked) ==
  /\ UNCHANGED watched
  /\ since' = IF Holds(watched)' THEN 0
              ELSE IF ticked /\ since < Window THEN since + 1 ELSE since

Issue(r) == \/ \E u \in User : ReadUser(r, u)
            \/ \E t \in Tenant : SwitchRead(r, t)
            \/ ReadMembers(r) \/ ReadTenants(r) \/ SwitchIncludes(r)
            \/ Sign(r) \/ Abort(r)

Serve(r) == \/ \E tok \in tokens, route \in Route : Admit(r, tok.claims, route)
            \/ \E u \in User : \/ CreateMember(r, u) \/ EndMember(r, u)
                               \/ \E b \in BOOLEAN : SetAdmin(r, u, b)
            \/ \E t \in Tenant : DeactivateTenant(r, t)

Next == \/ (\E r \in Request : Issue(r) \/ Serve(r)) /\ Watch(FALSE)
        \/ Tick /\ Watch(TRUE)

Spec == Init /\ [][Next]_vars

-----------------------------------------------------------------------------
\* Type invariant.
TypeOK ==
  /\ admin \in [User -> BOOLEAN]
  /\ member \in [Key -> {"none", "active", "ended"}]
  /\ tenant \in [Tenant -> BOOLEAN]
  /\ tokens \subseteq Token
  /\ req \in [Request -> {Idle} \cup Busy]
  /\ watched \in Claim /\ since \in 0..Window

\* A membership that ended, or whose tenant was deactivated, gives no access
\* after one token's lifetime and the time of two requests, the one that signed
\* the token and the one made with it (spec 002, FR-013), however logins,
\* refreshes and switches interleave with its end.
TenantAccessEndsInTime ==
  since = Window => \A r \in Request :
    Serving(r, "tenant") \/ Serving(r, "granted") =>
      LET c == req[r].claims IN
      /\ watched # [is |-> "member", key |-> <<c.tenant, c.user>>]
      /\ watched # [is |-> "tenant", tenant |-> c.tenant]

\* Nor does a platform admin's flag that was taken away, unless it was given
\* back meanwhile, which a request admitted on the old flag may do.
AdminEndsInTime ==
  since = Window => \A r \in Request :
    Serving(r, "platform") => watched # [is |-> "admin", user |-> req[r].claims.user]
=============================================================================
