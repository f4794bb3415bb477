# TLA+ models of the Uyuni SaaS backend

The backend is a NestJS application over Prisma and PostgreSQL: users of several tenants log in, get
tokens, and reach tenant-scoped data through guards, permissions and row-level security, while changes
are recorded for audit. This directory holds TLA+ modules that model its parts, TLC configurations that
check them on small instances, and TLAPS proofs for every size. The code is the reference: where a
specification under `specs/` and the code differ, the modules follow the code, and the difference is
listed under [Where the code and the specifications differ](#where-the-code-and-the-specifications-differ).

To repeat a check: `tlc -config RefreshTokens.cfg TokenChains` (module and configuration of each run
are in the table under [Runs](#runs)); to repeat a proof: `tlapm RefreshTokens_proofs.tla`.
`PROJECT.json` lists, for every definition, the source lines it is translated from, for every property a
faulty variant of a definition that TLC finds to break it, and every hazard the properties are for.

- [Inventory](#inventory) · [How a request runs](#how-a-request-runs) ·
  [Modules and code](#modules-and-code) · [Runs](#runs) · [Fairness](#fairness) · [Proofs](#proofs) ·
  [Only model-checked](#only-model-checked) ·
  [Where the code and the specifications differ](#where-the-code-and-the-specifications-differ) ·
  [Not modelled](#not-modelled) · [Plan](#plan)

## Inventory

Paths are below `src/` of the repository unless they begin with `prisma/` or `specs/`.

| Component | State it keeps | Operations | What is hard | What makes it correct |
|---|---|---|---|---|
| **Refresh tokens** `modules/auth/services/token.service.ts`, `auth.service.ts`, `auth.controller.ts` | `refresh_tokens`: user, hash, revoked, expiry, `replaced_by_id` | login, refresh (rotation, reuse detection), logout, global logout, switch-tenant | read, insert and update are three statements without a transaction; lost responses and crashes between them; writes that are rolled back and answered all the same; a self-relation with two sides | a rotated token is consumed; one live token per session; a logout and a detected reuse end a session; the walk over a family ends |
| **Account lockout** `modules/auth/services/lockout.service.ts`, `auth.service.ts` | `users.failed_login_attempts`, `locked_until` | checkLockout, incrementFailedAttempts, resetFailedAttempts | bcrypt (tens of ms) between the read of the counter and its write; the counter is written, not incremented; the write may be rolled back and answered all the same | the fifth failure locks, a lock lasts and ends, the failures stored per lock are bounded |
| **Tenant isolation** `infrastructure/prisma/extensions/tenant-scoped.extension.ts`, `common/context/*`, `tenant-users.service.ts`, `prisma/migrations/…_tenant_core` | per request: tenant, user, admin, scope in AsyncLocalStorage; per connection: `app.tenant_id`, `app.is_platform_admin`; `tenant_users` | create, list, get, update, deactivate, findUnique | pooled connections carry settings from one request to the next; two layers of filters, the extension's and the policy's | every statement sees its own tenant's rows and no others; no write leaves its tenant |
| **Roles and permissions** `modules/rbac/**` | `roles`, `permissions`, `role_assignments` | createRole, updateRole, deleteRole, assignRole, revokeRole, resolvePermissions | checks and writes in separate round trips; an "interactive transaction" whose statements leave it; a pool that can wait on itself; a resolver that reads three tables one by one | roles stay in their tenant, system roles are immutable, names unique; what is revoked grants nothing; an update replaces the permissions |
| **Plans and tenants** `modules/tenancy/services/plans.service.ts`, `tenants.service.ts` | `plans`, `tenants` (and `tenant_users`, counted) | create, update, softDelete of each | each check is a query of its own before the write it guards | an active tenant's plan is active; a limit is not set below the members of a tenant |
| **Access tokens and guards** `common/guards/*`, `modules/auth/strategies/jwt.strategy.ts`, `app.module.ts` | the claims of the tokens at large, with their expiry | sign on login, refresh and switch-tenant; JwtAuth, Tenant, Permissions and PlatformAdmin guards | claims are read in several statements and trusted until the token expires, while the rows change; handlers admitted by old claims change the rows | what was taken away gives no access after a bounded time |
| **Change-data capture** `infrastructure/prisma/extensions/cdc.extension.ts`, `audit-columns.extension.ts`, `append-only.extension.ts` | `change_records` | around every create, update, delete | four extensions in layers, errors swallowed inside a transaction, the old value read without a lock | no record of a change that did not happen, none missing, in the right order |
| **Audit queries** `modules/audit/**` | none (a client's cursor) | cursor-paged lists of records and access logs | records arrive while pages are turned, with equal timestamps and random ids | a walk shows what was there exactly once |
| **Access log** `common/interceptors/access-log.interceptor.ts` | `access_logs` | one insert when the answer is out | fire and forget; the process may stop first; the same audit columns as a change record | an entry agrees with the write and the record it leads to |
| **User accounts** `modules/tenancy/services/users.service.ts` | `users` | create, update, softDelete, list, get, `me/tenants`; login by email | email check, bcrypt, insert; unique over active rows only, while check and login look at all rows | one account per email; every answer is true; the right password is accepted |
| **Error answers** `common/filters/global-exception.filter.ts` | – | the status of what a handler throws | errors of several libraries, of the database as well | a conflict is a conflict, however it was noticed |
| **Rate limiting, validation** `app.module.ts`, `**/dto` | counters in memory (library) | per request | – | – |
| **Bootstrap, configuration, logging, health** `main.ts`, `common/config`, `infrastructure/logger`, `infrastructure/health` | – | start-up, probes | – | – |
| **Seeds and scripts** `prisma/seed*.ts`, `scripts/`, `create-test-user.ts` | the first rows of `users`, `roles`, `plans` | run by hand | – | what they leave is where the models begin |
| **Specified only** `specs/006` to `012` | – | no code yet | – | – |

## How a request runs

`TenantContextMiddleware` decodes the payload of the bearer token (without verifying it) and runs the
rest of the request in an AsyncLocalStorage context: tenant, user, platform-admin flag. Then come the
guards in the order of `app.module.ts:45-54`: throttler, `JwtAuthGuard` (verifies signature and expiry),
`TenantGuard`, `PermissionsGuard`, `PlatformAdminGuard`; then the interceptors `OwnershipScope` (which
adds the scope filter to the context), `SuperadminAudit` and `AccessLog`; then controller and service.

Every service talks to the database through one `PrismaService`, built of four extensions. A call passes
them from the outermost to the innermost:

    tenantScoped  ->  auditColumns  ->  cdc  ->  appendOnly  ->  PrismaClient  ->  PostgreSQL (RLS)

and the `client` each of them holds is the one *below* it. That has consequences three modules are about:
a tenant-scoped call is executed below all other extensions (no audit columns, no change record); a
delete becomes an update of the client below audit columns (no change record); and what an extension runs
on its `client` is outside the caller's interactive transaction (`updateRole`).

Node runs one handler at a time and switches at every `await`. So in every module a handler is cut at its
database round trips and at bcrypt, and between two cuts it is atomic. The only atomicity that spans a cut
is that of a database transaction, and the modules have it exactly where the code has one. Several server
processes over one database interleave in the same way: nothing that is modelled is kept in process
memory, but for the clock of `AuditTrail` (see its bounds).

## Modules and code

The operations of a module are named after the methods they model. Each one is the whole of what happens
between two awaits. `Abort` is in every module where a handler may end early: a call rejects, a
transaction times out, the process dies. History variables (marked as such) are read by properties only.

**`TokenLedger`** – abstract: tokens are issued usable to one user and retired for good.
**`RefreshTokens`** – `table` is `refresh_tokens` in insertion order, `req[p]` the handler in slot `p`,
`delivered` the tokens a client received. `Login` and `SwitchTenantContext` insert; `RotateRead`,
`RotateCreate`, `RotateMark`, `Respond` are the four parts of `/auth/refresh`; `WalkRead` and `WalkRevoke`
are one turn of `invalidateFamily`, `AnswerReused` the 401 after it; `Logout` and `LogoutGlobal` are one
update each. Each write of login and refresh has a second outcome, in which it is
[lost and answered](#lost-writes). `history` and `ended` are history: the token a row was made from, the
*chain* it belongs to, and the chains of which a logout took the client's token. A chain begins with a login, a tenant
switch, or a rotation whose update of the old row was lost; rotations prolong it.
**`TokenChains`** adds the history `contended`: the chains that two requests rotated at a time, or that
a logout revoked a token of while another request was rotating one.

**`Lockout`** – the attempts on one account. `failed` and `lockLeft` are the two columns (`lockLeft` the
time to `locked_until`), `attempt[p]` a login between its read and its write. `Begin` is
`findFirst` + `checkLockout`, `Fail` and `Succeed` the two ends of bcrypt, each stored or
[lost and answered](#lost-writes), `Tick` time. `counted` is history: the failures stored in this window.
**`LockoutPolicy`** – abstract: one attempt in one step.
**`LockoutSerial`** adds the history `overlap`: two attempts were once in flight together.

**`TenantScope`** – `rows` is `tenant_users`, `req[r]` a request with its context and call, `on` the
connection its transaction has, `guc` the two settings of each connection. `Start` enters the extension,
`Begin` gets a connection, `SetTenant` and `SetAdmin` are the two `set_config` calls, `Read`, `Create` and
`Update` the statement and the commit. `ReadMatches` is `injectReadFilter`, `WriteMatches`
`injectWriteContext`, `Allows` and `PolicyFails` the policy of the migration, `Reset` what PostgreSQL does
to a `SET LOCAL` at the end: a custom setting that was once set is `''` afterwards and not null.
`RlsEnforced` says whether the database role is subject to the policy (a superuser is not, `FORCE` or no).

**`Rbac`** – `roles` (with their permissions), `assigned`, and `req[r]` cut at every round trip. `Free` is
a connection left in the pool. `UpdateWrite` and `UpdateRemove` commit on their own although `updateRole`
holds a transaction, as described above; `UpdateAdd` is the only statement inside. `ResolveAssignments`,
`ResolveRoles`, `ResolvePermissions` are the three SELECTs Prisma makes of the resolver's `findUnique`,
and `Merge` one turn of its loop. `stale` is history.
**`RoleContract`** – abstract: each write of the role calls in one step with the check it needs.
**`RbacSerial`** adds `overlap`.

**`PlanContract`** – abstract: each call of the plan and tenant contracts in one step.
**`Subscriptions`** – `plans`, `tenants`, `members` and `req`; `UpdateGet/Count/Group/Write`,
`DeleteGet/Count/Delete` are `PlansService`, `CreateRead/Insert`, `MoveRead/Move`, `DropRead/Drop`
`TenantsService`, and `CreateMember/Deactivate` the membership calls. `moved`, `raced`, `overlap` are
history.

**`Access`** – `admin`, `member`, `tenant` are the columns tokens are signed from, `tokens` the unexpired
access tokens. `ReadUser`, `ReadMembers`, `ReadTenants` are the SELECTs of `login` and `rotateToken`,
`SwitchRead` and `SwitchIncludes` those of `switchTenantContext`, `Sign` is `generateTokens`. `Admit` is the
guards in their order on a route of one of four kinds; `SetAdmin`, `DeactivateTenant`, `CreateMember`,
`EndMember` are the handlers that change the columns; `Tick` is time. `watched` and `since` are history:
some claim, chosen at the start, and for how long it has been false.

**`AuditTrail`** – `versions[e]` the committed writes of a row, `records` the `change_records`, `log` the
`access_logs`, `req[r]` one request. A captured write is `Begin`, `ReadOld`, `Mutate`, `Insert` (or
`InsertRefused`, `InsertFails`), `Commit`; `WriteUncaptured` is every write that passes the extension by,
and `Alter` an attempt to change the trail itself. Each leaves the request `answered`, with its status,
until the interceptor's listener has run (`LogAccess`, `LogFails`) or the process has stopped (`Stop`).
`count`, `answers`, `overlap` are history.
**`AuditPages`** extends it with an auditor: `FirstPage` and `NextPage`, the services' cursor query.

**`AccountDirectory`** – abstract: an email is registered once and for good, its account is open until it is
closed, and only an update makes it an administrator's.
**`Accounts`** – `users` is the table in insertion order, `req[r]` a handler between two awaits.
`CreateCheck` is `findFirst` by email, after which bcrypt runs; `Create` and `CreateViolates` are the two
outcomes of the insert under the partial unique index. `UpdateGet/Update` and `DeleteGet/SoftDelete` are
`get` and the update after it. `LoginNone`, `LoginFind`, `LoginLocked`, `Compare`, `LoginSucceed` are
`AuthService.login` at its awaits, `Refuse` what throttler, guards and pipes turn away. Every action that
ends a request sets `answer`, with the status the exception filter gives it (`normalize`). `Break` is a
database error (500) or a stopped process. `answer`, the field `checked` of a row and the field `live` of a
login are history.

The modules named `MC…` give TLC finite constants and the symmetry of interchangeable values, and hold
nothing else.

How they compose: five abstract specifications are implemented, by `INSTANCE` with the mapping in the
detailed module. `RefreshTokens` implements `TokenLedger`; until requests overlap, `Lockout` implements
`LockoutPolicy` (an attempt whose write is lost being none), `Rbac` `RoleContract` and `Subscriptions`
`PlanContract`; and `Accounts` implements
`AccountDirectory` as long as no email has two rows.
`AuditPages` is `AuditTrail` with a reader. `Access` takes refresh and login as possible at any time (the
stores are `RefreshTokens`, `Lockout` and `Accounts`) and what a permission resolves to as given (`Rbac`);
its refusals on `findUnique` and its hidden memberships are those of `TenantScope`. `Accounts` takes a
lock as a refusal at any time (`LoginLocked`).

### Lost writes

A captured write shares a transaction with the insert of its change record. `cdc.extension.ts:108-113`
catches whatever that insert throws. If the *database* refused it, PostgreSQL has aborted the transaction,
its COMMIT rolls the write back, and the caller is answered as if it had been stored. `AuditTrail` has
these steps (`InsertFails`, then `Commit` without a version).

Which other writes can be lost that way depends on who makes them. Of an authenticated user Prisma refuses
the record itself (`createdById`, which `ChangeRecord` does not have), before the database sees it: the
record is missing and the write commits. So the handlers of `Rbac`, `Subscriptions`, `Access` and
`Accounts` that ask for a user cannot lose theirs, and the writes of memberships, soft deletes and
`updateMany` (the logouts) have no change record at all. What is left is login and refresh, which are public and
run in a context without a user: in `RefreshTokens` the row of a token (`Login`, `RotateCreate`), the update of
the rotated row (`RotateMark`) and of a walked one (`WalkRevoke`), and in `Lockout` both counter updates (`Fail`, `Succeed`)
each may be stored or lost, whatever the reason of the refusal, and the handler goes on in the same way. In
`Access` and `Accounts` a login's lost write changes nothing they keep.

## Runs

Twelve runs; "states" are distinct states, rounded. Nine pass, three end in a violation: there the property
states what a specification says, and TLC shows a behaviour of the code that breaks it.

| Run | Module / configuration | Asks | States |
|---|---|---|---|
| `tokens` | `TokenChains` / `RefreshTokens.cfg` | What the token store keeps whatever interleaves, aborts or is lost; what clients hold of a chain; that every request ends | 320 k |
| `tokens_reuse` | `RefreshTokens` / `TokenReuse.cfg` | Does the reuse of a token end its session? No | violation |
| `lockout` | `LockoutSerial` / `Lockout.cfg` | How far concurrent attempts weaken the lock, and what it is without them | 150 k |
| `scope` | `MCTenantScope` / `TenantScope.cfg` | Does every statement see exactly its tenant's rows, on any connection? | 1.1 M |
| `rbac` | `MCRbacSerial` / `Rbac.cfg` | Tenancy of roles and what a resolution grants, under concurrent changes; the contract without them | 3.4 M |
| `rbac_live` | `MCRbacSerial` / `RbacLive.cfg` | Unique names, and that updates waiting on the pool end | 290 k |
| `rbac_update` | `MCRbac` / `RbacUpdate.cfg` | Does an update replace the permissions? No | violation |
| `subscriptions` | `MCSubscriptions` / `Subscriptions.cfg` | Which races leave a tenant on a deleted plan; the contract without them | 3.2 M |
| `access` | `MCAccess` / `Access.cfg` | For how long a claim outlives its truth | 3.6 M |
| `audit` | `MCAudit` / `AuditTrail.cfg` | Truth and order of the records, of the access log, and of a walk over them | 1.1 M |
| `audit_dropped` | `AuditPages` / `AuditDropped.cfg` | Is every answered write recorded? No | violation |
| `accounts` | `MCAccounts` / `Accounts.cfg` | When an email gets a second row, and whether answers are true | 330 k |

### What each shows, and why its bounds are enough

**tokens.** Replacement links form chains (`ReplacementsFormChains`), which is what a walk along them needs
to end; a client holds the successor of an unrevoked token only if the update that should have revoked it
was lost (`RotationConsumesItsToken`); and every step issues a token or retires some of one user's
(`ImplementsLedger`). Clients hold one live token of a chain (`OneLiveTokenPerChain`) and a logout ends a
chain (`LogoutEndsChain`), through any abort, lost write and lost response – the retry after a lost response
included – and whatever runs on other chains, except for the chains in `contended`: two rotations of one token both
succeed, and a logout during a rotation leaves the successor live. As chains are what the two properties
are about, they say of a *session* that it has one live token and one more for each rotation whose update was lost;
a logout then ends the chain of the token it was given, and not the others.
`EveryRequestIsAnswered` is about all behaviours.
Two requests can be at any two points of two rotations, or of
a rotation and a walk; three rows are a login, a rotation and either a second rotation or a concurrent one;
two users are what "somebody else's token" takes. `MaxTokens` is a guard of the actions that insert.

**tokens_reuse.** One user, one request at a time and nothing lost: login, refresh, and the old token once
more. The walk is answered "Session invalidated" and the successor is live (`ReuseEndsSession`). The walk
revokes nothing in any other behaviour either: `WalkIsInert` among the [proofs](#proofs).

**lockout.** With `MAX_ATTEMPTS` = 5, the real constant, and three attempts in flight: a lock ends
(`LockEnds`), and at most C(5+n, n) - 1 failures are *stored* in one window for n concurrent attempts
(`StoredFailuresAreBounded`): 5, 20, 55 for n = 1, 2, 3. The bound is tight, TLC finds 20 and 55 reached. It
is no bound on the wrong passwords a client may try: any number of failures may be lost and answered 401
or 403 like the others. Until attempts overlap, whatever they do to the row is one attempt of the policy, the
passing of time, or nothing, when the attempt died or its write was lost: a failure that is stored as the fifth
in a row locks, and no lock is shortened or prolonged (`SerialImplementsPolicy`). Time is in thirds of the lock
(`LockFor` = 3): before, within and at the end. `CounterCap` = 6 is beyond the threshold, past which the code
does not tell counts apart; `GuessCap` = 60 is beyond the bound.

**scope.** The policy admits at every statement exactly the rows its context is entitled to, whatever ran
on the connection before and whatever runs next to it (`PolicyFollowsContext`); no write, not even of a
platform admin acting in a tenant, leaves its tenant (`WritesStayInTenant`). Five contexts meet – users of two tenants, one of them restricted
to its own rows, an admin with and without a tenant, and a user without one – on a pool of two, with
two requests: any context can follow or run beside any other.

**rbac.** Two tenants, a member each, one system and one custom role, one permission, two requests, a pool
of two: any two calls interleave at every round trip. Roles are assigned inside their tenant only
(`AssignmentsStayInTenant`), the loop yields the widest scope in any order of the rows (`ResolvesWidest`),
and a resolution grants nothing on the strength of a role that was revoked or inactive throughout it
(`RevokedRolesGrantNothing`). Until requests overlap, whatever fails and wherever it stops, what a call
writes is a step of the contract, so that `deleteRole` deletes no role in use (`SerialImplementsContract`).
With one custom role a new name has no rival; the contract's clauses on names are exercised by the names of
`rbac_live`, and proved.

**rbac_live.** Two roles that want one name, and no permissions: the check of `createRole` and the
unchecked rename and reactivation of `updateRole` never leave two active roles of that name, thanks to the
partial unique index (`ActiveNamesUnique`). `UpdatesEnd`: with a pool of two, two `updateRole` calls may each hold one connection and wait for a second; Prisma's
transaction timeouts end that, and nothing else does (without them the property fails).

**subscriptions.** Two plans, tenants, users and requests, limits 1 and 2. There are two ways in which an
active tenant comes to be on a deleted plan and no third (`PlansInUseStay`): it was moved to a plan already
deleted, or a creation or move raced the deletion. Until requests overlap every call has the effect of the
contract in one step, or none, through any failure (`SerialImplementsContract`).

**access.** A request on a tenant's route is served on a membership that ended, or on a tenant that was
deactivated, for no longer than an access token's lifetime and the duration of two requests
(`TenantAccessEndsInTime`); likewise for a platform admin's flag (`AdminEndsInTime`). It matters that
requests admitted on old claims may still change the rows, that `login` reads the user, the memberships
and the tenants in three statements, and that a refresh may start on any tick. A token lives two ticks and
a request at most one, so that each of the two can end before, with and after the other; the window is then
four ticks. `RlsEnforced` is FALSE because otherwise login sees no memberships (below) and hardly any
behaviour is left. One token at a time suffices for a property about one request; two requests let
one sign while the other changes rows. One tenant is enough for a property about one claim.

**audit.** Two requests, two rows, three writes, one clock tick, pages of one record, so that each page is a
query of its own. Records are of committed changes (`RecordsAreTrue`); timestamps follow the changes of a
row, although taken before the commit, because the insert comes after the row lock
(`TimestampsFollowChanges`, for one process's clock); old values are right until requests overlap
(`SerialOldIsPrevious`); an answered write is committed unless the insert of its record failed in the
database (`AnsweredWritesHold`); whoever follows an access log entry finds the write, and its record where
one could be made (`LogFindsRecords`); nothing of the trail is altered, although a user's delete passes the
append-only extension by (`TrailIsAppendOnly`); and a walk shows what was there at its start exactly once,
newest first (`WalkIsExact`). Three records are what two pages and a record that arrives between them take;
one tick tells earlier from later and lets two records share a timestamp. The order of two changes, a lock
and its waiter, a lost record and its log entry each take two requests; the proofs are for any number.

**accounts.** Two requests, two emails, three rows. The check looks at all rows and the index at active
ones, so a second row of an email takes a creation *and* a deletion inside another creation's bcrypt
(`SecondRowNeedsARace`), and that takes two requests. Answers are true (`AnswersAreTrue`), and a right
password is refused as unknown only where login, whose `findFirst` names no order, may have picked the
second row (`RefusedOnlyByNamesake`). As long as no email has two rows every call is one of the directory's,
in one step, or none (`ImplementsDirectory`). Three rows are the administrator, an account and its namesake, or an
email with three rows; a second email is what a wrong row, or a wrong conflict, would be confused with.

**rbac_update** (`UpdateReplacesPermissions`) and **audit_dropped** (`WritesAreRecorded`) use one request, too: no
concurrency is needed.

## Fairness

Safety properties are checked without fairness. Liveness assumes what the platform does:

- `tokens`: `WF(Step(p))` for each slot. The event loop resumes every handler whose awaited call
  has settled, and the driver settles every call. `Abort` is not fair: nothing relies on failures.
- `lockout`: `WF(Tick)`: time passes. Requests are not fair.
- `rbac_live`: `WF(Update(r))`: a statement that has, or can get, a connection is executed; `WF(Abort(r))`:
  Prisma's `maxWait` and `timeout` fire. The latter is what `UpdatesEnd` is about. As a result it says that
  updates end, not that they succeed.

No run assumes strong fairness, or that a client ever sends a request.

## Proofs

Eight modules hold the theorems. They are for every value of the constants under the assumptions the
modules state: `MaxTokensAssumption`, `LockoutAssumption`, `ScopeAssumption`, `RbacAssumption`,
`SubscriptionsAssumption`, `AccessAssumption`, `AuditAssumption`, `LimitAssumption`, `AccountsAssumption`.
These say what kind of value a constant is (that the attempts in flight are finitely many, a page not empty)
and that marker values (`NoTenant`, `Keep`, …) are none of the data; TLC evaluates each
on the runs of its module. In every module an inductive invariant `IInv` carries, for each place a
handler can be at, what it learned at its last await and what of it is still true.

**`RefreshTokens_proofs`** – `TypeCorrect`, `ChainsHold`, `ConsumedBeforeDelivery`, `WalkIsInert`,
`Refinement`, `OneLiveToken`, `LogoutIsFinal`. `ReplacementsFormChains` is not inductive: it
says nothing of a rotation that has inserted its row and not yet linked it. `IInv` adds to the links
(`Links`) where rows come from (`Origins`) and, for each place a handler can be at, what it knows there:
that nobody else has its new row in hand (`Distinct`) and no client has it yet (`HeldOK`), that the row was
made from the old one and begins no chain yet (`MarkOK`), that the old one is revoked by now unless its
update was lost (`RespondOK`), or that the row it walks over is revoked already (`WalkOK`, `NextOK`). That nobody else links
to the new row needs no clause: a link determines `history[n].from`. `WalkIsInert` is then one step, and
the refinement maps each action to `Issue`, `Retire` or a stutter. A step of one slot leaves the others what
they know (`Keeps`, `FrameStep`), so each action has a lemma about its own slot only.
`OneLiveToken` and `LogoutIsFinal` are proved chain by chain, for the chains not in `contended` (`SInv`): such
a chain is rotated by one request at most; while that request is before `RotateMark` the token it rotates is
the live one (`Rotating`), afterwards no client holds a live token of the chain until the successor is
answered (`Renewing`); and once a logout has ended the chain, it has no live token and no rotation (`Spent`).
Every step leaves a chain as it is, contends for it, or moves it from one of these to the next
(`Careful`, `ChainStep`). A row that is inserted by a login opens a chain nobody holds anything of (`FreshChain`),
and the successor of a lost update moves to one that has held nothing so far.

**`Lockout_proofs`** – `TypeCorrect`, `LockIsWarranted` and `StoredFailuresBounded` for any number of
concurrent attempts; `PolicyKept` until they overlap: the attempt in flight has then read the current counter
and no lock runs (`SerialInv`), which overlap destroys.

`StoredFailuresAreBounded` needs a measure. `Reach(p)` is the most failures from a lock that slot p can still write down
before the count starts anew, and `Progress[j]` how many slots can no longer reach j: a monotone function from
1..`MaxAttempts` to 0..n, a staircase. Every stored failure raises `Progress` in the order `Before`, and
nothing lowers it while failures count, so `counted` is at most the number of staircases before it
and less than that of all. There are C(`MaxAttempts` + n, n) staircases: `Pascal` splits them
by their last step, `CountingStairs` counts them by induction, and `StairsChoose` turns the count into the
`choose` of the community module, by way of its factorials. Induction over the numbers is an instance
of well-foundedness (`SetInduction`), because the library's theorem takes an operator.

**`TenantScope_proofs`** – `TypeCorrect`, `PolicyHolds`, `WritesConfined`. `SettingsInv`: two requests never
have one connection (`OwnConnection`), a free connection carries no tenant and no admin flag
(`FreeIsClean`), and the settings of a busy one are those its request has made so far (`OwnSettings`).

**`Rbac_proofs`** – `TypeCorrect`, `RolesStayInTenant`, `NamesUnique`, `ResolutionIsWidest`,
`SystemRolesImmutable`, `RevokedGrantNothing`, `SerialContract`. `InFlight` carries what the first round
trip of a call has established to its last (ids are not reused, a role's tenant does not change),
`SystemKept` the seeded roles, and `MergedSoFar` is the invariant of the resolver's loop: the result is the
widest union of what has been read and merged. `InForce` is why a resolution grants nothing stale: a role
it has read was assigned, and then active, at a moment since it began, and the history of what was missing
all along only shrinks. For the contract, `Checked` says what a call read that its write relies on – the name
is free, the assignment is there, nobody holds the role – and a request alone finds it so (`StillChecked`);
then each of the seven writes is its step of the contract, and every other step a stutter.

**`Subscriptions_proofs`** – `TypeCorrect`, `PlansInUse`, `Contracted`. Two invariants make `PlansInUseStay`
inductive: a plan with a deletion that has counted next to a tenant about to be put on it is in the history
`raced` (`Racing`), and what a deletion or a creation has checked still holds unless the plan has been raced
(`Counted`). For the refinement, `SInv` says that a request alone (`Alone`) may rely on everything it has
checked (`Checked`), so that its write is a step of the contract and all its other steps are stutters.

**`Access_proofs`** – `TypeCorrect`, `TenantAccessEnds`, `AdminEnds`, for any lifetime `TTL`, any duration
`Flight` of a request and any number of tokens. A claim that has been false for `since` ticks can be in the
hands of a request that is signing only if `since` is at most its age; on a token with `left` ticks to go
only if `since <= Flight + TTL - left` (`Tokens`); and in the hands of a request admitted by such a token
only if `since < Flight + TTL + age` (`Bounded`). An age is at most `Flight`, which adds up to the window.

**`AuditTrail_proofs`** – `TypeCorrect`, `RecordsStayTrue`, `Timestamps`, `SerialOld`, `AnswersHold`,
`LogAgrees`, `AppendOnly`, `WalksAreExact`. `Shaped` says what each transaction has in hand, `Fresh` that no write's number
is given twice, `Exclusive` that a row's lock has one holder, `Stamped` that a record not yet committed is
no older than those of its row, and `Committed` and `Ordered` that records belong to versions and are in
their order. `Reported` and `Findable` tie answers and log entries to the tables; `Serial` and `Chained` say
what a lone writer has read. Actions are first brought to a few shapes (`Normal`), and the invariant is
proved for the shapes. A walk reads a table that `PagesAreReads` says is `AuditTrail`'s own. `UniqueIds` makes
`Newer` a strict total order on the records (`NewerIsAnOrder`), so that a page's rows have one sorted listing
(`ListingsAreSorted`); `WalkInv` then says that what has been seen is sorted, ends at the cursor, and contains
every record of the start that is not older than the cursor.

**`Accounts_proofs`** – `TypeCorrect`, `SecondRowsAreRaces`, `AnswersStayTrue`, `OwnersAreKnown`,
`Refinement`. The table changes in four ways (`TableStep`), in each of which it only grows, its emails stay
and no account is reactivated (`RowsStay`): what a request has read, and what an answer has said, stays
true. `RowsChecked` and `CreatesChecked` say what the check before an insert established, `OlderInactive`
what the index does. The refinement maps the four ways to `Register`, `SetAdmin`, `Close` and a stutter.

Four theorems state what no run checks as a property: `LockIsWarranted` of `Lockout_proofs`,
`WalkIsInert` of `RefreshTokens_proofs`, `SystemRolesImmutable` of `Rbac_proofs` and `TypeCorrect` of
`Accounts_proofs`.

## Only model-checked

Liveness: `EveryRequestIsAnswered`, `LockEnds` and `UpdatesEnd`. Fairness and leads-to are out of the
prover's reach. Every other property of a passing run is a theorem.

## Where the code and the specifications differ

Three have a run that shows them:

1. *A removed permission stays granted* (`rbac_update`). `permission.deleteMany` becomes a soft delete, the
   resolver does not look at `isActive`, and a narrowed scope collides with the soft-deleted row.
   specs/004-rbac/spec.md:99-100.
2. *Writes by authenticated users are not recorded* (`audit_dropped`). Audit columns add `createdById` to
   the change record, which has no such field; the error is swallowed.
   specs/005-audit-infrastructure/spec.md:65-67.
3. *Reuse of a refresh token does not end the session* (`tokens_reuse`). `invalidateFamily` follows
   `token.replacements`, in `schema.prisma` the rows this one replaced, so it walks away from the live token
   and revokes what is revoked already. specs/003-authentication/spec.md:61-64 and 129-131;
   token.service.ts:77 calls it "the entire family".

The following were met while modelling. The models have them; no run is dedicated to them.

- Writes of login and refresh may be [lost and answered](#lost-writes), in which case specs/005:76-78 and
  131-134 ("MUST still complete") are not kept, and neither is what relies on the write: the failures before a lock
  are not five (specs/003:132-134, 165-166), a rotated token stays valid next to its successor (127-128), and a
  login is answered with a refresh token that does not exist.
- Two concurrent uses of a refresh token both succeed (specs/003:104-105), and a logout that overlaps a
  rotation leaves the successor live (68-69). Hence `contended` in `TokenChains`.
- A refresh signs the first membership's tenant, not the one the user switched to (specs/003:95-98,
  specs/002:105-108).
- Concurrent failures are lost from the counter (specs/003:132-134), and an attempt in flight clears a lock
  (165-166). Hence `overlap` in `LockoutSerial`.
- Without row-level security a caller without a tenant is not filtered (specs/002, FR-006, line 138); with
  it, `me/tenants` and the memberships of login and refresh are empty for lack of `app.tenant_id`
  (specs/002 contracts/users.md:132-135). After a connection was used for a tenant, the same statement
  fails instead (`''::uuid`).
- A tenant user's `findUnique` on a membership is refused: `switchTenantContext` fails for one, and so does
  every route with `@RequirePermissions`, whose resolver uses it.
- `jwt.strategy` drops the platform-admin claim, so the bypasses of `PermissionsGuard` (46-60) and
  `OwnershipScopeInterceptor` (53-55) and the log of `SuperadminAuditInterceptor` (23) never take effect.
- The resolver does not ask whether the membership is active; `TenantGuard` does not ask whether there is
  one (specs/002, FR-012, 150-156); `rotateToken` does not ask whether the user is active.
- `deleteRole` may delete a role that is being assigned (specs/004, FR-012, line 127).
- `maxUsers` is not looked at when a member is added (specs/002, FR-014, 162-165), and a tenant may be
  moved to a plan that is deleted.
- When the database fails the insert of a change record, the transaction is aborted, its COMMIT rolls back,
  and the request is answered with success (specs/005:76-78, 131-134).
- Soft deletes, `updateMany`, `upsert` and all writes of memberships are not captured (specs/005:116-118).
  Concurrent updates may record the same old value.
- The access log of an authenticated request is refused for the same reason as in 2; a request a guard
  rejects never reaches the interceptor (specs/005:31-33), so the entry of a 401 that
  `test/audit/access-log-capture.e2e-spec.ts:134-149` looks for is not made.
- A deactivated member cannot be added again: `(tenantId, userId)` is unique over inactive rows too
  (`tenant-users.service.ts:15`).
- `users.get` lacks the own-record check (specs/002 contracts/users.md:94).
- Two rows may have one email, of which login's `findFirst` may pick the inactive one. It takes a race:
  `create` finds deactivated rows, too (`users.service.ts:30-35`), so a user cannot simply be created again
  after a soft delete, but a creation and a deletion may both fall into the bcrypt of another creation.

## Not modelled

- **Rate limiting** is a library's counters in memory. `Lockout` assumes nothing of it: the wrong
  passwords a client may try in a window are bounded by it alone, the stored ones by `StoredFailuresAreBounded`.
- **Validation, start-up, configuration, logging, health**: pure or I/O. The models start from validated
  input; an error is an action that changes nothing, or `Abort`. `Accounts` has the status of an error, not
  its texts.
- **Seeds and scripts** run alone, by hand, on an idle database. What they leave is modelled: the constant
  `SystemRole` of `Rbac` and the initial state of `Accounts`. The migration of member roles and the
  performance script are not.
- **specs/006 to 012** have no code.
- **Expiry of refresh tokens**: an expired token is answered 401 and changes nothing, so expiry only takes
  behaviours away; `RefreshTokens` lets every token be presented as if it had not expired.
- Inside modelled parts: names, descriptions, hashes, redaction of values, filters of lists and offset
  paging are abstracted away. `createMany`, `upsert` and `deleteMany` on memberships are handled by the
  extension and used by no service.

## Plan

The order is that of what can go wrong most. Done: the token store, lockout, tenant isolation, roles, plans,
access windows, change-data capture and the access log, accounts and the answers they give, and proofs of
all of them. Left:

1. **The tenant a refresh signs**, as a run of `Access` with two tenants.
2. **The request pipeline**: the context of one request from middleware to extension, and what a rejected
   request leaves, composed with `TenantScope`.
