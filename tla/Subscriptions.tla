--------------------------- MODULE Subscriptions ---------------------------
(***************************************************************************)
(* Plans, the tenants subscribed to them and the tenants' members:         *)
(* PlansService, TenantsService and the membership calls, cut at every     *)
(* database round trip.  No call runs in a transaction, so a check and the *)
(* write it guards are separate statements.                                *)
(*                                                                         *)
(* Of the rows only what the checks look at is kept, so updates that leave *)
(* out maxUsers or planId are no steps.  Nothing is ever deleted           *)
(* physically, and nothing deactivated comes back.                         *)
(***************************************************************************)
EXTENDS Integers, FiniteSets

CONSTANTS Plan, Tenant, User,
          Limit,       \* values of maxUsers
          Request,
          MaxMembers   \* bound: rows of tenant_users

ASSUME SubscriptionsAssumption == Limit \subseteq Nat \ {0} /\ MaxMembers \in Nat

VARIABLES
  plans,     \* plans: is_active and max_users
  tenants,   \* tenants: plan_id and is_active
  members,   \* tenant_users: is_active of each <<tenant, user>>
  req,       \* what each request is doing
  moved,     \* history: tenants that were moved to a plan already deleted
  raced,     \* history: plans whose deletion met a tenant's creation or move
  overlap    \* history: two requests were in progress together

vars == <<plans, tenants, members, req, moved, raced, overlap>>

Idle == [pc |-> "idle"]

Busy == [pc : {"count", "group", "write"}, plan : Plan, max : Limit]
        \cup [pc : {"delete count", "delete"}, plan : Plan]
        \cup [pc : {"insert"}, plan : Plan]
        \cup [pc : {"move"}, tenant : Tenant, plan : Plan]
        \cup [pc : {"drop"}, tenant : Tenant]

Init == /\ plans = << >> /\ tenants = << >> /\ members = << >>
        /\ req = [r \in Request |-> Idle]
        /\ moved = {} /\ raced = {} /\ overlap = FALSE

Become(r, state) == req' = [req EXCEPT ![r] = state]

With(f, x, v) == [y \in DOMAIN f \cup {x} |-> IF y = x THEN v ELSE f[y]]

-----------------------------------------------------------------------------
\* Plans

CreatePlan(r) ==
  /\ req[r] = Idle
  /\ \E p \in Plan \ DOMAIN plans, n \in Limit :
       plans' = With(plans, p, [active |-> TRUE, max |-> n])
  /\ UNCHANGED <<tenants, members, req, moved>>

\* update: get.
UpdateGet(r) ==
  /\ req[r] = Idle
  /\ \E p \in DOMAIN plans, n \in Limit :
       Become(r, [pc |-> "count", plan |-> p, max |-> n])
  /\ UNCHANGED <<plans, tenants, members, moved>>

\* tenant.count: active tenants on the plan.
Subscribers(p) == {t \in DOMAIN tenants : tenants[t].plan = p /\ tenants[t].active}

\* Faulty variant: without active tenants nothing is written.
UpdateCountRefuses(r) ==
  /\ req[r].pc = "count"
  /\ Become(r, IF Subscribers(req[r].plan) = {} THEN Idle
               ELSE [req[r] EXCEPT !.pc = "group"])
  /\ UNCHANGED <<plans, tenants, members, moved>>

UpdateCount(r) ==
  /\ req[r].pc = "count"
  /\ Become(r, [req[r] EXCEPT !.pc =
                  IF Subscribers(req[r].plan) = {} THEN "write" ELSE "group"])
  /\ UNCHANGED <<plans, tenants, members, moved>>

MembersOf(t) == {u \in User : <<t, u>> \in DOMAIN members /\ members[<<t, u>>]}

\* Faulty variant: off by one.
FitsLess(p, n) ==
  \A t \in DOMAIN tenants : tenants[t].plan = p => Cardinality(MembersOf(t)) <= n + 1

\* tenantUser.groupBy: members of all tenants on the plan, inactive ones too.
Fits(p, n) ==
  \A t \in DOMAIN tenants : tenants[t].plan = p => Cardinality(MembersOf(t)) <= n

\* 409 when a tenant would not fit.
UpdateGroup(r) ==
  /\ req[r].pc = "group"
  /\ Become(r, IF Fits(req[r].plan, req[r].max) THEN [req[r] EXCEPT !.pc = "write"]
               ELSE Idle)
  /\ UNCHANGED <<plans, tenants, members, moved>>

UpdateWrite(r) ==
  /\ req[r].pc = "write"
  /\ plans' = [plans EXCEPT ![req[r].plan].max = req[r].max]
  /\ Become(r, Idle)
  /\ UNCHANGED <<tenants, members, moved>>

\* softDelete: get, count, write.
DeleteGet(r) ==
  /\ req[r] = Idle
  /\ \E p \in DOMAIN plans : Become(r, [pc |-> "delete count", plan |-> p])
  /\ UNCHANGED <<plans, tenants, members, moved>>

\* Faulty variant: the plan may have one last tenant.
DeleteCountOne(r) ==
  /\ req[r].pc = "delete count"
  /\ Become(r, IF Cardinality(Subscribers(req[r].plan)) > 1 THEN Idle
               ELSE [req[r] EXCEPT !.pc = "delete"])
  /\ UNCHANGED <<plans, tenants, members, moved>>

\* 409 when the plan is in use.
DeleteCount(r) ==
  /\ req[r].pc = "delete count"
  /\ Become(r, IF Subscribers(req[r].plan) # {} THEN Idle
               ELSE [req[r] EXCEPT !.pc = "delete"])
  /\ UNCHANGED <<plans, tenants, members, moved>>

Delete(r) ==
  /\ req[r].pc = "delete"
  /\ plans' = [plans EXCEPT ![req[r].plan].active = FALSE]
  /\ Become(r, Idle)
  /\ UNCHANGED <<tenants, members, moved>>

-----------------------------------------------------------------------------
\* Tenants

\* create: the plan must be there and active (404).
CreateRead(r) ==
  /\ req[r] = Idle
  /\ \E p \in DOMAIN plans : /\ plans[p].active
                             /\ Become(r, [pc |-> "insert", plan |-> p])
  /\ UNCHANGED <<plans, tenants, members, moved>>

\* Faulty variant: the new row overwrites an old one.
CreateInsertAnywhere(r) ==
  /\ req[r].pc = "insert"
  /\ \E t \in Tenant :
       tenants' = With(tenants, t, [plan |-> req[r].plan, active |-> TRUE])
  /\ Become(r, Idle)
  /\ UNCHANGED <<plans, members, moved>>

CreateInsert(r) ==
  /\ req[r].pc = "insert"
  /\ \E t \in Tenant \ DOMAIN tenants :
       tenants' = With(tenants, t, [plan |-> req[r].plan, active |-> TRUE])
  /\ Become(r, Idle)
  /\ UNCHANGED <<plans, members, moved>>

\* update: the plan it names is not looked at.
MoveRead(r) ==
  /\ req[r] = Idle
  /\ \E t \in DOMAIN tenants, p \in DOMAIN plans :
       Become(r, [pc |-> "move", tenant |-> t, plan |-> p])
  /\ UNCHANGED <<plans, tenants, members, moved>>

Move(r) ==
  /\ req[r].pc = "move"
  /\ tenants' = [tenants EXCEPT ![req[r].tenant].plan = req[r].plan]
  /\ moved' = IF plans[req[r].plan].active THEN moved \ {req[r].tenant}
              ELSE moved \cup {req[r].tenant}
  /\ Become(r, Idle)
  /\ UNCHANGED <<plans, members>>

DropRead(r) ==
  /\ req[r] = Idle
  /\ \E t \in DOMAIN tenants : Become(r, [pc |-> "drop", tenant |-> t])
  /\ UNCHANGED <<plans, tenants, members, moved>>

Drop(r) ==
  /\ req[r].pc = "drop"
  /\ tenants' = [tenants EXCEPT ![req[r].tenant].active = FALSE]
  /\ Become(r, Idle)
  /\ UNCHANGED <<plans, members, moved>>

-----------------------------------------------------------------------------
\* Members: one statement each (see TenantScope for what is around it).  The
\* plan's limit is not asked for, nor whether the tenant is active.

\* Faulty variant: the tenant need not be there.
CreateMemberUnreferenced(r) ==
  /\ req[r] = Idle
  /\ Cardinality(DOMAIN members) < MaxMembers
  /\ \E t \in Tenant, u \in User :
       /\ <<t, u>> \notin DOMAIN members
       /\ members' = With(members, <<t, u>>, TRUE)
  /\ UNCHANGED <<plans, tenants, req, moved>>

CreateMember(r) ==
  /\ req[r] = Idle
  /\ Cardinality(DOMAIN members) < MaxMembers
  /\ \E t \in DOMAIN tenants, u \in User :
       /\ <<t, u>> \notin DOMAIN members
       /\ members' = With(members, <<t, u>>, TRUE)
  /\ UNCHANGED <<plans, tenants, req, moved>>

Deactivate(r) ==
  /\ req[r] = Idle
  /\ \E m \in DOMAIN members : members' = [members EXCEPT ![m] = FALSE]
  /\ UNCHANGED <<plans, tenants, req, moved>>

-----------------------------------------------------------------------------
\* The next statement fails (a taken slug, a lost connection) or the process
\* dies: what was written stays.
Abort(r) ==
  /\ req[r] # Idle
  /\ Become(r, Idle)
  /\ UNCHANGED <<plans, tenants, members, moved>>

Arrive(r) == \/ CreatePlan(r) \/ UpdateGet(r) \/ DeleteGet(r)
             \/ CreateRead(r) \/ MoveRead(r) \/ DropRead(r)
             \/ CreateMember(r) \/ Deactivate(r)

Step(r) == \/ UpdateCount(r) \/ UpdateGroup(r) \/ UpdateWrite(r)
           \/ DeleteCount(r) \/ Delete(r)
           \/ CreateInsert(r) \/ Move(r) \/ Drop(r)
           \/ Abort(r)

\* Plans with a deletion that has counted and a tenant about to be put on them.
Racing == {p \in Plan : \E q, r \in Request :
             req[q].pc = "delete" /\ req[r].pc \in {"insert", "move"}
             /\ req[q].plan = p /\ req[r].plan = p}

\* The history variables, which no action depends on.
Watch ==
  /\ raced' = raced \cup Racing'
  /\ overlap' = (overlap \/ \E q, r \in Request : q # r /\ req[q] # Idle /\ Arrive(r))

Next == (\E r \in Request : Arrive(r) \/ Step(r)) /\ Watch

Spec == Init /\ [][Next]_vars

-----------------------------------------------------------------------------
\* Type invariant.
TypeOK ==
  /\ DOMAIN plans \subseteq Plan
  /\ plans \in [DOMAIN plans -> [active : BOOLEAN, max : Limit]]
  /\ DOMAIN tenants \subseteq Tenant
  /\ tenants \in [DOMAIN tenants -> [plan : DOMAIN plans, active : BOOLEAN]]
  /\ DOMAIN members \subseteq (DOMAIN tenants) \X User
  /\ members \in [DOMAIN members -> BOOLEAN]
  /\ req \in [Request -> {Idle} \cup Busy]
  /\ moved \subseteq DOMAIN tenants /\ raced \subseteq DOMAIN plans

\* An active tenant's plan is active, but for two causes: the tenant was moved
\* to a plan already deleted, or the plan's deletion had counted its tenants and
\* not yet written when a creation or a move was about to add one.
PlansInUseStay ==
  \A t \in DOMAIN tenants :
    tenants[t].active =>
      plans[tenants[t].plan].active \/ t \in moved \/ tenants[t].plan \in raced

Contract == INSTANCE PlanContract

\* Until requests overlap, whatever fails, every call has the effect the
\* contracts give it, in one step, or none.
SerialImplementsContract ==
  Contract!Init /\ [][overlap' \/ Contract!Next]_<<plans, tenants, members>>
=============================================================================
