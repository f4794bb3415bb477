---------------------------- MODULE PlanContract ----------------------------
(***************************************************************************)
(* What the contracts of /tenancy/plans and /tenancy/tenants promise, each *)
(* call in one step: a plan is only deleted when no active tenant is on    *)
(* it, its user limit is never set below the members a tenant has, and a   *)
(* tenant starts on an active plan.                                        *)
(***************************************************************************)
EXTENDS Integers, FiniteSets

CONSTANTS Plan, Tenant, User, Limit

VARIABLES plans, tenants, members

vars == <<plans, tenants, members>>

Init == plans = << >> /\ tenants = << >> /\ members = << >>

With(f, x, v) == [y \in DOMAIN f \cup {x} |-> IF y = x THEN v ELSE f[y]]

Subscribers(p) == {t \in DOMAIN tenants : tenants[t].plan = p /\ tenants[t].active}

MembersOf(t) == {u \in User : <<t, u>> \in DOMAIN members /\ members[<<t, u>>]}

\* Plans are created active.
AddPlan(p, n) == /\ p \notin DOMAIN plans
                 /\ plans' = With(plans, p, [active |-> TRUE, max |-> n])
                 /\ UNCHANGED <<tenants, members>>

SetLimit(p, n) == /\ \A t \in Subscribers(p) : Cardinality(MembersOf(t)) <= n
                  /\ plans' = [plans EXCEPT ![p].max = n]
                  /\ UNCHANGED <<tenants, members>>

DropPlan(p) == /\ Subscribers(p) = {}
               /\ plans' = [plans EXCEPT ![p].active = FALSE]
               /\ UNCHANGED <<tenants, members>>

AddTenant(t, p) == /\ t \notin DOMAIN tenants /\ plans[p].active
                   /\ tenants' = With(tenants, t, [plan |-> p, active |-> TRUE])
                   /\ UNCHANGED <<plans, members>>

\* A change of plan is unconditional, until billing takes it over.
MoveTenant(t, p) == /\ tenants' = [tenants EXCEPT ![t].plan = p]
                    /\ UNCHANGED <<plans, members>>

DropTenant(t) == /\ tenants' = [tenants EXCEPT ![t].active = FALSE]
                 /\ UNCHANGED <<plans, members>>

AddMember(t, u) == /\ <<t, u>> \notin DOMAIN members
                   /\ members' = With(members, <<t, u>>, TRUE)
                   /\ UNCHANGED <<plans, tenants>>

DropMember(m) == /\ members' = [members EXCEPT ![m] = FALSE]
                 /\ UNCHANGED <<plans, tenants>>

Next == \/ \E p \in Plan, n \in Limit : AddPlan(p, n)
        \/ \E p \in DOMAIN plans : DropPlan(p) \/ \E n \in Limit : SetLimit(p, n)
        \/ \E t \in Tenant, p \in DOMAIN plans : AddTenant(t, p)
        \/ \E t \in DOMAIN tenants : \/ DropTenant(t)
                                     \/ \E p \in DOMAIN plans : MoveTenant(t, p)
                                     \/ \E u \in User : AddMember(t, u)
        \/ \E m \in DOMAIN members : DropMember(m)

Spec == Init /\ [][Next]_vars
=============================================================================
