------------------------ MODULE Subscriptions_proofs ------------------------
(***************************************************************************)
(* Proofs about Subscriptions.  What a request has checked is remembered    *)
(* in the invariant as what is still true of it unless the race the history *)
(* variables record has happened.                                           *)
(***************************************************************************)
EXTENDS Subscriptions, TLAPS

\* The rows a request has read exist: nothing is deleted physically.
RowsRead ==
  \A r \in Request :
    /\ req[r].pc \in {"count", "group", "write", "delete count", "delete", "insert", "move"}
         => req[r].plan \in DOMAIN plans
    /\ req[r].pc \in {"move", "drop"} => req[r].tenant \in DOMAIN tenants

\* No active tenant of the table is on the plan.
Free(p, table) == \A t \in DOMAIN table : table[t].active => table[t].plan # p

\* What was true when it was checked, or has been raced.
Counted ==
  \A r \in Request :
    /\ req[r].pc = "delete" => Free(req[r].plan, tenants) \/ req[r].plan \in raced
    /\ req[r].pc = "insert" => plans[req[r].plan].active \/ req[r].plan \in raced

IInv == TypeOK /\ RowsRead /\ Racing \subseteq raced /\ Counted /\ PlansInUseStay

-----------------------------------------------------------------------------
\* The steps that only move a request on leave the tables alone.
Quiet(r) == \/ UpdateGet(r) \/ UpdateCount(r) \/ UpdateGroup(r)
            \/ DeleteGet(r) \/ DeleteCount(r) \/ CreateRead(r)
            \/ MoveRead(r) \/ DropRead(r) \/ Abort(r)

Changes(r) == \/ CreatePlan(r) \/ UpdateWrite(r) \/ Delete(r) \/ CreateInsert(r)
              \/ Move(r) \/ Drop(r) \/ CreateMember(r) \/ Deactivate(r)

LEMMA StepKinds == \A r : Arrive(r) \/ Step(r) <=> Quiet(r) \/ Changes(r)
BY DEF Arrive, Step, Quiet, Changes

-----------------------------------------------------------------------------
\* Types

TablesOK ==
  /\ DOMAIN plans \subseteq Plan
  /\ plans \in [DOMAIN plans -> [active : BOOLEAN, max : Limit]]
  /\ DOMAIN tenants \subseteq Tenant
  /\ tenants \in [DOMAIN tenants -> [plan : DOMAIN plans, active : BOOLEAN]]
  /\ DOMAIN members \subseteq (DOMAIN tenants) \X User
  /\ members \in [DOMAIN members -> BOOLEAN]
  /\ moved \subseteq DOMAIN tenants

Grow == DOMAIN plans \subseteq DOMAIN plans' /\ DOMAIN tenants \subseteq DOMAIN tenants'

\* What a request carries from its pc.
LEMMA Shapes ==
  ASSUME NEW s \in {Idle} \cup Busy
  PROVE  /\ s.pc \in {"count", "group", "write"} =>
              /\ s.plan \in Plan /\ s.max \in Limit
              /\ \A pc \in {"count", "group", "write"} :
                   LET t == [s EXCEPT !.pc = pc]
                   IN  t \in Busy /\ t.pc = pc /\ t.plan = s.plan /\ t.max = s.max
         /\ s.pc \in {"delete count", "delete"} =>
              /\ s.plan \in Plan
              /\ \A pc \in {"delete count", "delete"} :
                   LET t == [s EXCEPT !.pc = pc] IN t \in Busy /\ t.pc = pc /\ t.plan = s.plan
<1>1. CASE s \in [pc : {"count", "group", "write"}, plan : Plan, max : Limit]
  BY <1>1 DEF Busy
<1>2. CASE s \in [pc : {"delete count", "delete"}, plan : Plan]
  BY <1>2 DEF Busy
<1>3. CASE s.pc \in {"idle", "insert", "move", "drop"}
  BY <1>3
<1>4. \/ s \in [pc : {"count", "group", "write"}, plan : Plan, max : Limit]
      \/ s \in [pc : {"delete count", "delete"}, plan : Plan]
      \/ s.pc \in {"idle", "insert", "move", "drop"}
  <2>1. CASE s = Idle
    BY <2>1 DEF Idle
  <2>2. CASE s \in [pc : {"insert"}, plan : Plan]
    BY <2>2
  <2>3. CASE s \in [pc : {"move"}, tenant : Tenant, plan : Plan]
    BY <2>3
  <2>4. CASE s \in [pc : {"drop"}, tenant : Tenant]
    BY <2>4
  <2> QED BY <2>1, <2>2, <2>3, <2>4 DEF Busy
<1> QED BY <1>1, <1>2, <1>3, <1>4

LEMMA Tables ==
  ASSUME TypeOK, RowsRead, NEW r \in Request, Arrive(r) \/ Step(r)
  PROVE  TablesOK' /\ Grow
<1>0. TablesOK
  BY DEF TypeOK, TablesOK
<1>1. CASE Quiet(r)
  <2>1. UNCHANGED <<plans, tenants, members, moved>>
    BY <1>1 DEF Quiet, UpdateGet, UpdateCount, UpdateGroup, DeleteGet, DeleteCount,
                CreateRead, MoveRead, DropRead, Abort
  <2> QED BY <1>0, <2>1 DEF TablesOK, Grow
<1>2. CASE CreatePlan(r)
  <2>1. PICK p \in Plan \ DOMAIN plans, n \in Limit :
          /\ plans' = With(plans, p, [active |-> TRUE, max |-> n])
          /\ UNCHANGED <<tenants, members, moved>>
    BY <1>2 DEF CreatePlan
  <2>2. /\ DOMAIN plans' = DOMAIN plans \cup {p}
        /\ plans' \in [DOMAIN plans' -> [active : BOOLEAN, max : Limit]]
    BY <1>0, <2>1 DEF With, TablesOK
  <2> QED BY <1>0, <2>1, <2>2 DEF TablesOK, Grow
<1>3. CASE UpdateWrite(r)
  <2>1. /\ plans' = [plans EXCEPT ![req[r].plan].max = req[r].max]
        /\ UNCHANGED <<tenants, members, moved>>
        /\ req[r].plan \in DOMAIN plans /\ req[r].max \in Limit
    BY <1>3, Shapes DEF UpdateWrite, RowsRead, TypeOK
  <2>2. PICK v \in [active : BOOLEAN, max : Limit] : plans' = [plans EXCEPT ![req[r].plan] = v]
    BY <1>0, <2>1 DEF TablesOK
  <2> QED BY <1>0, <2>1, <2>2 DEF TablesOK, Grow
<1>4. CASE Delete(r)
  <2>1. /\ plans' = [plans EXCEPT ![req[r].plan].active = FALSE]
        /\ UNCHANGED <<tenants, members, moved>> /\ req[r].plan \in DOMAIN plans
    BY <1>4 DEF Delete, RowsRead
  <2>2. PICK v \in [active : BOOLEAN, max : Limit] : plans' = [plans EXCEPT ![req[r].plan] = v]
    BY <1>0, <2>1 DEF TablesOK
  <2> QED BY <1>0, <2>1, <2>2 DEF TablesOK, Grow
<1>5. CASE CreateInsert(r)
  <2>1. PICK t \in Tenant \ DOMAIN tenants :
          /\ tenants' = With(tenants, t, [plan |-> req[r].plan, active |-> TRUE])
          /\ UNCHANGED <<plans, members, moved>> /\ req[r].plan \in DOMAIN plans
    BY <1>5 DEF CreateInsert, RowsRead
  <2>2. /\ DOMAIN tenants' = DOMAIN tenants \cup {t}
        /\ tenants' \in [DOMAIN tenants' -> [plan : DOMAIN plans, active : BOOLEAN]]
    BY <1>0, <2>1 DEF With, TablesOK
  <2> QED BY <1>0, <2>1, <2>2 DEF TablesOK, Grow
<1>6. CASE Move(r)
  <2>1. /\ tenants' = [tenants EXCEPT ![req[r].tenant].plan = req[r].plan]
        /\ UNCHANGED <<plans, members>> /\ moved' \subseteq moved \cup {req[r].tenant}
        /\ req[r].tenant \in DOMAIN tenants /\ req[r].plan \in DOMAIN plans
    BY <1>6 DEF Move, RowsRead
  <2>2. PICK v \in [plan : DOMAIN plans, active : BOOLEAN] :
          tenants' = [tenants EXCEPT ![req[r].tenant] = v]
    BY <1>0, <2>1 DEF TablesOK
  <2> QED BY <1>0, <2>1, <2>2 DEF TablesOK, Grow
<1>7. CASE Drop(r)
  <2>1. /\ tenants' = [tenants EXCEPT ![req[r].tenant].active = FALSE]
        /\ UNCHANGED <<plans, members, moved>> /\ req[r].tenant \in DOMAIN tenants
    BY <1>7 DEF Drop, RowsRead
  <2>2. PICK v \in [plan : DOMAIN plans, active : BOOLEAN] :
          tenants' = [tenants EXCEPT ![req[r].tenant] = v]
    BY <1>0, <2>1 DEF TablesOK
  <2> QED BY <1>0, <2>1, <2>2 DEF TablesOK, Grow
<1>8. CASE CreateMember(r)
  <2>1. PICK t \in DOMAIN tenants, u \in User :
          /\ members' = With(members, <<t, u>>, TRUE)
          /\ UNCHANGED <<plans, tenants, moved>>
    BY <1>8 DEF CreateMember
  <2>2. /\ DOMAIN members' = DOMAIN members \cup {<<t, u>>}
        /\ members' \in [DOMAIN members' -> BOOLEAN]
    BY <1>0, <2>1 DEF With, TablesOK
  <2>3. DOMAIN members' \subseteq (DOMAIN tenants) \X User
    BY <1>0, <2>2 DEF TablesOK
  <2> QED BY <1>0, <2>1, <2>2, <2>3 DEF TablesOK, Grow
<1>9. CASE Deactivate(r)
  <2>1. PICK m \in DOMAIN members : /\ members' = [members EXCEPT ![m] = FALSE]
                                    /\ UNCHANGED <<plans, tenants, moved>>
    BY <1>9 DEF Deactivate
  <2> QED BY <1>0, <2>1 DEF TablesOK, Grow
<1> QED BY <1>1, <1>2, <1>3, <1>4, <1>5, <1>6, <1>7, <1>8, <1>9, StepKinds DEF Changes

\* The requests' side: each step moves one request, to a state that is typed.
ReadOK(s) ==
  /\ s \in {Idle} \cup Busy
  /\ s.pc \in {"count", "group", "write", "delete count", "delete", "insert", "move"}
       => s.plan \in DOMAIN plans
  /\ s.pc \in {"move", "drop"} => s.tenant \in DOMAIN tenants

LEMMA Advance ==
  ASSUME NEW s, ReadOK(s), s.pc \in {"count", "group"}, NEW pc \in {"group", "write"}
  PROVE  ReadOK([s EXCEPT !.pc = pc]) /\ [s EXCEPT !.pc = pc].pc = pc
<1>1. s \in {Idle} \cup Busy /\ s.plan \in DOMAIN plans
  BY DEF ReadOK
<1> DEFINE t == [s EXCEPT !.pc = pc]
<1>2. t \in Busy /\ t.pc = pc /\ t.plan = s.plan
  <2>1. \A x \in {"count", "group", "write"} :
          LET u == [s EXCEPT !.pc = x] IN u \in Busy /\ u.pc = x /\ u.plan = s.plan
    BY <1>1, Shapes
  <2>2. pc \in {"count", "group", "write"}
    OBVIOUS
  <2> HIDE DEF t
  <2>3. \A x \in {"count", "group", "write"} : t = [s EXCEPT !.pc = x] =>
          t \in Busy /\ t.pc = x /\ t.plan = s.plan
    BY <2>1
  <2> QED BY <2>2, <2>3 DEF t
<1>3. ReadOK(t)
  BY <1>1, <1>2 DEF ReadOK
<1> QED BY <1>2, <1>3

LEMMA Requests ==
  ASSUME TypeOK, RowsRead, NEW r \in Request, Arrive(r) \/ Step(r)
  PROVE  \E s : req' = [req EXCEPT ![r] = s] /\ ReadOK(s)
<1> USE DEF Become
<1>1. ReadOK(req[r]) /\ ReadOK(Idle)
  BY DEF TypeOK, RowsRead, ReadOK, Idle
<1>2. /\ DOMAIN plans \subseteq Plan /\ DOMAIN tenants \subseteq Tenant
      /\ req = [req EXCEPT ![r] = req[r]]
  BY DEF TypeOK
<1>3. CASE UpdateGet(r)
  <2>1. PICK p \in DOMAIN plans, n \in Limit :
          req' = [req EXCEPT ![r] = [pc |-> "count", plan |-> p, max |-> n]]
    BY <1>3 DEF UpdateGet
  <2>2. ReadOK([pc |-> "count", plan |-> p, max |-> n])
    BY <1>2 DEF ReadOK, Busy
  <2> QED BY <2>1, <2>2
<1>4. CASE DeleteGet(r)
  <2>1. PICK p \in DOMAIN plans : req' = [req EXCEPT ![r] = [pc |-> "delete count", plan |-> p]]
    BY <1>4 DEF DeleteGet
  <2>2. ReadOK([pc |-> "delete count", plan |-> p])
    BY <1>2 DEF ReadOK, Busy
  <2> QED BY <2>1, <2>2
<1>5. CASE CreateRead(r)
  <2>1. PICK p \in DOMAIN plans : req' = [req EXCEPT ![r] = [pc |-> "insert", plan |-> p]]
    BY <1>5 DEF CreateRead
  <2>2. ReadOK([pc |-> "insert", plan |-> p])
    BY <1>2 DEF ReadOK, Busy
  <2> QED BY <2>1, <2>2
<1>6. CASE MoveRead(r)
  <2>1. PICK t \in DOMAIN tenants, p \in DOMAIN plans :
          req' = [req EXCEPT ![r] = [pc |-> "move", tenant |-> t, plan |-> p]]
    BY <1>6 DEF MoveRead
  <2>2. ReadOK([pc |-> "move", tenant |-> t, plan |-> p])
    BY <1>2 DEF ReadOK, Busy
  <2> QED BY <2>1, <2>2
<1>7. CASE DropRead(r)
  <2>1. PICK t \in DOMAIN tenants : req' = [req EXCEPT ![r] = [pc |-> "drop", tenant |-> t]]
    BY <1>7 DEF DropRead
  <2>2. ReadOK([pc |-> "drop", tenant |-> t])
    BY <1>2 DEF ReadOK, Busy
  <2> QED BY <2>1, <2>2
<1>8. CASE UpdateCount(r)
  <2>1. req[r].pc = "count"
    BY <1>8 DEF UpdateCount
  <2>2. PICK pc \in {"group", "write"} : req' = [req EXCEPT ![r] = [req[r] EXCEPT !.pc = pc]]
    BY <1>8 DEF UpdateCount
  <2>3. ReadOK([req[r] EXCEPT !.pc = pc])
    BY <1>1, <2>1, Advance
  <2> QED BY <2>2, <2>3
<1>9. CASE UpdateGroup(r)
  <2>1. req[r].pc = "group"
    BY <1>9 DEF UpdateGroup
  <2>2. ReadOK([req[r] EXCEPT !.pc = "write"])
    BY <1>1, <2>1, Shapes DEF ReadOK
  <2> QED BY <1>1, <1>9, <2>2 DEF UpdateGroup
<1>10. CASE DeleteCount(r)
  <2>1. req[r].pc = "delete count"
    BY <1>10 DEF DeleteCount
  <2>2. ReadOK([req[r] EXCEPT !.pc = "delete"])
    BY <1>1, <2>1, Shapes DEF ReadOK
  <2> QED BY <1>1, <1>10, <2>2 DEF DeleteCount
<1>11. CASE CreatePlan(r) \/ CreateMember(r) \/ Deactivate(r)
  BY <1>1, <1>2, <1>11 DEF CreatePlan, CreateMember, Deactivate
<1>12. CASE UpdateWrite(r) \/ Delete(r) \/ CreateInsert(r) \/ Move(r) \/ Drop(r) \/ Abort(r)
  BY <1>1, <1>12 DEF UpdateWrite, Delete, CreateInsert, Move, Drop, Abort
<1> QED BY <1>3, <1>4, <1>5, <1>6, <1>7, <1>8, <1>9, <1>10, <1>11, <1>12 DEF Arrive, Step

LEMMA TypesStep == IInv /\ Next => TypeOK' /\ RowsRead' /\ (Racing \subseteq raced)'
<1> SUFFICES ASSUME IInv, Next PROVE TypeOK' /\ RowsRead' /\ (Racing \subseteq raced)'
  OBVIOUS
<1>1. PICK r \in Request : Arrive(r) \/ Step(r)
  BY DEF Next
<1>2. TypeOK /\ RowsRead /\ raced' = raced \cup Racing'
  BY DEF IInv, Next, Watch
<1>3. TablesOK' /\ Grow
  BY <1>1, <1>2, Tables
<1>4. PICK s : req' = [req EXCEPT ![r] = s] /\ ReadOK(s)
  BY <1>1, <1>2, Requests
<1>5. req' \in [Request -> {Idle} \cup Busy]
  BY <1>2, <1>4 DEF TypeOK, ReadOK
<1>6. RowsRead'
  <2> SUFFICES ASSUME NEW q \in Request
               PROVE  /\ req'[q].pc \in {"count", "group", "write", "delete count", "delete",
                                         "insert", "move"} => req'[q].plan \in DOMAIN plans'
                      /\ req'[q].pc \in {"move", "drop"} => req'[q].tenant \in DOMAIN tenants'
    BY DEF RowsRead
  <2>1. ReadOK(req'[q])
    <3>1. CASE q = r
      BY <1>2, <1>4, <3>1 DEF TypeOK
    <3>2. CASE q # r
      BY <1>2, <1>4, <3>2 DEF TypeOK, RowsRead, ReadOK
    <3> QED BY <3>1, <3>2
  <2> QED BY <2>1, <1>3 DEF ReadOK, Grow
<1>7. Racing' \subseteq DOMAIN plans'
  BY <1>6 DEF Racing, RowsRead
<1> QED BY <1>2, <1>3, <1>5, <1>6, <1>7 DEF TypeOK, TablesOK, Grow

-----------------------------------------------------------------------------
\* PlansInUseStay.  Only three steps can put an active tenant on a plan that is
\* not, or a tenant on a plan whose deletion has counted; the others are calm.

Calm ==
  /\ UNCHANGED moved
  /\ \A p \in DOMAIN plans : plans'[p].active = plans[p].active
  /\ \A t \in DOMAIN tenants' :
       tenants'[t].active => /\ t \in DOMAIN tenants /\ tenants[t].active
                             /\ tenants'[t].plan = tenants[t].plan

LEMMA CalmSteps ==
  ASSUME TypeOK, RowsRead, NEW r \in Request, Arrive(r) \/ Step(r),
         ~Delete(r), ~CreateInsert(r), ~Move(r)
  PROVE  Calm
<1>1. CASE Quiet(r)
  <2>1. UNCHANGED <<plans, tenants, moved>>
    BY <1>1 DEF Quiet, UpdateGet, UpdateCount, UpdateGroup, DeleteGet, DeleteCount,
                CreateRead, MoveRead, DropRead, Abort
  <2> QED BY <2>1 DEF Calm
<1>2. CASE CreatePlan(r)
  <2>1. PICK p \in Plan \ DOMAIN plans, n \in Limit :
          /\ plans' = With(plans, p, [active |-> TRUE, max |-> n])
          /\ UNCHANGED <<tenants, members, moved>>
    BY <1>2 DEF CreatePlan
  <2> QED BY <2>1 DEF With, Calm
<1>3. CASE UpdateWrite(r)
  <2>1. /\ plans' = [plans EXCEPT ![req[r].plan].max = req[r].max]
        /\ UNCHANGED <<tenants, members, moved>> /\ req[r].plan \in DOMAIN plans
    BY <1>3 DEF UpdateWrite, RowsRead
  <2>2. \A p \in DOMAIN plans : plans[p] \in [active : BOOLEAN, max : Limit]
    BY DEF TypeOK
  <2>3. \A p \in DOMAIN plans : plans'[p].active = plans[p].active
    BY <2>1, <2>2 DEF TypeOK
  <2> QED BY <2>1, <2>3 DEF Calm
<1>4. CASE Drop(r)
  <2>1. /\ tenants' = [tenants EXCEPT ![req[r].tenant].active = FALSE]
        /\ UNCHANGED <<plans, members, moved>> /\ req[r].tenant \in DOMAIN tenants
    BY <1>4 DEF Drop, RowsRead
  <2>2. \A t \in DOMAIN tenants : tenants[t] \in [plan : DOMAIN plans, active : BOOLEAN]
    BY DEF TypeOK
  <2>3. /\ DOMAIN tenants' = DOMAIN tenants
        /\ \A t \in DOMAIN tenants : tenants'[t].active => tenants[t].active
        /\ \A t \in DOMAIN tenants : tenants'[t].plan = tenants[t].plan
    BY <2>1, <2>2 DEF TypeOK
  <2> QED BY <2>1, <2>3 DEF Calm
<1>5. CASE CreateMember(r) \/ Deactivate(r)
  BY <1>5 DEF CreateMember, Deactivate, Calm
<1> QED BY <1>1, <1>2, <1>3, <1>4, <1>5, StepKinds DEF Changes

\* A request that is to delete or insert now either was, or has just checked.
LEMMA JustChecked ==
  ASSUME TypeOK, RowsRead, NEW r \in Request, Arrive(r) \/ Step(r)
  PROVE  /\ \A q \in Request : q # r => req'[q] = req[q]
         /\ req'[r].pc = "delete" =>
              \/ req'[r] = req[r]
              \/ Subscribers(req'[r].plan) = {} /\ UNCHANGED tenants
         /\ req'[r].pc = "insert" =>
              \/ req'[r] = req[r]
              \/ req'[r].plan \in DOMAIN plans /\ plans[req'[r].plan].active /\ UNCHANGED plans
<1>0. req \in [Request -> {Idle} \cup Busy]
  BY DEF TypeOK
<1>1. \A q \in Request : q # r => req'[q] = req[q]
  <2>1. PICK s : req' = [req EXCEPT ![r] = s]
    BY Requests
  <2> QED BY <1>0, <2>1
<1>2. CASE DeleteCount(r)
  <2>1. req[r] \in {Idle} \cup Busy /\ req[r].pc = "delete count"
    BY <1>0, <1>2 DEF DeleteCount
  <2>2. /\ [req[r] EXCEPT !.pc = "delete"].plan = req[r].plan
        /\ [req[r] EXCEPT !.pc = "delete"].pc = "delete"
    BY <2>1, Shapes
  <2>3. CASE Subscribers(req[r].plan) = {}
    <3>1. req'[r] = [req[r] EXCEPT !.pc = "delete"] /\ UNCHANGED tenants
      BY <1>0, <1>2, <2>3 DEF DeleteCount, Become
    <3>2. req'[r].plan = req[r].plan /\ req'[r].pc = "delete"
      BY <2>2, <3>1
    <3>3. Subscribers(req'[r].plan) = {}
      BY <2>3, <3>2
    <3> QED BY <1>1, <3>1, <3>2, <3>3
  <2>4. CASE Subscribers(req[r].plan) # {}
    <3>1. req'[r] = Idle
      BY <1>0, <1>2, <2>4 DEF DeleteCount, Become
    <3> QED BY <1>1, <3>1 DEF Idle
  <2> QED BY <2>3, <2>4
<1>3. CASE CreateRead(r)
  <2>1. PICK p \in DOMAIN plans : /\ plans[p].active
                                  /\ req' = [req EXCEPT ![r] = [pc |-> "insert", plan |-> p]]
                                  /\ UNCHANGED plans
    BY <1>3 DEF CreateRead, Become
  <2>2. req'[r] = [pc |-> "insert", plan |-> p]
    BY <1>0, <2>1
  <2> QED BY <1>1, <2>1, <2>2
<1>4. CASE CreatePlan(r) \/ CreateMember(r) \/ Deactivate(r)
  BY <1>1, <1>4 DEF CreatePlan, CreateMember, Deactivate
<1>5. CASE UpdateGet(r) \/ DeleteGet(r) \/ MoveRead(r) \/ DropRead(r)
  <2>1. req'[r].pc \in {"count", "delete count", "move", "drop"}
    <3>1. CASE UpdateGet(r)
      BY <1>0, <3>1 DEF UpdateGet, Become
    <3>2. CASE DeleteGet(r)
      <4>1. PICK p : req' = [req EXCEPT ![r] = [pc |-> "delete count", plan |-> p]]
        BY <3>2 DEF DeleteGet, Become
      <4> QED BY <1>0, <4>1
    <3>3. CASE MoveRead(r)
      BY <1>0, <3>3 DEF MoveRead, Become
    <3>4. CASE DropRead(r)
      BY <1>0, <3>4 DEF DropRead, Become
    <3> QED BY <1>5, <3>1, <3>2, <3>3, <3>4
  <2> QED BY <1>1, <2>1
<1>6. CASE UpdateCount(r) \/ UpdateGroup(r)
  <2>1. req[r] \in {Idle} \cup Busy /\ req[r].pc \in {"count", "group", "write"}
    BY <1>0, <1>6 DEF UpdateCount, UpdateGroup
  <2>2. /\ [req[r] EXCEPT !.pc = "group"].pc = "group"
        /\ [req[r] EXCEPT !.pc = "write"].pc = "write"
    BY <2>1, Shapes
  <2>3. req'[r] \in {Idle, [req[r] EXCEPT !.pc = "group"], [req[r] EXCEPT !.pc = "write"]}
    BY <1>0, <1>6 DEF UpdateCount, UpdateGroup, Become
  <2>4. req'[r].pc \in {"idle", "group", "write"}
    <3>1. CASE req'[r] = Idle
      BY <3>1 DEF Idle
    <3>2. CASE req'[r] = [req[r] EXCEPT !.pc = "group"]
      BY <2>2, <3>2
    <3>3. CASE req'[r] = [req[r] EXCEPT !.pc = "write"]
      BY <2>2, <3>3
    <3> QED BY <2>3, <3>1, <3>2, <3>3
  <2> QED BY <1>1, <2>4
<1>7. CASE UpdateWrite(r) \/ Delete(r) \/ CreateInsert(r) \/ Move(r) \/ Drop(r) \/ Abort(r)
  <2>1. req'[r] = Idle
    BY <1>0, <1>7 DEF UpdateWrite, Delete, CreateInsert, Move, Drop, Abort, Become
  <2> QED BY <1>1, <2>1 DEF Idle
<1> QED BY <1>2, <1>3, <1>4, <1>5, <1>6, <1>7 DEF Arrive, Step

LEMMA FreeNow == \A p : Subscribers(p) = {} => Free(p, tenants)
BY DEF Subscribers, Free

\* What the calm steps keep, and the three others.
LEMMA StayStep == IInv /\ Next => Counted' /\ PlansInUseStay'
<1> SUFFICES ASSUME IInv, Next PROVE Counted' /\ PlansInUseStay'
  OBVIOUS
<1>1. PICK r \in Request : Arrive(r) \/ Step(r)
  BY DEF Next
<1>2. /\ TypeOK /\ RowsRead /\ Racing \subseteq raced /\ Counted /\ PlansInUseStay
      /\ raced \subseteq raced'
  BY DEF IInv, Next, Watch
<1>3. /\ \A p \in DOMAIN plans : plans[p] \in [active : BOOLEAN, max : Limit] /\ p \in Plan
      /\ \A t \in DOMAIN tenants : tenants[t] \in [plan : DOMAIN plans, active : BOOLEAN]
      /\ plans \in [DOMAIN plans -> [active : BOOLEAN, max : Limit]]
      /\ tenants \in [DOMAIN tenants -> [plan : DOMAIN plans, active : BOOLEAN]]
      /\ req \in [Request -> {Idle} \cup Busy]
  BY <1>2 DEF TypeOK
<1>4. CASE ~Delete(r) /\ ~CreateInsert(r) /\ ~Move(r)
  <2>1. Calm
    BY <1>1, <1>2, <1>4, CalmSteps
  <2>2. \A p : Free(p, tenants) => Free(p, tenants')
    BY <2>1 DEF Calm, Free
  <2>3. ASSUME NEW q \in Request
        PROVE  /\ req'[q].pc = "delete"
                    => Free(req'[q].plan, tenants') \/ req'[q].plan \in raced'
               /\ req'[q].pc = "insert"
                    => plans'[req'[q].plan].active \/ req'[q].plan \in raced'
    <3>1. PICK s, t : s = req[q] /\ t = req'[q]
      OBVIOUS
    <3>2. s.pc \in {"delete", "insert"} => s.plan \in DOMAIN plans
      BY <1>2, <3>1 DEF RowsRead
    <3>3. /\ s.pc = "delete" => Free(s.plan, tenants) \/ s.plan \in raced
          /\ s.pc = "insert" => plans[s.plan].active \/ s.plan \in raced
      BY <1>2, <3>1 DEF Counted
    <3>4. \/ t = s
          \/ t.pc = "delete" /\ Free(t.plan, tenants)
          \/ t.pc = "insert" /\ t.plan \in DOMAIN plans /\ plans[t.plan].active
          \/ t.pc \notin {"delete", "insert"}
      BY <1>1, <1>2, <3>1, JustChecked, FreeNow
    <3>5. t.pc = "delete" => Free(t.plan, tenants) \/ t.plan \in raced
      BY <3>3, <3>4
    <3>6. t.pc = "insert" => t.plan \in DOMAIN plans /\ (plans[t.plan].active \/ t.plan \in raced)
      BY <3>2, <3>3, <3>4
    <3>7. t.pc = "delete" => Free(t.plan, tenants') \/ t.plan \in raced'
      BY <1>2, <2>2, <3>5
    <3>8. t.pc = "insert" => plans'[t.plan].active \/ t.plan \in raced'
      BY <1>2, <2>1, <3>6 DEF Calm
    <3> QED BY <3>1, <3>7, <3>8
  <2>4. Counted'
    BY <2>3 DEF Counted
  <2>5. PlansInUseStay'
    BY <1>2, <1>3, <2>1 DEF PlansInUseStay, Calm
  <2> QED BY <2>4, <2>5
<1>5. CASE Delete(r)
  <2>1. PICK p \in DOMAIN plans : p = req[r].plan
    BY <1>2, <1>5 DEF Delete, RowsRead
  <2>2. /\ req[r].pc = "delete" /\ plans' = [plans EXCEPT ![p].active = FALSE]
        /\ UNCHANGED <<tenants, moved>> /\ req' = [req EXCEPT ![r] = Idle]
    BY <1>5, <2>1 DEF Delete, Become
  <2>3. \A q \in Request : req'[q].pc \in {"delete", "insert"} => q # r /\ req'[q] = req[q]
    BY <1>3, <2>2 DEF Idle
  <2>4. \A x \in DOMAIN plans : x # p => plans'[x] = plans[x]
    BY <1>3, <2>2
  <2>5. Free(p, tenants) \/ p \in raced
    BY <1>2, <2>1, <2>2 DEF Counted
  <2>6. Counted'
    <3> SUFFICES ASSUME NEW q \in Request
                 PROVE  /\ req'[q].pc = "delete"
                             => Free(req'[q].plan, tenants') \/ req'[q].plan \in raced'
                        /\ req'[q].pc = "insert"
                             => plans'[req'[q].plan].active \/ req'[q].plan \in raced'
      BY DEF Counted
    <3>1. CASE req'[q].pc = "delete"
      BY <1>2, <2>2, <2>3, <3>1 DEF Counted, Free
    <3>2. CASE req'[q].pc = "insert"
      <4>1. req'[q] = req[q] /\ req[q].pc = "insert" /\ req[q].plan \in DOMAIN plans
        BY <1>2, <2>3, <3>2 DEF RowsRead
      <4>2. CASE req[q].plan = p
        <5>1. p \in Racing
          BY <1>3, <2>1, <2>2, <4>1, <4>2 DEF Racing
        <5> QED BY <1>2, <4>1, <4>2, <5>1, <3>2
      <4>3. CASE req[q].plan # p
        BY <1>2, <2>4, <3>2, <4>1, <4>3 DEF Counted
      <4> QED BY <4>2, <4>3
    <3> QED BY <3>1, <3>2
  <2>7. PlansInUseStay'
    <3> SUFFICES ASSUME NEW t \in DOMAIN tenants, tenants[t].active
                 PROVE  \/ plans'[tenants[t].plan].active
                        \/ t \in moved \/ tenants[t].plan \in raced'
      BY <2>2 DEF PlansInUseStay
    <3>1. CASE tenants[t].plan = p
      BY <1>2, <2>5, <3>1 DEF Free
    <3>2. CASE tenants[t].plan # p
      BY <1>2, <1>3, <2>4, <3>2 DEF PlansInUseStay
    <3> QED BY <3>1, <3>2
  <2> QED BY <2>6, <2>7
<1>6. ASSUME NEW p \in DOMAIN plans, NEW a, p = req[r].plan, req[r].pc \in {"insert", "move"},
             req' = [req EXCEPT ![r] = Idle], UNCHANGED plans, a \in Tenant,
             DOMAIN tenants' = DOMAIN tenants \cup {a}, tenants'[a].plan = p,
             \A t \in DOMAIN tenants : t # a => tenants'[t] = tenants[t]
      PROVE  Counted'
  <2>1. \A q \in Request : req'[q].pc \in {"delete", "insert"} => q # r /\ req'[q] = req[q]
    BY <1>3, <1>6 DEF Idle
  <2> SUFFICES ASSUME NEW q \in Request
               PROVE  /\ req'[q].pc = "delete"
                           => Free(req'[q].plan, tenants') \/ req'[q].plan \in raced'
                      /\ req'[q].pc = "insert"
                           => plans'[req'[q].plan].active \/ req'[q].plan \in raced'
    BY DEF Counted
  <2>2. CASE req'[q].pc = "delete"
    <3>1. req'[q] = req[q] /\ req[q].pc = "delete"
      BY <2>1, <2>2
    <3>2. CASE req[q].plan = p
      <4>1. p \in Racing
        BY <1>3, <1>6, <3>1, <3>2 DEF Racing
      <4> QED BY <1>2, <2>2, <3>1, <3>2, <4>1
    <3>3. CASE req[q].plan # p
      <4>1. Free(req[q].plan, tenants) => Free(req'[q].plan, tenants')
        BY <1>6, <3>1, <3>3 DEF Free
      <4> QED BY <1>2, <2>2, <3>1, <4>1 DEF Counted
    <3> QED BY <3>2, <3>3
  <2>3. CASE req'[q].pc = "insert"
    BY <1>2, <1>6, <2>1, <2>3 DEF Counted
  <2> QED BY <2>2, <2>3
<1>7. CASE CreateInsert(r)
  <2>1. PICK p \in DOMAIN plans : p = req[r].plan
    BY <1>2, <1>7 DEF CreateInsert, RowsRead
  <2>2. PICK a \in Tenant \ DOMAIN tenants :
          tenants' = With(tenants, a, [plan |-> p, active |-> TRUE])
    BY <1>7, <2>1 DEF CreateInsert
  <2>3. /\ req[r].pc = "insert" /\ UNCHANGED <<plans, moved>> /\ req' = [req EXCEPT ![r] = Idle]
    BY <1>7 DEF CreateInsert, Become
  <2>4. /\ DOMAIN tenants' = DOMAIN tenants \cup {a}
        /\ tenants'[a] = [plan |-> p, active |-> TRUE]
        /\ \A t \in DOMAIN tenants : t # a => tenants'[t] = tenants[t]
    BY <2>2 DEF With
  <2>5. plans[p].active \/ p \in raced
    BY <1>2, <2>1, <2>3 DEF Counted
  <2>6. Counted'
    BY <1>6, <2>1, <2>3, <2>4
  <2>7. PlansInUseStay'
    BY <1>2, <1>3, <2>3, <2>4, <2>5 DEF PlansInUseStay
  <2> QED BY <2>6, <2>7
<1>8. CASE Move(r)
  <2>1. PICK p \in DOMAIN plans, a \in DOMAIN tenants : p = req[r].plan /\ a = req[r].tenant
    BY <1>2, <1>8 DEF Move, RowsRead
  <2>2. /\ req[r].pc = "move" /\ UNCHANGED plans /\ req' = [req EXCEPT ![r] = Idle]
        /\ tenants' = [tenants EXCEPT ![a].plan = p]
        /\ moved' = IF plans[p].active THEN moved \ {a} ELSE moved \cup {a}
    BY <1>8, <2>1 DEF Move, Become
  <2>3. /\ DOMAIN tenants' = DOMAIN tenants \cup {a} /\ a \in Tenant
        /\ tenants'[a].plan = p
        /\ \A t \in DOMAIN tenants : t # a => tenants'[t] = tenants[t]
    BY <1>2, <1>3, <2>1, <2>2 DEF TypeOK
  <2>4. Counted'
    BY <1>6, <2>1, <2>2, <2>3
  <2>5. PlansInUseStay'
    <3> SUFFICES ASSUME NEW t \in DOMAIN tenants', tenants'[t].active
                 PROVE  \/ plans[tenants'[t].plan].active
                        \/ t \in moved' \/ tenants'[t].plan \in raced'
      BY <2>2 DEF PlansInUseStay
    <3>1. CASE t = a
      BY <2>2, <2>3, <3>1
    <3>2. CASE t # a
      BY <1>2, <2>1, <2>2, <2>3, <3>2 DEF PlansInUseStay
    <3> QED BY <3>1, <3>2
  <2> QED BY <2>4, <2>5
<1> QED BY <1>4, <1>5, <1>7, <1>8

-----------------------------------------------------------------------------
LEMMA InitInv == Init => IInv
<1> SUFFICES ASSUME Init PROVE IInv
  OBVIOUS
<1>1. DOMAIN plans = {} /\ DOMAIN tenants = {} /\ DOMAIN members = {}
  BY DEF Init
<1>2. \A r \in Request : req[r] = Idle
  BY DEF Init
<1>3. TypeOK
  <2>1. req \in [Request -> {Idle} \cup Busy]
    BY DEF Init
  <2>2. /\ plans \in [DOMAIN plans -> [active : BOOLEAN, max : Limit]]
        /\ tenants \in [DOMAIN tenants -> [plan : DOMAIN plans, active : BOOLEAN]]
        /\ members \in [DOMAIN members -> BOOLEAN]
    BY <1>1 DEF Init
  <2> QED BY <1>1, <2>1, <2>2 DEF Init, TypeOK
<1>4. RowsRead /\ Counted /\ PlansInUseStay
  <2>1. \A r \in Request : req[r].pc = "idle"
    BY <1>2 DEF Idle
  <2> QED BY <1>1, <2>1 DEF RowsRead, Counted, PlansInUseStay
<1>5. Racing = {}
  BY <1>2 DEF Racing, Idle
<1> QED BY <1>3, <1>4, <1>5 DEF IInv

LEMMA NextInv == IInv /\ [Next]_vars => IInv'
<1> SUFFICES ASSUME IInv, [Next]_vars PROVE IInv'
  OBVIOUS
<1>1. CASE Next
  BY <1>1, TypesStep, StayStep DEF IInv
<1>2. CASE UNCHANGED vars
  <2>1. TypeOK' /\ (Racing \subseteq raced)'
    BY <1>2 DEF vars, IInv, TypeOK, Racing
  <2>2. RowsRead'
    BY <1>2 DEF vars, IInv, RowsRead
  <2>3. Counted'
    BY <1>2 DEF vars, IInv, Counted, Free
  <2>4. PlansInUseStay'
    BY <1>2 DEF vars, IInv, PlansInUseStay
  <2> QED BY <2>1, <2>2, <2>3, <2>4 DEF IInv
<1> QED BY <1>1, <1>2

\* The invariant the results below rest on: types, the rows the requests have
\* read, and what their checks found, unless it was raced.
THEOREM Invariance == Spec => []IInv
<1> QED BY InitInv, NextInv, PTL DEF Spec

\* The tables and the requests keep their types: a tenant's plan is a row of
\* plans and a member's tenant one of tenants (PlansService, TenantsService).
THEOREM TypeCorrect == Spec => []TypeOK
<1>1. IInv => TypeOK
  BY DEF IInv
<1> QED BY Invariance, <1>1, PTL

\* A plan with an active tenant stays active, whatever is in progress, unless
\* the tenant was moved to it when it was already deleted (TenantsService.update
\* does not look) or it arrived between softDelete's count and its write.
THEOREM PlansInUse == Spec => []PlansInUseStay
<1>1. IInv => PlansInUseStay
  BY DEF IInv
<1> QED BY Invariance, <1>1, PTL

-----------------------------------------------------------------------------
\* The contract.  As long as no two requests have overlapped, at most one is in
\* progress, and what it has checked still holds when it writes.

Checked(s) ==
  /\ s.pc = "write" =>
       \A t \in Subscribers(s.plan) : Cardinality(MembersOf(t)) <= s.max
  /\ s.pc = "delete" => Subscribers(s.plan) = {}
  /\ s.pc = "insert" => plans[s.plan].active

Alone == \A q, r \in Request : req[q] # Idle /\ req[r] # Idle => q = r

SInv == overlap \/ (Alone /\ \A r \in Request : Checked(req[r]))

\* A request checks what it is to write by, in a step that writes nothing.
LEMMA ChecksFirst ==
  ASSUME TypeOK, RowsRead, NEW r \in Request, Arrive(r) \/ Step(r), req'[r] # req[r]
  PROVE  \/ req'[r].pc \notin {"write", "delete", "insert"}
         \/ Checked(req'[r]) /\ UNCHANGED <<plans, tenants, members>>
<1>0. req \in [Request -> {Idle} \cup Busy]
  BY DEF TypeOK
<1>1. CASE UpdateCount(r) \/ UpdateGroup(r)
  <2>1. /\ req[r] \in {Idle} \cup Busy /\ req[r].pc \in {"count", "group", "write"}
        /\ UNCHANGED <<plans, tenants, members>>
    BY <1>0, <1>1 DEF UpdateCount, UpdateGroup
  <2>2. PICK g, w : g = [req[r] EXCEPT !.pc = "group"] /\ w = [req[r] EXCEPT !.pc = "write"]
    OBVIOUS
  <2>3. g.pc = "group" /\ w.pc = "write" /\ w.plan = req[r].plan
    BY <2>1, <2>2, Shapes
  <2>4. w.max = req[r].max
    BY <2>1, <2>2, Shapes
  <2>5. \/ req'[r] = Idle \/ req'[r] = g
        \/ req'[r] = w /\ (Subscribers(req[r].plan) = {} \/ Fits(req[r].plan, req[r].max))
    BY <1>0, <1>1, <2>2 DEF UpdateCount, UpdateGroup, Become
  <2>6. CASE req'[r] = Idle
    BY <2>6 DEF Idle
  <2>7. CASE req'[r] = g
    BY <2>3, <2>7
  <2>8. CASE req'[r] = w /\ (Subscribers(req[r].plan) = {} \/ Fits(req[r].plan, req[r].max))
    <3>1. Checked(w)
      BY <2>3, <2>4, <2>8 DEF Checked, Fits, Subscribers
    <3> QED BY <2>1, <2>8, <3>1
  <2> QED BY <2>5, <2>6, <2>7, <2>8
<1>2. CASE DeleteCount(r)
  <2>1. req[r] \in {Idle} \cup Busy /\ req[r].pc = "delete count"
        /\ UNCHANGED <<plans, tenants, members>>
    BY <1>0, <1>2 DEF DeleteCount
  <2>2. PICK d : d = [req[r] EXCEPT !.pc = "delete"]
    OBVIOUS
  <2>3. d.pc = "delete" /\ d.plan = req[r].plan
    BY <2>1, <2>2, Shapes
  <2>4. req'[r] = Idle \/ (req'[r] = d /\ Subscribers(req[r].plan) = {})
    BY <1>0, <1>2, <2>2 DEF DeleteCount, Become
  <2>5. CASE req'[r] = Idle
    BY <2>5 DEF Idle
  <2>6. CASE req'[r] = d /\ Subscribers(req[r].plan) = {}
    BY <2>1, <2>3, <2>6 DEF Checked
  <2> QED BY <2>4, <2>5, <2>6
<1>3. CASE CreateRead(r)
  <2>1. PICK p \in DOMAIN plans : /\ plans[p].active
                                  /\ req' = [req EXCEPT ![r] = [pc |-> "insert", plan |-> p]]
                                  /\ UNCHANGED <<plans, tenants, members>>
    BY <1>3 DEF CreateRead, Become
  <2>2. req'[r] = [pc |-> "insert", plan |-> p]
    BY <1>0, <2>1
  <2> QED BY <2>1, <2>2 DEF Checked
<1>4. CASE UpdateGet(r) \/ DeleteGet(r) \/ MoveRead(r) \/ DropRead(r)
  <2>1. CASE UpdateGet(r)
    <3>1. PICK p, n : req' = [req EXCEPT ![r] = [pc |-> "count", plan |-> p, max |-> n]]
      BY <2>1 DEF UpdateGet, Become
    <3> QED BY <1>0, <3>1
  <2>2. CASE DeleteGet(r)
    <3>1. PICK p : req' = [req EXCEPT ![r] = [pc |-> "delete count", plan |-> p]]
      BY <2>2 DEF DeleteGet, Become
    <3> QED BY <1>0, <3>1
  <2>3. CASE MoveRead(r)
    <3>1. PICK t, p : req' = [req EXCEPT ![r] = [pc |-> "move", tenant |-> t, plan |-> p]]
      BY <2>3 DEF MoveRead, Become
    <3> QED BY <1>0, <3>1
  <2>4. CASE DropRead(r)
    <3>1. PICK t : req' = [req EXCEPT ![r] = [pc |-> "drop", tenant |-> t]]
      BY <2>4 DEF DropRead, Become
    <3> QED BY <1>0, <3>1
  <2> QED BY <1>4, <2>1, <2>2, <2>3, <2>4
<1>5. CASE CreatePlan(r) \/ CreateMember(r) \/ Deactivate(r)
  BY <1>5 DEF CreatePlan, CreateMember, Deactivate
<1>6. CASE UpdateWrite(r) \/ Delete(r) \/ CreateInsert(r) \/ Move(r) \/ Drop(r) \/ Abort(r)
  <2>1. req'[r] = Idle
    BY <1>0, <1>6 DEF UpdateWrite, Delete, CreateInsert, Move, Drop, Abort, Become
  <2> QED BY <2>1 DEF Idle
<1> QED BY <1>1, <1>2, <1>3, <1>4, <1>5, <1>6 DEF Arrive, Step

\* A request in progress moves on with every step of its own.
LEMMA MovesOn ==
  ASSUME TypeOK, NEW r \in Request, Arrive(r) \/ Step(r), req'[r] = req[r]
  PROVE  req[r] = Idle
<1>0. req \in [Request -> {Idle} \cup Busy]
  BY DEF TypeOK
<1>1. CASE UpdateCount(r)
  <2>1. req[r] \in {Idle} \cup Busy /\ req[r].pc = "count"
    BY <1>0, <1>1 DEF UpdateCount
  <2>2. PICK g, w : g = [req[r] EXCEPT !.pc = "group"] /\ w = [req[r] EXCEPT !.pc = "write"]
    OBVIOUS
  <2>3. g.pc = "group" /\ w.pc = "write"
    BY <2>1, <2>2, Shapes
  <2>4. req'[r] \in {g, w}
    BY <1>0, <1>1, <2>2 DEF UpdateCount, Become
  <2> QED BY <2>1, <2>3, <2>4
<1>2. CASE UpdateGroup(r)
  <2>1. req[r] \in {Idle} \cup Busy /\ req[r].pc = "group"
    BY <1>0, <1>2 DEF UpdateGroup
  <2>2. PICK w : w = [req[r] EXCEPT !.pc = "write"]
    OBVIOUS
  <2>3. w.pc = "write"
    BY <2>1, <2>2, Shapes
  <2>4. req'[r] \in {Idle, w}
    BY <1>0, <1>2, <2>2 DEF UpdateGroup, Become
  <2> QED BY <2>1, <2>3, <2>4
<1>3. CASE DeleteCount(r)
  <2>1. req[r] \in {Idle} \cup Busy /\ req[r].pc = "delete count"
    BY <1>0, <1>3 DEF DeleteCount
  <2>2. PICK d : d = [req[r] EXCEPT !.pc = "delete"]
    OBVIOUS
  <2>3. d.pc = "delete"
    BY <2>1, <2>2, Shapes
  <2>4. req'[r] \in {Idle, d}
    BY <1>0, <1>3, <2>2 DEF DeleteCount, Become
  <2> QED BY <2>1, <2>3, <2>4
<1>4. CASE UpdateWrite(r) \/ Delete(r) \/ CreateInsert(r) \/ Move(r) \/ Drop(r) \/ Abort(r)
  <2>1. req'[r] = Idle
    BY <1>0, <1>4 DEF UpdateWrite, Delete, CreateInsert, Move, Drop, Abort, Become
  <2> QED BY <2>1
<1>5. CASE Arrive(r)
  BY <1>5 DEF Arrive, CreatePlan, UpdateGet, DeleteGet, CreateRead, MoveRead, DropRead,
              CreateMember, Deactivate
<1> QED BY <1>1, <1>2, <1>3, <1>4, <1>5 DEF Step

LEMMA SerialStep == IInv /\ SInv /\ Next => SInv'
<1> SUFFICES ASSUME IInv, SInv, Next, ~overlap' PROVE (Alone /\ \A r \in Request : Checked(req[r]))'
  BY DEF SInv
<1>1. PICK r \in Request : Arrive(r) \/ Step(r)
  BY DEF Next
<1>2. TypeOK /\ RowsRead /\ req \in [Request -> {Idle} \cup Busy]
  BY DEF IInv, TypeOK
<1>3. ~overlap /\ Alone /\ \A q \in Request : Checked(req[q])
  BY DEF SInv, Next, Watch
<1>4. \A q \in Request : q # r => req[q] = Idle
  <2>1. CASE Arrive(r)
    BY <2>1 DEF Next, Watch
  <2>2. CASE Step(r)
    <3>1. req[r] # Idle
      <4>1. req[r] = Idle => req[r].pc = "idle"
        BY DEF Idle
      <4> QED BY <2>2, <4>1 DEF Step, UpdateCount, UpdateGroup, UpdateWrite, DeleteCount, Delete,
                               CreateInsert, Move, Drop, Abort
    <3> QED BY <1>3, <3>1 DEF Alone
  <2> QED BY <1>1, <2>1, <2>2
<1>5. \A q \in Request : q # r => req'[q] = Idle
  BY <1>1, <1>2, <1>4, JustChecked
<1>6. Alone'
  BY <1>5 DEF Alone
<1>7. ASSUME NEW q \in Request PROVE Checked(req[q])'
  <2>1. PICK s : s = req'[q]
    OBVIOUS
  <2>2. \/ s.pc \notin {"write", "delete", "insert"}
        \/ Checked(s) /\ UNCHANGED <<plans, tenants, members>>
    <3>1. CASE q # r \/ s = Idle
      BY <1>5, <2>1, <3>1 DEF Idle
    <3>2. CASE q = r /\ s # Idle
      BY <1>1, <1>2, <2>1, <3>2, MovesOn, ChecksFirst
    <3> QED BY <3>1, <3>2
  <2>3. Checked(s)'
    BY <2>2 DEF Checked, Subscribers, MembersOf
  <2> QED BY <2>1, <2>3 DEF Checked, Subscribers, MembersOf
<1> QED BY <1>6, <1>7

\* Every step is a call of the contract or leaves the tables alone.
LEMMA ContractStep ==
  ASSUME IInv, SInv, NEW r \in Request, Arrive(r) \/ Step(r), ~overlap
  PROVE  Contract!Next \/ UNCHANGED <<plans, tenants, members>>
<1>0. /\ TypeOK /\ RowsRead /\ Checked(req[r])
      /\ DOMAIN plans \subseteq Plan /\ DOMAIN tenants \subseteq Tenant
  BY DEF IInv, TypeOK, SInv
<1>1. CASE Quiet(r)
  BY <1>1 DEF Quiet, UpdateGet, UpdateCount, UpdateGroup, DeleteGet, DeleteCount,
              CreateRead, MoveRead, DropRead, Abort
<1>2. CASE CreatePlan(r)
  <2>1. PICK p \in Plan \ DOMAIN plans, n \in Limit : Contract!AddPlan(p, n)
    BY <1>2 DEF CreatePlan, Contract!AddPlan, Contract!With, With
  <2> QED BY <2>1 DEF Contract!Next
<1>3. CASE UpdateWrite(r)
  <2>1. PICK p \in DOMAIN plans, n \in Limit : p = req[r].plan /\ n = req[r].max
    BY <1>0, <1>3, Shapes DEF UpdateWrite, RowsRead, TypeOK
  <2>2. \A t \in Subscribers(p) : Cardinality(MembersOf(t)) <= n
    BY <1>0, <1>3, <2>1 DEF UpdateWrite, Checked
  <2>3. /\ Contract!Subscribers(p) = Subscribers(p)
        /\ \A t : Contract!MembersOf(t) = MembersOf(t)
    BY DEF Contract!Subscribers, Contract!MembersOf, Subscribers, MembersOf
  <2>4. plans' = [plans EXCEPT ![p].max = n] /\ UNCHANGED <<tenants, members>>
    BY <1>3, <2>1 DEF UpdateWrite
  <2>5. Contract!SetLimit(p, n)
    <3>1. ASSUME NEW t \in Contract!Subscribers(p)
          PROVE  Cardinality(Contract!MembersOf(t)) <= n
      <4>1. Contract!MembersOf(t) = MembersOf(t) /\ t \in Subscribers(p)
        BY <2>3
      <4> QED BY <2>2, <4>1
    <3>2. \A S : Contract!Cardinality(S) = Cardinality(S)
      BY DEF Contract!Cardinality, Cardinality
    <3> QED BY <2>4, <3>1, <3>2 DEF Contract!SetLimit
  <2> QED BY <2>1, <2>5 DEF Contract!Next
<1>4. CASE Delete(r)
  <2>1. PICK p \in DOMAIN plans : p = req[r].plan
    BY <1>0, <1>4 DEF Delete, RowsRead
  <2>2. Contract!DropPlan(p)
    BY <1>0, <1>4, <2>1 DEF Delete, Checked, Contract!DropPlan, Contract!Subscribers, Subscribers
  <2> QED BY <2>1, <2>2 DEF Contract!Next
<1>5. CASE CreateInsert(r)
  <2>1. PICK p \in DOMAIN plans : p = req[r].plan
    BY <1>0, <1>5 DEF CreateInsert, RowsRead
  <2>2. PICK t \in Tenant \ DOMAIN tenants : Contract!AddTenant(t, p)
    BY <1>0, <1>5, <2>1 DEF CreateInsert, Checked, Contract!AddTenant, Contract!With, With
  <2> QED BY <2>1, <2>2 DEF Contract!Next
<1>6. CASE Move(r)
  <2>1. PICK t \in DOMAIN tenants, p \in DOMAIN plans : t = req[r].tenant /\ p = req[r].plan
    BY <1>0, <1>6 DEF Move, RowsRead
  <2>2. Contract!MoveTenant(t, p)
    BY <1>6, <2>1 DEF Move, Contract!MoveTenant
  <2> QED BY <2>1, <2>2 DEF Contract!Next
<1>7. CASE Drop(r)
  <2>1. PICK t \in DOMAIN tenants : t = req[r].tenant
    BY <1>0, <1>7 DEF Drop, RowsRead
  <2>2. Contract!DropTenant(t)
    BY <1>7, <2>1 DEF Drop, Contract!DropTenant
  <2> QED BY <2>1, <2>2 DEF Contract!Next
<1>8. CASE CreateMember(r)
  <2>1. PICK t \in DOMAIN tenants, u \in User : Contract!AddMember(t, u)
    BY <1>8 DEF CreateMember, Contract!AddMember, Contract!With, With
  <2> QED BY <2>1 DEF Contract!Next
<1>9. CASE Deactivate(r)
  <2>1. PICK m \in DOMAIN members : Contract!DropMember(m)
    BY <1>9 DEF Deactivate, Contract!DropMember
  <2> QED BY <2>1 DEF Contract!Next
<1> QED BY <1>1, <1>2, <1>3, <1>4, <1>5, <1>6, <1>7, <1>8, <1>9, StepKinds DEF Changes

\* Until two requests overlap, and whatever fails on the way, a call of
\* PlansService or TenantsService does what /tenancy's contracts give it, in
\* one step, or nothing: the unlocked checks are only wrong under concurrency.
THEOREM Contracted == Spec => SerialImplementsContract
<1>1. Init => SInv
  <2> SUFFICES ASSUME Init PROVE Alone /\ \A r \in Request : Checked(req[r])
    BY DEF SInv
  <2>1. \A r \in Request : req[r] = Idle /\ req[r].pc = "idle"
    BY DEF Init, Idle
  <2> QED BY <2>1 DEF Alone, Checked
<1>2. IInv /\ SInv /\ [Next]_vars => SInv'
  <2> SUFFICES ASSUME IInv, SInv, [Next]_vars PROVE SInv'
    OBVIOUS
  <2>1. CASE Next
    BY <2>1, SerialStep
  <2>2. CASE UNCHANGED vars
    BY <2>2 DEF vars, SInv, Alone, Checked, Subscribers, MembersOf
  <2> QED BY <2>1, <2>2
<1>3. Init => Contract!Init
  BY DEF Init, Contract!Init
<1>4. IInv /\ SInv /\ [Next]_vars
        => [overlap' \/ Contract!Next]_<<plans, tenants, members>>
  <2> SUFFICES ASSUME IInv, SInv, [Next]_vars, ~overlap'
               PROVE  Contract!Next \/ UNCHANGED <<plans, tenants, members>>
    OBVIOUS
  <2>1. CASE Next
    <3>1. ~overlap /\ \E r \in Request : Arrive(r) \/ Step(r)
      BY <2>1 DEF Next, Watch
    <3> QED BY <3>1, ContractStep
  <2>2. CASE UNCHANGED vars
    BY <2>2 DEF vars
  <2> QED BY <2>1, <2>2
<1> QED BY Invariance, <1>1, <1>2, <1>3, <1>4, PTL DEF Spec, SerialImplementsContract
=============================================================================
