--------------------------- MODULE TenantScope_proofs ---------------------------
(***************************************************************************)
(* Theorems of TenantScope, for any tenants, users, contexts and pool.     *)
(***************************************************************************)
EXTENDS TenantScope, TLAPS

ReqType == {Idle} \cup Busy

LEMMA BusyRequest ==
  ASSUME req \in [Request -> ReqType], NEW r \in Request, req[r].pc # "idle"
  PROVE  req[r] \in Busy
BY DEF ReqType, Idle

LEMMA CallOps == \A call \in Call : call.op \in {"create", "list", "get", "update",
                                                 "deactivate", "reread", "unique", "mine"}
BY DEF Call

LEMMA ResetType ==
  ASSUME TypeOK, NEW r \in Request
  PROVE  Reset(r) \in [Conn -> [tenant : Tenant \cup Unset, admin : BOOLEAN]]
<1>1. CASE on[r] = NoConn
  BY <1>1 DEF Reset, TypeOK
<1>2. CASE on[r] # NoConn
  <2>1. on[r] \in Conn
    BY <1>2 DEF TypeOK
  <2>2. guc[on[r]].tenant = NoTenant \/ guc[on[r]].tenant # NoTenant
    OBVIOUS
  <2> DEFINE new == [tenant |-> IF guc[on[r]].tenant = NoTenant THEN NoTenant ELSE Blank,
                     admin |-> FALSE]
  <2>3. new \in [tenant : Tenant \cup Unset, admin : BOOLEAN]
    BY DEF Unset
  <2>4. Reset(r) = [guc EXCEPT ![on[r]] = new]
    BY <1>2, <2>1 DEF Reset, TypeOK
  <2> QED
    BY <2>1, <2>3, <2>4 DEF TypeOK
<1> QED
  BY <1>1, <1>2

LEMMA CloseType ==
  ASSUME TypeOK, NEW r \in Request, Close(r)
  PROVE  /\ req' \in [Request -> ReqType]
         /\ on' \in [Request -> Conn \cup {NoConn}]
         /\ guc' \in [Conn -> [tenant : Tenant \cup Unset, admin : BOOLEAN]]
BY ResetType DEF Close, TypeOK, ReqType

LEMMA TypeStep == TypeOK /\ [Next]_vars => TypeOK'
<1> SUFFICES ASSUME TypeOK, [Next]_vars PROVE TypeOK'
  OBVIOUS
<1>0. /\ DOMAIN rows \subseteq Key /\ rows \in [DOMAIN rows -> Row]
      /\ req \in [Request -> ReqType]
      /\ on \in [Request -> Conn \cup {NoConn}]
      /\ guc \in [Conn -> [tenant : Tenant \cup Unset, admin : BOOLEAN]]
  BY DEF TypeOK, ReqType
<1>1. ASSUME NEW r \in Request, NEW ctx \in Context, NEW call \in Call,
             Start(r, ctx, call)
      PROVE  TypeOK'
  <2>1. [pc |-> "wait", ctx |-> ctx, call |-> call] \in Busy
    BY DEF Busy
  <2> QED
    BY <1>0, <1>1, <2>1 DEF Start, TypeOK, ReqType
<1>2. ASSUME NEW r \in Request, NEW c \in Conn, Begin(r, c)
      PROVE  TypeOK'
  <2>1. [req[r] EXCEPT !.pc = "begun"] \in Busy
    BY <1>0, <1>2, BusyRequest DEF Begin, Busy
  <2> QED
    BY <1>0, <1>2, <2>1 DEF Begin, TypeOK, ReqType
<1>3. ASSUME NEW r \in Request, SetTenant(r)
      PROVE  TypeOK'
  <2>0. req[r] \in Busy
    BY <1>0, <1>3, BusyRequest DEF SetTenant
  <2>1. [req[r] EXCEPT !.pc = "tenantSet"] \in Busy
    BY <2>0 DEF Busy
  <2>2. req[r].ctx.tenant \in Tenant \cup {NoTenant}
    BY <2>0, ScopeAssumption DEF Busy, ContextType
  <2>3. guc' \in [Conn -> [tenant : Tenant \cup Unset, admin : BOOLEAN]]
    BY <1>0, <1>3, <2>2 DEF SetTenant, Unset
  <2> QED
    BY <1>0, <1>3, <2>1, <2>3 DEF SetTenant, TypeOK, ReqType
<1>4. ASSUME NEW r \in Request, SetAdmin(r)
      PROVE  TypeOK'
  <2>1. [req[r] EXCEPT !.pc = "query"] \in Busy
    BY <1>0, <1>4, BusyRequest DEF SetAdmin, Busy
  <2>3. guc' \in [Conn -> [tenant : Tenant \cup Unset, admin : BOOLEAN]]
    BY <1>0, <1>4 DEF SetAdmin
  <2> QED
    BY <1>0, <1>4, <2>1, <2>3 DEF SetAdmin, TypeOK, ReqType
<1>5. ASSUME NEW r \in Request, Read(r) \/ Abort(r)
      PROVE  TypeOK'
  <2>1. Close(r) /\ rows' = rows
    BY <1>5 DEF Read, Abort
  <2> QED
    BY <1>0, <2>1, CloseType DEF TypeOK, ReqType
<1>6. ASSUME NEW r \in Request, Create(r)
      PROVE  TypeOK'
  <2>1. Close(r) /\ req[r] \in Busy /\ req[r].call.op = "create"
        /\ req[r].ctx.tenant # NoTenant
    BY <1>0, <1>6, BusyRequest DEF Create
  <2>2. req[r].ctx \in ContextType /\ req[r].call \in Call
    BY <2>1, ScopeAssumption DEF Busy
  <2>3. req[r].call.user \in User
    BY <2>1, <2>2 DEF Call
  <2> DEFINE k == <<req[r].ctx.tenant, req[r].call.user>>
  <2>4. k \in Key
    BY <2>1, <2>2, <2>3 DEF Key, ContextType
  <2>5. [creator |-> req[r].ctx.user, active |-> TRUE] \in Row
    BY <2>2 DEF Row, ContextType
  <2>6. rows' = [j \in DOMAIN rows \cup {k} |->
                   IF j = k THEN [creator |-> req[r].ctx.user, active |-> TRUE]
                            ELSE rows[j]]
    BY <1>6 DEF Create
  <2> HIDE DEF k
  <2>7. DOMAIN rows' \subseteq Key /\ rows' \in [DOMAIN rows' -> Row]
    BY <1>0, <2>4, <2>5, <2>6
  <2> QED
    BY <2>1, <2>7, CloseType DEF TypeOK, ReqType
<1>7. ASSUME NEW r \in Request, Update(r)
      PROVE  TypeOK'
  <2>1. req[r] \in Busy /\ req[r].call.op \in {"update", "deactivate"}
    BY <1>0, <1>7, BusyRequest DEF Update
  <2>2. req[r].call.key \in Key
    BY <2>1 DEF Busy, Call
  <2>3. [op |-> "reread", key |-> req[r].call.key] \in Call
    BY <2>2 DEF Call
  <2>4. [pc |-> "wait", ctx |-> req[r].ctx,
         call |-> [op |-> "reread", key |-> req[r].call.key]] \in Busy
    BY <2>1, <2>3 DEF Busy
  <2>5. DOMAIN rows' = DOMAIN rows /\ rows' \in [DOMAIN rows -> Row]
    <3>1. \A k \in DOMAIN rows : [rows[k] EXCEPT !.active = FALSE] \in Row
      BY <1>0 DEF Row
    <3> QED
      BY <1>0, <1>7, <3>1 DEF Update
  <2>6. req' \in [Request -> ReqType] /\ on' \in [Request -> Conn \cup {NoConn}]
    BY <1>0, <1>7, <2>4 DEF Update, ReqType
  <2>7. guc' = Reset(r)
    BY <1>7 DEF Update
  <2> QED
    BY <1>0, <2>5, <2>6, <2>7, ResetType DEF TypeOK, ReqType
<1>8. CASE UNCHANGED vars
  BY <1>8 DEF vars, TypeOK
<1> QED
  BY <1>1, <1>2, <1>3, <1>4, <1>5, <1>6, <1>7, <1>8 DEF Next

\* Type correctness.
THEOREM TypeCorrect == Spec => []TypeOK
<1>1. Init => TypeOK
  <2> SUFFICES ASSUME Init PROVE TypeOK
    OBVIOUS
  <2>1. DOMAIN rows = {} /\ rows \in [DOMAIN rows -> Row]
    BY DEF Init
  <2>2. guc \in [Conn -> [tenant : Tenant \cup Unset, admin : BOOLEAN]]
    BY DEF Init, Unset
  <2> QED
    BY <2>1, <2>2 DEF Init, TypeOK
<1> QED
  BY <1>1, TypeStep, PTL DEF Spec

-----------------------------------------------------------------------------
\* The inductive invariant of the settings: a transaction has a connection of
\* its own, its settings are its own context's as far as they were made, and
\* a connection nobody uses has none.

Made(c, ctx) == IF ctx.tenant = NoTenant THEN guc[c].tenant \in Unset
                                         ELSE guc[c].tenant = ctx.tenant

Clean(c) == guc[c].tenant \in Unset /\ ~guc[c].admin

OwnConnection ==
  /\ \A r \in Request : InTx(r) <=> on[r] \in Conn
  /\ \A r, q \in Request : on[r] = on[q] /\ on[r] \in Conn => r = q

FreeIsClean == \A c \in Conn : (\A r \in Request : on[r] # c) => Clean(c)

OwnSettings == \A r \in Request :
  /\ req[r].pc = "begun" => Clean(on[r])
  /\ req[r].pc = "tenantSet" => Made(on[r], req[r].ctx) /\ ~guc[on[r]].admin
  /\ req[r].pc = "query" =>
       Made(on[r], req[r].ctx) /\ guc[on[r]].admin = req[r].ctx.admin

SettingsInv == TypeOK /\ OwnConnection /\ FreeIsClean /\ OwnSettings

LEMMA InvFacts ==
  ASSUME SettingsInv
  PROVE  /\ TypeOK /\ OwnConnection /\ FreeIsClean /\ OwnSettings
         /\ req \in [Request -> ReqType]
         /\ on \in [Request -> Conn \cup {NoConn}]
         /\ guc \in [Conn -> [tenant : Tenant \cup Unset, admin : BOOLEAN]]
         /\ NoConn \notin Conn
         /\ Idle.pc = "idle"
BY ScopeAssumption DEF SettingsInv, TypeOK, ReqType, Idle

\* What r does to its own request, connection and settings leaves every other
\* request's as they were.
LEMMA OthersKeep ==
  ASSUME SettingsInv, NEW r \in Request,
         NEW q \in Request, q # r,
         req'[q] = req[q], on'[q] = on[q],
         \A c \in Conn : c # on[r] => guc'[c] = guc[c]
  PROVE  /\ req'[q].pc = "begun" => Clean(on[q])'
         /\ req'[q].pc = "tenantSet" =>
              Made(on[q], req[q].ctx)' /\ ~guc'[on'[q]].admin
         /\ req'[q].pc = "query" =>
              Made(on[q], req[q].ctx)' /\ guc'[on'[q]].admin = req'[q].ctx.admin
<1>1. InTx(q) => on[q] \in Conn /\ on[q] # on[r]
  BY InvFacts DEF OwnConnection
<1>2. InTx(q) => guc'[on[q]] = guc[on[q]]
  BY <1>1
<1> QED
  BY <1>2, InvFacts DEF InTx, OwnSettings, Clean, Made

\* Leaving a transaction.
LEMMA LeaveStep ==
  ASSUME SettingsInv, TypeOK', NEW r \in Request,
         on' = [on EXCEPT ![r] = NoConn],
         guc' = Reset(r),
         \A q \in Request : q # r => req'[q] = req[q],
         req'[r].pc \in {"idle", "wait"}
  PROVE  SettingsInv'
<1>0. \A q \in Request : q # r => on'[q] = on[q]
  BY InvFacts
<1>1. on'[r] = NoConn
  BY InvFacts
<1>2. \A c \in Conn : c # on[r] => guc'[c] = guc[c]
  BY InvFacts DEF Reset
<1>3. OwnConnection'
  BY <1>0, <1>1, InvFacts DEF OwnConnection, InTx
<1>4. ASSUME NEW c \in Conn, \A q \in Request : on'[q] # c
      PROVE  Clean(c)'
  <2>1. CASE c = on[r]
    <3>1. guc' = [guc EXCEPT ![c] =
                    [tenant |-> IF guc[c].tenant = NoTenant THEN NoTenant ELSE Blank,
                     admin |-> FALSE]]
      BY <2>1, InvFacts DEF Reset
    <3>2. guc'[c] = [tenant |-> IF guc[c].tenant = NoTenant THEN NoTenant ELSE Blank,
                     admin |-> FALSE]
      BY <3>1, InvFacts
    <3> QED
      BY <3>2 DEF Clean, Unset
  <2>2. CASE c # on[r]
    <3>1. \A q \in Request : on[q] # c
      BY <2>2, <1>0, <1>4
    <3> QED
      BY <3>1, <2>2, <1>2, InvFacts DEF FreeIsClean, Clean
  <2> QED
    BY <2>1, <2>2
<1>5. FreeIsClean'
  BY <1>4 DEF FreeIsClean
<1>6. OwnSettings'
  BY <1>0, <1>2, OthersKeep DEF OwnSettings, Clean, Made
<1> QED
  BY <1>3, <1>5, <1>6 DEF SettingsInv

\* A step within r's transaction that may write r's settings.
LEMMA WithinStep ==
  ASSUME SettingsInv, TypeOK', NEW r \in Request,
         on[r] \in Conn, on' = on, InTx(r)', InTx(r),
         \A q \in Request : q # r => req'[q] = req[q],
         \A c \in Conn : c # on[r] => guc'[c] = guc[c],
         /\ req'[r].pc = "begun" => Clean(on[r])'
         /\ req'[r].pc = "tenantSet" =>
              Made(on[r], req[r].ctx)' /\ ~guc'[on'[r]].admin
         /\ req'[r].pc = "query" =>
              Made(on[r], req[r].ctx)' /\ guc'[on'[r]].admin = req'[r].ctx.admin
  PROVE  SettingsInv'
<1>1. OwnConnection'
  BY InvFacts DEF OwnConnection, InTx
<1>2. FreeIsClean'
  BY InvFacts DEF FreeIsClean, Clean
<1>3. OwnSettings'
  BY OthersKeep DEF OwnSettings, Clean, Made
<1> QED
  BY <1>1, <1>2, <1>3 DEF SettingsInv

LEMMA SettingsStep == SettingsInv /\ [Next]_vars => SettingsInv'
<1> SUFFICES ASSUME SettingsInv, [Next]_vars PROVE SettingsInv'
  OBVIOUS
<1>0. TypeOK'
  BY TypeStep, InvFacts
<1>1. ASSUME NEW r \in Request, NEW ctx \in Context, NEW call \in Call,
             Start(r, ctx, call)
      PROVE  SettingsInv'
  <2>1. /\ \A q \in Request : q # r => req'[q] = req[q]
        /\ req'[r].pc = "wait" /\ req[r].pc = "idle"
        /\ on' = on /\ guc' = guc
    BY <1>1, InvFacts DEF Start
  <2>2. OwnConnection'
    BY <2>1, InvFacts DEF OwnConnection, InTx
  <2>3. FreeIsClean'
    BY <2>1, InvFacts DEF FreeIsClean, Clean
  <2>4. OwnSettings'
    BY <2>1, OthersKeep DEF OwnSettings, Clean, Made
  <2> QED
    BY <1>0, <2>2, <2>3, <2>4 DEF SettingsInv
<1>2. ASSUME NEW r \in Request, NEW c \in Conn, Begin(r, c)
      PROVE  SettingsInv'
  <2>1. req[r] \in Busy
    BY <1>2, InvFacts, BusyRequest DEF Begin
  <2>2. /\ \A q \in Request : q # r => req'[q] = req[q] /\ on'[q] = on[q]
        /\ req'[r].pc = "begun" /\ on'[r] = c /\ guc' = guc
        /\ \A q \in Request : on[q] # c
    BY <1>2, <2>1, InvFacts DEF Begin, Busy
  <2>3. Clean(c)
    BY <2>2, InvFacts DEF FreeIsClean
  <2>4. OwnConnection'
    BY <2>2, InvFacts DEF OwnConnection, InTx
  <2>5. FreeIsClean'
    <3> SUFFICES ASSUME NEW d \in Conn, \A q \in Request : on'[q] # d
                 PROVE  Clean(d)'
      BY DEF FreeIsClean
    <3>1. d # c /\ \A q \in Request : on[q] # d \/ q = r
      BY <2>2
    <3>2. on[r] = NoConn
      BY <1>2, InvFacts DEF Begin, OwnConnection, InTx
    <3> QED
      BY <2>2, <3>1, <3>2, InvFacts DEF FreeIsClean, Clean
  <2>6. OwnSettings'
    BY <2>2, <2>3, OthersKeep DEF OwnSettings, Clean, Made
  <2> QED
    BY <1>0, <2>4, <2>5, <2>6 DEF SettingsInv
<1>3. ASSUME NEW r \in Request, SetTenant(r)
      PROVE  SettingsInv'
  <2>1. req[r] \in Busy /\ InTx(r) /\ on[r] \in Conn
    BY <1>3, InvFacts, BusyRequest DEF SetTenant, InTx, OwnConnection
  <2>2. /\ \A q \in Request : q # r => req'[q] = req[q]
        /\ req'[r].pc = "tenantSet" /\ req'[r].ctx = req[r].ctx /\ on' = on
    BY <1>3, <2>1, InvFacts DEF SetTenant, Busy
  <2>3. Clean(on[r])
    BY <1>3, InvFacts DEF SetTenant, OwnSettings
  <2>4. \A c \in Conn : c # on[r] => guc'[c] = guc[c]
    BY <1>3, InvFacts DEF SetTenant
  <2>5. Made(on[r], req[r].ctx)' /\ ~guc'[on[r]].admin
    BY <1>3, <2>1, <2>2, <2>3, InvFacts DEF SetTenant, Made, Clean
  <2> QED
    BY <1>0, <2>1, <2>2, <2>4, <2>5, WithinStep DEF InTx
<1>4. ASSUME NEW r \in Request, SetAdmin(r)
      PROVE  SettingsInv'
  <2>1. req[r] \in Busy /\ InTx(r) /\ on[r] \in Conn
    BY <1>4, InvFacts, BusyRequest DEF SetAdmin, InTx, OwnConnection
  <2>2. /\ \A q \in Request : q # r => req'[q] = req[q]
        /\ req'[r].pc = "query" /\ req'[r].ctx = req[r].ctx /\ on' = on
    BY <1>4, <2>1, InvFacts DEF SetAdmin, Busy
  <2>3. Made(on[r], req[r].ctx) /\ ~guc[on[r]].admin
    BY <1>4, InvFacts DEF SetAdmin, OwnSettings
  <2>4. \A c \in Conn : c # on[r] => guc'[c] = guc[c]
    BY <1>4, InvFacts DEF SetAdmin
  <2>5. req[r].ctx.admin \in BOOLEAN
    BY <2>1, ScopeAssumption DEF Busy, ContextType
  <2>6. CASE req[r].ctx.admin
    <3>1. guc' = [guc EXCEPT ![on[r]].admin = TRUE]
      BY <1>4, <2>6 DEF SetAdmin
    <3>2. guc'[on[r]].tenant = guc[on[r]].tenant /\ guc'[on[r]].admin = TRUE
      BY <2>1, <3>1, InvFacts
    <3>3. Made(on[r], req[r].ctx)'
      BY <2>2, <2>3, <3>2 DEF Made
    <3> QED
      BY <1>0, <2>1, <2>2, <2>4, <2>5, <2>6, <3>2, <3>3, WithinStep DEF InTx
  <2>7. CASE ~req[r].ctx.admin
    <3>1. guc' = guc
      BY <1>4, <2>7 DEF SetAdmin
    <3>2. Made(on[r], req[r].ctx)'
      BY <2>2, <2>3, <3>1 DEF Made
    <3>3. guc[on[r]].admin = FALSE
      BY <2>1, <2>3, InvFacts
    <3>4. guc'[on'[r]].admin = req'[r].ctx.admin
      BY <2>2, <2>5, <2>7, <3>1, <3>3
    <3> QED
      BY <1>0, <2>1, <2>2, <2>4, <3>2, <3>4, WithinStep DEF InTx
  <2> QED
    BY <2>6, <2>7
<1>5. ASSUME NEW r \in Request, Read(r) \/ Create(r) \/ Abort(r)
      PROVE  SettingsInv'
  <2>1. Close(r)
    BY <1>5 DEF Read, Create, Abort
  <2>2. /\ on' = [on EXCEPT ![r] = NoConn] /\ guc' = Reset(r)
        /\ \A q \in Request : q # r => req'[q] = req[q]
        /\ req'[r].pc = "idle"
    BY <2>1, InvFacts DEF Close
  <2> QED
    BY <1>0, <2>2, LeaveStep
<1>6. ASSUME NEW r \in Request, Update(r)
      PROVE  SettingsInv'
  <2>1. /\ on' = [on EXCEPT ![r] = NoConn] /\ guc' = Reset(r)
        /\ \A q \in Request : q # r => req'[q] = req[q]
        /\ req'[r].pc = "wait"
    BY <1>6, InvFacts DEF Update
  <2> QED
    BY <1>0, <2>1, LeaveStep
<1>7. CASE UNCHANGED vars
  BY <1>0, <1>7 DEF vars, SettingsInv, OwnConnection, FreeIsClean, OwnSettings,
                    InTx, Clean, Made
<1> QED
  BY <1>1, <1>2, <1>3, <1>4, <1>5, <1>6, <1>7 DEF Next

LEMMA SettingsInvariance == Spec => []SettingsInv
<1>1. Init => SettingsInv
  <2> SUFFICES ASSUME Init PROVE SettingsInv
    OBVIOUS
  <2>1. TypeOK
    <3>1. DOMAIN rows = {} /\ rows \in [DOMAIN rows -> Row]
      BY DEF Init
    <3>2. guc \in [Conn -> [tenant : Tenant \cup Unset, admin : BOOLEAN]]
      BY DEF Init, Unset
    <3> QED
      BY <3>1, <3>2 DEF Init, TypeOK
  <2>2. OwnConnection /\ FreeIsClean /\ OwnSettings
    BY ScopeAssumption
       DEF Init, OwnConnection, FreeIsClean, OwnSettings, InTx, Idle, Clean, Unset
  <2> QED
    BY <2>1, <2>2 DEF SettingsInv
<1> QED
  BY <1>1, SettingsStep, PTL DEF Spec

\* Whatever transactions share the pool, the policy lets a statement see
\* exactly what its own context is entitled to.
THEOREM PolicyHolds == Spec => []PolicyFollowsContext
<1>1. SettingsInv => PolicyFollowsContext
  <2> SUFFICES ASSUME SettingsInv, NEW r \in Request, req[r].pc = "query",
                      NEW k \in Key
               PROVE  Allows(on[r], k) <=>
                        (req[r].ctx.admin \/ k[1] = req[r].ctx.tenant)
    BY DEF PolicyFollowsContext
  <2>1. Made(on[r], req[r].ctx) /\ guc[on[r]].admin = req[r].ctx.admin
    BY InvFacts DEF OwnSettings
  <2>2. k[1] \in Tenant
    BY DEF Key
  <2> QED
    BY <2>1, <2>2, ScopeAssumption DEF Allows, Made, Unset
<1> QED
  BY <1>1, SettingsInvariance, PTL

\* No write leaves the tenant its writer acts in.
THEOREM WritesConfined == Spec => WritesStayInTenant
<1>1. ASSUME NEW r \in Request, NEW k \in Key,
             req[r].ctx.tenant \notin {NoTenant, k[1]},
             TypeOK, Create(r) \/ Update(r)
      PROVE  /\ k \in DOMAIN rows <=> k \in DOMAIN rows'
             /\ k \in DOMAIN rows => rows'[k] = rows[k]
  <2>1. CASE Create(r)
    <3> DEFINE j == <<req[r].ctx.tenant, req[r].call.user>>
    <3>1. j # k
      BY <1>1
    <3>2. rows' = [i \in DOMAIN rows \cup {j} |->
                     IF i = j THEN [creator |-> req[r].ctx.user, active |-> TRUE]
                              ELSE rows[i]]
      BY <2>1 DEF Create
    <3> HIDE DEF j
    <3> QED
      BY <3>1, <3>2
  <2>2. CASE Update(r)
    <3>1. k \notin Matched(r)
      BY <1>1, <2>2 DEF Update, Matched, WriteMatches, Scoped, IsWrite
    <3> QED
      BY <2>2, <3>1 DEF Update
  <2> QED
    BY <1>1, <2>1, <2>2
<1>2. TypeOK => [\A r \in Request, k \in Key :
                   /\ Create(r) \/ Update(r)
                   /\ req[r].ctx.tenant \notin {NoTenant, k[1]}
                   => /\ k \in DOMAIN rows <=> k \in DOMAIN rows'
                      /\ k \in DOMAIN rows => rows'[k] = rows[k]]_vars
  BY <1>1
<1> QED
  BY <1>2, TypeCorrect, PTL DEF Spec, WritesStayInTenant
=============================================================================
