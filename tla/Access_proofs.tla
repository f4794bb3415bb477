---------------------------- MODULE Access_proofs ----------------------------
(***************************************************************************)
(* Proofs about Access, for any lifetimes and any number of tokens.  A     *)
(* claim that has been false for some time can be carried by a request or  *)
(* a token only as long as that request has been running and that token    *)
(* has been valid.                                                         *)
(***************************************************************************)
EXTENDS Access, TLAPS

MemberClaim(t, u) == [is |-> "member", key |-> <<t, u>>]
TenantClaim(t) == [is |-> "tenant", tenant |-> t]
AdminClaim(u) == [is |-> "admin", user |-> u]

\* What a token says.
Names(c, w) == \/ c.admin /\ w = AdminClaim(c.user)
               \/ w = MemberClaim(c.tenant, c.user)
               \/ w = TenantClaim(c.tenant)

\* How long claim w, false for n ticks, may still be carried by a request that
\* is to be signed, or that was admitted.
Bounded(s, w, n) ==
  /\ s.pc \in {"members", "tenants", "sign"} =>
       (s.admin /\ w = AdminClaim(s.user) => n <= s.age)
  /\ s.pc \in {"tenants", "sign"} =>
       \A t \in s.ids : w = MemberClaim(t, s.user) => n <= s.age
  /\ s.pc = "sign" => \A t \in s.ids : w = TenantClaim(t) => n <= s.age
  /\ s.pc = "includes" => (w = MemberClaim(s.tenant, s.user) => n <= s.age)
  /\ s.pc = "serve" => /\ s.route = "platform" => s.claims.admin
                       /\ Names(s.claims, w) => n <= Flight + TTL - 1 + s.age

Tokens(T, w, n) == \A tok \in T : Names(tok.claims, w) => n <= Flight + TTL - tok.left

IInv == /\ TypeOK
        /\ Holds(watched) => since = 0
        /\ \A r \in Request : Bounded(req[r], watched, since)
        /\ Tokens(tokens, watched, since)

-----------------------------------------------------------------------------
LEMMA Claims3 ==
  /\ \A t, u : Holds(MemberClaim(t, u)) <=> member[<<t, u>>] = "active"
  /\ \A t : Holds(TenantClaim(t)) <=> tenant[t]
  /\ \A u : Holds(AdminClaim(u)) <=> admin[u]
BY DEF Holds, MemberClaim, TenantClaim, AdminClaim

LEMMA Constants ==
  TTL \in Nat /\ TTL >= 1 /\ Flight \in Nat /\ Window \in Nat /\ Window = TTL + 2 * Flight
BY AccessAssumption DEF Window

\* Requests by their pc.
LEMMA Ages ==
  ASSUME NEW s \in {Idle} \cup Busy
  PROVE  /\ s = Idle <=> s.pc = "idle"
         /\ s # Idle => s.age \in 0..Flight
         /\ s.pc = "members" => s \in [pc : {"members"}, user : User, admin : BOOLEAN, age : 0..Flight]
         /\ s.pc = "tenants" => s \in [pc : {"tenants"}, user : User, admin : BOOLEAN,
                                       ids : SUBSET Tenant, age : 0..Flight]
         /\ s.pc = "includes" => s \in [pc : {"includes"}, user : User, tenant : Tenant, age : 0..Flight]
         /\ s.pc = "sign" => s \in [pc : {"sign"}, user : User, ids : SUBSET Tenant, admin : BOOLEAN,
                                    age : 0..Flight]
         /\ s.pc = "serve" => s \in [pc : {"serve"}, route : Route, claims : Claims, age : 0..Flight]
<1>1. CASE s = Idle
  BY <1>1 DEF Idle
<1>2. CASE s \in [pc : {"members"}, user : User, admin : BOOLEAN, age : 0..Flight]
  BY <1>2 DEF Idle
<1>3. CASE s \in [pc : {"tenants"}, user : User, admin : BOOLEAN, ids : SUBSET Tenant,
                  age : 0..Flight]
  BY <1>3 DEF Idle
<1>4. CASE s \in [pc : {"includes"}, user : User, tenant : Tenant, age : 0..Flight]
  BY <1>4 DEF Idle
<1>5. CASE s \in [pc : {"sign"}, user : User, ids : SUBSET Tenant, admin : BOOLEAN,
                  age : 0..Flight]
  BY <1>5 DEF Idle
<1>6. CASE s \in [pc : {"serve"}, route : Route, claims : Claims, age : 0..Flight]
  BY <1>6 DEF Idle
<1> QED BY <1>1, <1>2, <1>3, <1>4, <1>5, <1>6 DEF Busy

\* The bounds are kept while the claim is not false for longer.
LEMMA Shorter ==
  ASSUME NEW s \in {Idle} \cup Busy, NEW w, NEW n \in Nat, NEW m \in Nat, m <= n, Bounded(s, w, n)
  PROVE  Bounded(s, w, m)
<1>1. s # Idle => s.age \in Nat
  BY Ages, Constants
<1>2. s = Idle <=> s.pc = "idle"
  BY Ages
<1> QED BY <1>1, <1>2, Constants DEF Bounded

LEMMA ShorterTokens ==
  ASSUME NEW T \in SUBSET Token, NEW w, NEW n \in Nat, NEW m \in Nat, m <= n, Tokens(T, w, n)
  PROVE  Tokens(T, w, m)
<1>1. \A tok \in T : tok.left \in Nat
  BY Constants DEF Token
<1> QED BY <1>1, Constants DEF Tokens

\* A request's own step.
Steps(r, s) ==
  /\ s \in {Idle} \cup Busy /\ Bounded(s, watched, since)
  /\ req' = [req EXCEPT ![r] = s]

LEMMA Issues ==
  ASSUME IInv, NEW r \in Request, Issue(r)
  PROVE  /\ \E s : Steps(r, s)
         /\ UNCHANGED rows
         /\ tokens' \subseteq Token /\ Tokens(tokens', watched, since)
<1>1. /\ req \in [Request -> {Idle} \cup Busy] /\ Bounded(req[r], watched, since)
      /\ req[r] \in {Idle} \cup Busy
      /\ tokens \subseteq Token /\ Tokens(tokens, watched, since)
      /\ since \in Nat /\ (Holds(watched) => since = 0)
      /\ 0 \in 0..Flight
  BY Constants DEF IInv, TypeOK
<1>2. Bounded(Idle, watched, since)
  BY DEF Bounded, Idle
<1>3. ASSUME NEW u \in User, ReadUser(r, u) PROVE \E s : Steps(r, s)
  <2> DEFINE s == [pc |-> "members", user |-> u, admin |-> admin[u], age |-> 0]
  <2>1. admin[u] \in BOOLEAN
    BY DEF IInv, TypeOK
  <2>2. s \in Busy
    BY <1>1, <2>1 DEF Busy
  <2>3. Bounded(s, watched, since)
    BY <1>1, Claims3 DEF Bounded
  <2> QED BY <1>3, <2>2, <2>3 DEF ReadUser, Become, Steps
<1>4. ASSUME ReadMembers(r) PROVE \E s : Steps(r, s)
  <2> DEFINE ids == {t \in Tenant : ~RlsEnforced /\ member[<<t, req[r].user>>] = "active"}
             s == [pc |-> "tenants", user |-> req[r].user, admin |-> req[r].admin,
                   ids |-> ids, age |-> req[r].age]
  <2>1. req[r].pc = "members" /\ req' = [req EXCEPT ![r] = s]
    BY <1>4 DEF ReadMembers, Become
  <2>2. req[r] \in [pc : {"members"}, user : User, admin : BOOLEAN, age : 0..Flight]
    BY <1>1, <2>1, Ages
  <2>3. s \in Busy
    BY <2>2 DEF Busy
  <2>4. \A t \in ids : watched = MemberClaim(t, req[r].user) => since <= req[r].age
    BY <1>1, <2>2, Claims3, Constants
  <2>5. req[r].admin /\ watched = AdminClaim(req[r].user) => since <= req[r].age
    BY <1>1, <2>1 DEF Bounded
  <2>6. Bounded(s, watched, since)
    BY <2>4, <2>5 DEF Bounded
  <2>7. Steps(r, s)
    BY <2>1, <2>3, <2>6 DEF Steps
  <2> HIDE DEF s
  <2> QED BY <2>7
<1>5. ASSUME ReadTenants(r) PROVE \E s : Steps(r, s)
  <2> DEFINE ids == {t \in req[r].ids : tenant[t]}
             s == [pc |-> "sign", user |-> req[r].user, ids |-> ids,
                   admin |-> req[r].admin, age |-> req[r].age]
  <2>1. req[r].pc = "tenants" /\ req' = [req EXCEPT ![r] = s]
    BY <1>5 DEF ReadTenants, Become
  <2>2. req[r] \in [pc : {"tenants"}, user : User, admin : BOOLEAN, ids : SUBSET Tenant,
                    age : 0..Flight]
    BY <1>1, <2>1, Ages
  <2>3. s \in Busy
    BY <2>2 DEF Busy
  <2>4. \A t \in ids : watched = TenantClaim(t) => since <= req[r].age
    BY <1>1, <2>2, Claims3, Constants
  <2>5. /\ req[r].admin /\ watched = AdminClaim(req[r].user) => since <= req[r].age
        /\ \A t \in ids : watched = MemberClaim(t, req[r].user) => since <= req[r].age
    BY <1>1, <2>1 DEF Bounded
  <2>6. Bounded(s, watched, since)
    BY <2>4, <2>5 DEF Bounded
  <2>7. Steps(r, s)
    BY <2>1, <2>3, <2>6 DEF Steps
  <2> HIDE DEF s
  <2> QED BY <2>7
<1>6. ASSUME NEW t \in Tenant, SwitchRead(r, t) PROVE \E s : Steps(r, s)
  <2> DEFINE c == req[r].claims
             s == [pc |-> "includes", user |-> c.user, tenant |-> t, age |-> req[r].age]
  <2>1. /\ req[r].pc = "serve" /\ req' = [req EXCEPT ![r] = s]
        /\ member[<<t, c.user>>] = "active"
    BY <1>6 DEF SwitchRead, Serving, Become
  <2>2. req[r] \in [pc : {"serve"}, route : Route, claims : Claims, age : 0..Flight]
    BY <1>1, <2>1, Ages
  <2>3. s \in Busy
    BY <2>2 DEF Busy, Claims
  <2>4. watched = MemberClaim(t, c.user) => since <= req[r].age
    BY <1>1, <2>1, <2>2, Claims3, Constants
  <2>5. Bounded(s, watched, since)
    BY <2>4 DEF Bounded
  <2> QED BY <2>1, <2>3, <2>5 DEF Steps
<1>7. ASSUME SwitchIncludes(r) PROVE \E s : Steps(r, s)
  <2> DEFINE s == [pc |-> "sign", user |-> req[r].user, ids |-> {req[r].tenant},
                   admin |-> admin[req[r].user], age |-> req[r].age]
  <2>1. /\ req[r].pc = "includes" /\ req' = [req EXCEPT ![r] = s] /\ tenant[req[r].tenant]
    BY <1>7 DEF SwitchIncludes, Become
  <2>2. req[r] \in [pc : {"includes"}, user : User, tenant : Tenant, age : 0..Flight]
    BY <1>1, <2>1, Ages
  <2>3. admin[req[r].user] \in BOOLEAN
    BY <2>2 DEF IInv, TypeOK
  <2>4. s \in Busy
    BY <2>2, <2>3 DEF Busy
  <2>5. /\ watched = MemberClaim(req[r].tenant, req[r].user) => since <= req[r].age
        /\ watched = TenantClaim(req[r].tenant) => since <= req[r].age
        /\ admin[req[r].user] /\ watched = AdminClaim(req[r].user) => since <= req[r].age
    BY <1>1, <2>1, <2>2, Claims3, Constants DEF Bounded
  <2>6. Bounded(s, watched, since)
    BY <2>5 DEF Bounded
  <2>7. Steps(r, s)
    BY <2>1, <2>4, <2>6 DEF Steps
  <2> HIDE DEF s
  <2> QED BY <2>7
<1>8. ASSUME Sign(r) \/ Abort(r) PROVE \E s : Steps(r, s)
  <2>1. req' = [req EXCEPT ![r] = Idle]
    BY <1>8 DEF Sign, Abort, Become
  <2> QED BY <1>2, <2>1 DEF Steps
<1>9. CASE Sign(r)
  <2>1. req[r].pc = "sign" /\ UNCHANGED rows
    BY <1>9 DEF Sign
  <2>2. req[r] \in [pc : {"sign"}, user : User, ids : SUBSET Tenant, admin : BOOLEAN,
                    age : 0..Flight]
    BY <1>1, <2>1, Ages
  <2>3. PICK t \in (IF req[r].ids = {} THEN {NoTenant} ELSE req[r].ids),
             kept \in SUBSET tokens :
          tokens' = kept \cup
               {[claims |-> [user |-> req[r].user, tenant |-> t, admin |-> req[r].admin],
                 left |-> TTL]}
    BY <1>9 DEF Sign
  <2> DEFINE c == [user |-> req[r].user, tenant |-> t, admin |-> req[r].admin]
             tok == [claims |-> c, left |-> TTL]
  <2>4. t \in Tenant \cup {NoTenant}
    BY <2>2, <2>3
  <2>5. c \in Claims
    BY <2>2, <2>4 DEF Claims
  <2>6. tok \in Token
    BY <2>5, Constants DEF Token
  <2>7. Names(c, watched) => since <= req[r].age
    <3>1. c.admin /\ watched = AdminClaim(c.user) => since <= req[r].age
      BY <1>1, <2>1 DEF Bounded
    <3>2. t \in req[r].ids => (watched \in {MemberClaim(t, req[r].user), TenantClaim(t)}
                                 => since <= req[r].age)
      BY <1>1, <2>1 DEF Bounded
    <3>3. t = NoTenant => watched \notin {MemberClaim(t, req[r].user), TenantClaim(t)}
      BY AccessAssumption DEF IInv, TypeOK, Claim, Key, MemberClaim, TenantClaim
    <3> QED BY <2>3, <3>1, <3>2, <3>3 DEF Names
  <2>8. Names(tok.claims, watched) => since <= Flight + TTL - tok.left
    BY <1>1, <2>2, <2>7, Constants
  <2>9. Tokens(tokens', watched, since)
    BY <1>1, <2>3, <2>8 DEF Tokens
  <2> QED BY <1>1, <1>8, <1>9, <2>1, <2>3, <2>6, <2>9
<1>10. CASE ~Sign(r)
  <2>1. UNCHANGED <<rows, tokens>>
    BY <1>10 DEF Issue, ReadUser, SwitchRead, ReadMembers, ReadTenants, SwitchIncludes, Abort
  <2>2. \E s : Steps(r, s)
    BY <1>3, <1>4, <1>5, <1>6, <1>7, <1>8, <1>10 DEF Issue
  <2> QED BY <1>1, <2>1, <2>2
<1> QED BY <1>9, <1>10

\* Admission, and what the admitted handlers write.
LEMMA Serves ==
  ASSUME IInv, NEW r \in Request, Serve(r)
  PROVE  /\ \E s : Steps(r, s)
         /\ admin' \in [User -> BOOLEAN]
         /\ member' \in [Key -> {"none", "active", "ended"}]
         /\ tenant' \in [Tenant -> BOOLEAN]
         /\ UNCHANGED tokens
<1>1. /\ req \in [Request -> {Idle} \cup Busy]
      /\ tokens \subseteq Token /\ Tokens(tokens, watched, since)
      /\ admin \in [User -> BOOLEAN] /\ tenant \in [Tenant -> BOOLEAN]
      /\ member \in [Key -> {"none", "active", "ended"}]
      /\ since \in Nat /\ 0 \in 0..Flight
  BY Constants DEF IInv, TypeOK
<1>2. Bounded(Idle, watched, since)
  BY DEF Bounded, Idle
<1>3. ASSUME NEW tok \in tokens, NEW route \in Route, Admit(r, tok.claims, route)
      PROVE  \E s : Steps(r, s)
  <2> DEFINE s == [pc |-> "serve", route |-> route, claims |-> tok.claims, age |-> 0]
  <2>1. tok.claims \in Claims /\ tok.left \in 1..TTL
    BY <1>1 DEF Token
  <2>2. s \in Busy
    BY <1>1, <2>1 DEF Busy
  <2>3. Names(tok.claims, watched) => since <= Flight + TTL - 1 + 0
    BY <1>1, <2>1, Constants DEF Tokens
  <2>4. route = "platform" => tok.claims.admin
    BY <1>3 DEF Admit, PlatformAdminGuardPasses
  <2>5. Bounded(s, watched, since)
    BY <2>3, <2>4 DEF Bounded
  <2> QED BY <1>3, <2>2, <2>5 DEF Admit, Become, Steps
<1>4. ASSUME req' = [req EXCEPT ![r] = Idle] PROVE \E s : Steps(r, s)
  BY <1>2, <1>4 DEF Steps
<1>5. CASE \E tok \in tokens, route \in Route : Admit(r, tok.claims, route)
  BY <1>1, <1>3, <1>5 DEF Admit, rows
<1>6. ASSUME NEW u \in User, CreateMember(r, u) \/ EndMember(r, u)
      PROVE  /\ req' = [req EXCEPT ![r] = Idle]
             /\ UNCHANGED <<admin, tenant, tokens>>
             /\ member' \in [Key -> {"none", "active", "ended"}]
  BY <1>1, <1>6 DEF CreateMember, EndMember, Become
<1>7. ASSUME NEW u \in User, NEW b \in BOOLEAN, SetAdmin(r, u, b)
      PROVE  /\ req' = [req EXCEPT ![r] = Idle]
             /\ UNCHANGED <<member, tenant, tokens>>
             /\ admin' \in [User -> BOOLEAN]
  BY <1>1, <1>7 DEF SetAdmin, Become
<1>8. ASSUME NEW t \in Tenant, DeactivateTenant(r, t)
      PROVE  /\ req' = [req EXCEPT ![r] = Idle]
             /\ UNCHANGED <<admin, member, tokens>>
             /\ tenant' \in [Tenant -> BOOLEAN]
  BY <1>1, <1>8 DEF DeactivateTenant, Become
<1> QED BY <1>1, <1>4, <1>5, <1>6, <1>7, <1>8 DEF Serve

-----------------------------------------------------------------------------
\* Time.

\* A request in progress and the claim's age grow together.
LEMMA Aging ==
  ASSUME NEW s \in Busy, s.age < Flight, NEW w, NEW n \in Nat, Bounded(s, w, n)
  PROVE  /\ [s EXCEPT !.age = s.age + 1] \in Busy
         /\ Bounded([s EXCEPT !.age = s.age + 1], w, n + 1)
<1> DEFINE a == s.age + 1
           q == [s EXCEPT !.age = a]
<1>0. Flight \in Nat /\ TTL \in Nat
  BY Constants
<1>1. CASE s \in [pc : {"members"}, user : User, admin : BOOLEAN, age : 0..Flight]
  <2>1. a \in 0..Flight /\ s.age \in Nat
    BY <1>0, <1>1
  <2>2. q = [pc |-> "members", user |-> s.user, admin |-> s.admin, age |-> a]
    BY <1>1
  <2>3. q \in Busy
    BY <1>1, <2>1, <2>2 DEF Busy
  <2> QED BY <1>1, <2>1, <2>2, <2>3 DEF Bounded
<1>2. CASE s \in [pc : {"tenants"}, user : User, admin : BOOLEAN, ids : SUBSET Tenant,
                  age : 0..Flight]
  <2>1. a \in 0..Flight /\ s.age \in Nat
    BY <1>0, <1>2
  <2>2. q = [pc |-> "tenants", user |-> s.user, admin |-> s.admin, ids |-> s.ids, age |-> a]
    BY <1>2
  <2>3. q \in Busy
    BY <1>2, <2>1, <2>2 DEF Busy
  <2> QED BY <1>2, <2>1, <2>2, <2>3 DEF Bounded
<1>3. CASE s \in [pc : {"includes"}, user : User, tenant : Tenant, age : 0..Flight]
  <2>1. a \in 0..Flight /\ s.age \in Nat
    BY <1>0, <1>3
  <2>2. q = [pc |-> "includes", user |-> s.user, tenant |-> s.tenant, age |-> a]
    BY <1>3
  <2>3. q \in Busy
    BY <1>3, <2>1, <2>2 DEF Busy
  <2> QED BY <1>3, <2>1, <2>2, <2>3 DEF Bounded
<1>4. CASE s \in [pc : {"sign"}, user : User, ids : SUBSET Tenant, admin : BOOLEAN,
                  age : 0..Flight]
  <2>1. a \in 0..Flight /\ s.age \in Nat
    BY <1>0, <1>4
  <2>2. q = [pc |-> "sign", user |-> s.user, ids |-> s.ids, admin |-> s.admin, age |-> a]
    BY <1>4
  <2>3. q \in Busy
    BY <1>4, <2>1, <2>2 DEF Busy
  <2> QED BY <1>4, <2>1, <2>2, <2>3 DEF Bounded
<1>5. CASE s \in [pc : {"serve"}, route : Route, claims : Claims, age : 0..Flight]
  <2>1. a \in 0..Flight /\ s.age \in Nat
    BY <1>0, <1>5
  <2>2. q = [pc |-> "serve", route |-> s.route, claims |-> s.claims, age |-> a]
    BY <1>5
  <2>3. q \in Busy
    BY <1>5, <2>1, <2>2 DEF Busy
  <2> QED BY <1>0, <1>5, <2>1, <2>2, <2>3 DEF Bounded
<1> QED BY <1>1, <1>2, <1>3, <1>4, <1>5 DEF Busy

\* Tokens that have not expired a tick later.
LEMMA AgingTokens ==
  ASSUME tokens \subseteq Token, NEW w, NEW n \in Nat, Tokens(tokens, w, n)
  PROVE  /\ UNION {Aged(tok) : tok \in tokens} \subseteq Token
         /\ Tokens(UNION {Aged(tok) : tok \in tokens}, w, n + 1)
<1>1. ASSUME NEW tok \in tokens, NEW new \in Aged(tok)
      PROVE  new \in Token /\ (Names(new.claims, w) => n + 1 <= Flight + TTL - new.left)
  <2>1. /\ tok.claims \in Claims /\ tok.left \in 1..TTL
        /\ tok = [claims |-> tok.claims, left |-> tok.left]
    BY DEF Token
  <2>2. tok.left > 1 /\ new = [claims |-> tok.claims, left |-> tok.left - 1]
    BY <1>1, <2>1 DEF Aged
  <2>3. new \in Token
    BY <2>1, <2>2, Constants DEF Token
  <2>4. Names(tok.claims, w) => n <= Flight + TTL - tok.left
    BY DEF Tokens
  <2> QED BY <2>1, <2>2, <2>3, <2>4, Constants
<1> QED BY <1>1 DEF Tokens

LEMMA TickStep == IInv /\ Tick /\ Watch(TRUE) => IInv'
<1> SUFFICES ASSUME IInv, Tick, Watch(TRUE) PROVE IInv'
  OBVIOUS
<1>1. /\ req \in [Request -> {Idle} \cup Busy]
      /\ \A r \in Request : Bounded(req[r], watched, since)
      /\ tokens \subseteq Token /\ Tokens(tokens, watched, since)
      /\ since \in 0..Window /\ Window \in Nat /\ watched' = watched /\ watched \in Claim
  BY Constants DEF IInv, TypeOK, Watch
<1>2. since' \in 0..Window /\ since' <= since + 1 /\ (Holds(watched)' => since' = 0)
  BY <1>1 DEF Watch
<1>3. ASSUME NEW r \in Request
      PROVE  req'[r] \in {Idle} \cup Busy /\ Bounded(req'[r], watched, since')
  <2>1. CASE req[r] = Idle
    <3>1. req'[r] = Idle
      BY <2>1 DEF Tick
    <3> QED BY <3>1 DEF Bounded, Idle
  <2>2. CASE req[r] # Idle
    <3>1. /\ req[r] \in Busy /\ req[r].age < Flight
          /\ req'[r] = [req[r] EXCEPT !.age = req[r].age + 1]
      BY <1>1, <2>2 DEF Tick
    <3>2. req'[r] \in Busy /\ Bounded(req'[r], watched, since + 1)
      BY <1>1, <3>1, Aging
    <3>3. since + 1 \in Nat /\ since' \in Nat
      BY <1>1, <1>2
    <3> QED BY <1>2, <3>2, <3>3, Shorter
  <2> QED BY <2>1, <2>2
<1>4. tokens' \subseteq Token /\ Tokens(tokens', watched, since')
  <2>1. since \in Nat /\ since + 1 \in Nat /\ since' \in Nat
    BY <1>1, <1>2
  <2>2. tokens' \subseteq Token /\ Tokens(tokens', watched, since + 1)
    BY <1>1, <2>1, AgingTokens DEF Tick
  <2> QED BY <1>2, <2>1, <2>2, ShorterTokens
<1>5. UNCHANGED rows
  BY DEF Tick
<1>6. req' \in [Request -> {Idle} \cup Busy]
  BY <1>3 DEF Tick
<1>7. TypeOK'
  BY <1>1, <1>2, <1>4, <1>5, <1>6 DEF IInv, TypeOK, rows
<1> QED BY <1>1, <1>2, <1>3, <1>4, <1>7 DEF IInv

-----------------------------------------------------------------------------
LEMMA InitInv == Init => IInv
<1> SUFFICES ASSUME Init PROVE IInv
  OBVIOUS
<1>1. TypeOK
  BY Constants DEF Init, TypeOK
<1>2. \A r \in Request : Bounded(req[r], watched, since)
  BY DEF Init, Bounded, Idle
<1> QED BY <1>1, <1>2 DEF Init, IInv, Tokens

\* A request's step does not make a claim false for longer.
LEMMA RequestStep ==
  ASSUME IInv, NEW r \in Request, Issue(r) \/ Serve(r), Watch(FALSE)
  PROVE  IInv'
<1>1. /\ req \in [Request -> {Idle} \cup Busy]
      /\ \A q \in Request : Bounded(req[q], watched, since)
      /\ tokens \subseteq Token /\ Tokens(tokens, watched, since)
      /\ since \in 0..Window /\ Window \in Nat /\ watched' = watched /\ watched \in Claim
      /\ admin \in [User -> BOOLEAN] /\ tenant \in [Tenant -> BOOLEAN]
      /\ member \in [Key -> {"none", "active", "ended"}]
  BY Constants DEF IInv, TypeOK, Watch
<1>2. since' \in 0..Window /\ since' <= since /\ (Holds(watched)' => since' = 0)
  BY <1>1 DEF Watch
<1>3. /\ \E s : Steps(r, s)
      /\ tokens' \subseteq Token /\ Tokens(tokens', watched, since)
      /\ admin' \in [User -> BOOLEAN] /\ tenant' \in [Tenant -> BOOLEAN]
      /\ member' \in [Key -> {"none", "active", "ended"}]
  <2>1. CASE Issue(r)
    BY <1>1, <2>1, Issues DEF rows
  <2>2. CASE Serve(r)
    BY <1>1, <2>2, Serves
  <2> QED BY <2>1, <2>2
<1>4. PICK s : Steps(r, s)
  BY <1>3
<1>5. req' \in [Request -> {Idle} \cup Busy]
  BY <1>1, <1>4 DEF Steps
<1>6. ASSUME NEW q \in Request PROVE Bounded(req'[q], watched, since')
  <2>1. Bounded(req'[q], watched, since)
    BY <1>1, <1>4 DEF Steps
  <2>2. req'[q] \in {Idle} \cup Busy
    BY <1>5
  <2> QED BY <1>1, <1>2, <2>1, <2>2, Shorter
<1>7. Tokens(tokens', watched, since')
  BY <1>1, <1>2, <1>3, ShorterTokens
<1>8. TypeOK'
  BY <1>1, <1>2, <1>3, <1>5 DEF TypeOK
<1> QED BY <1>1, <1>2, <1>6, <1>7, <1>8 DEF IInv

LEMMA NextInv == IInv /\ [Next]_vars => IInv'
<1> SUFFICES ASSUME IInv, [Next]_vars PROVE IInv'
  OBVIOUS
<1>1. CASE Next
  BY <1>1, RequestStep, TickStep DEF Next
<1>2. CASE UNCHANGED vars
  BY <1>2 DEF vars, IInv, TypeOK, Holds, rows
<1> QED BY <1>1, <1>2

-----------------------------------------------------------------------------
\* A claim that has been false for n ticks is carried by requests to be signed
\* no older than n, by tokens signed at most one request's time after its end,
\* and by requests admitted on those (login, rotateToken, switchTenantContext,
\* jwt.strategy), for any lifetime and any limit on a request's time.
THEOREM Invariance == Spec => []IInv
<1> QED BY InitInv, NextInv, PTL DEF Spec

\* The rows, the tokens and the requests have their types.
THEOREM TypeCorrect == Spec => []TypeOK
<1>1. IInv => TypeOK
  BY DEF IInv
<1> QED BY <1>1, Invariance, PTL

\* A membership that ended, or whose tenant was deactivated, admits nobody to
\* the tenant's routes after one token's lifetime and the time of two requests.
THEOREM TenantAccessEnds == Spec => []TenantAccessEndsInTime
<1>1. IInv => TenantAccessEndsInTime
  <2> SUFFICES ASSUME IInv, since = Window, NEW r \in Request,
                      Serving(r, "tenant") \/ Serving(r, "granted")
               PROVE  /\ watched # MemberClaim(req[r].claims.tenant, req[r].claims.user)
                      /\ watched # TenantClaim(req[r].claims.tenant)
    BY DEF TenantAccessEndsInTime, MemberClaim, TenantClaim
  <2>1. req[r].pc = "serve" /\ req[r] \in {Idle} \cup Busy /\ Bounded(req[r], watched, since)
    BY DEF Serving, IInv, TypeOK
  <2>2. req[r].age \in 0..Flight
    BY <2>1, Ages
  <2> QED BY <2>1, <2>2, Constants DEF Bounded, Names
<1> QED BY <1>1, Invariance, PTL

\* A platform admin's flag that was taken away, and not given back, admits
\* nobody to the platform's routes after that time.
THEOREM AdminEnds == Spec => []AdminEndsInTime
<1>1. IInv => AdminEndsInTime
  <2> SUFFICES ASSUME IInv, since = Window, NEW r \in Request, Serving(r, "platform")
               PROVE  watched # AdminClaim(req[r].claims.user)
    BY DEF AdminEndsInTime, AdminClaim
  <2>1. /\ req[r].pc = "serve" /\ req[r].route = "platform"
        /\ req[r] \in {Idle} \cup Busy /\ Bounded(req[r], watched, since)
    BY DEF Serving, IInv, TypeOK
  <2>2. req[r].age \in 0..Flight
    BY <2>1, Ages
  <2> QED BY <2>1, <2>2, Constants DEF Bounded, Names
<1> QED BY <1>1, Invariance, PTL
=============================================================================
