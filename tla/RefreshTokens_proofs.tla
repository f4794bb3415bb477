------------------------- MODULE RefreshTokens_proofs -------------------------
(***************************************************************************)
(* Theorems of RefreshTokens and TokenChains for any users, any number of  *)
(* request slots and any bound on the rows.                                *)
(***************************************************************************)
EXTENDS TokenChains, SequenceTheorems, TLAPS

-----------------------------------------------------------------------------
\* The inductive invariant.

\* replaced_by_id points forward to a row made from this one.
Links ==
  \A t \in Token : LET n == table[t].replacedById IN
    n # NoToken => /\ n \in Token /\ t < n
                   /\ table[n].user = table[t].user
                   /\ history[n].from = t
                   /\ table[t].isRevoked

Origins == \A t \in Token : /\ history[t].from # NoToken => history[t].from \in Token
                            /\ Chain(t) \in Token
                            /\ table[Chain(t)].user = table[t].user

\* The row slot p inserted and has not handed out yet.
Held(p) == IF req[p].pc \in {"mark", "respond"} THEN req[p].new ELSE NoToken

HeldOK(p) == Held(p) # NoToken => Held(p) \in Token /\ Held(p) \notin delivered

MarkOK(p) == LET old == req[p].token
                 new == req[p].new
             IN new # NoToken => /\ old < new
                                 /\ history[new].from = old
                                 /\ table[new].user = table[old].user
                                 /\ Chain(new) = Chain(old)
                                 /\ \A t \in Token : Chain(t) # new
                                 /\ new \notin ended

RespondOK(p) == LET new == req[p].new
                    old == history[new].from
                IN new # NoToken /\ old # NoToken => table[old].isRevoked \/ Forked(new)

WalkOK(p) == req[p].token \in Token /\ table[req[p].token].isRevoked

NextOK(p) == req[p].new # NoToken =>
               req[p].new \in Token /\ table[req[p].new].isRevoked

HandlerOK(p) ==
  /\ HeldOK(p)
  /\ req[p].pc \in {"create", "mark"} => req[p].token \in delivered
  /\ req[p].pc = "mark" => MarkOK(p)
  /\ req[p].pc = "respond" => RespondOK(p)
  /\ req[p].pc = "walkRead" => WalkOK(p)
  /\ req[p].pc = "walkRevoke" => WalkOK(p) /\ NextOK(p)

Distinct == \A p, q \in Request : p # q /\ Held(p) # NoToken => Held(p) # Held(q)

IInv == /\ TypeOK
        /\ Links
        /\ Origins
        /\ \A p \in Request : HandlerOK(p)
        /\ Distinct
        /\ RotationConsumesItsToken

-----------------------------------------------------------------------------
\* The table's operations.

\* A created row is appended: the other rows and their history stay.
LEMMA InsertFacts ==
  ASSUME TypeOK, NEW u \in User, NEW h \in Provenance, Insert(u, h)
  PROVE  /\ table' \in Seq(Row) /\ history' \in Seq(Provenance)
         /\ Len(history') = Len(table')
         /\ NewToken \in Nat \ {0} /\ NewToken \notin Token
         /\ Token' = Token \cup {NewToken}
         /\ \A t \in Token : t < NewToken
         /\ table'[NewToken].user = u
         /\ ~table'[NewToken].isRevoked
         /\ table'[NewToken].replacedById = NoToken
         /\ history'[NewToken] = h
         /\ \A t \in Token : table'[t] = table[t] /\ history'[t] = history[t]
<1> DEFINE row == [user |-> u, isRevoked |-> FALSE, replacedById |-> NoToken]
<1>1. row \in Row
  BY DEF Row, NoToken
<1>2. /\ table \in Seq(Row) /\ history \in Seq(Provenance)
      /\ Len(history) = Len(table) /\ Len(table) \in Nat
      /\ Token = 1..Len(table)
  BY DEF TypeOK, Token
<1>3. table' = Append(table, row) /\ history' = Append(history, h)
  BY DEF Insert
<1> HIDE DEF row
<1>4. /\ table' \in Seq(Row) /\ Len(table') = Len(table) + 1
      /\ table'[Len(table) + 1] = row
      /\ \A t \in 1..Len(table) : table'[t] = table[t]
  BY <1>1, <1>2, <1>3
<1>5. /\ history' \in Seq(Provenance) /\ Len(history') = Len(table) + 1
      /\ history'[Len(table) + 1] = h
      /\ \A t \in 1..Len(table) : history'[t] = history[t]
  BY <1>2, <1>3
<1>6. Token' = 1..(Len(table) + 1)
  BY <1>4 DEF Token
<1>7. QED
  BY <1>2, <1>4, <1>5, <1>6 DEF NewToken, row

\* Revoking keeps every row and its links, and revokes no row outside S.
LEMMA RevokedFacts ==
  ASSUME TypeOK, NEW S
  PROVE  /\ Revoked(S) \in Seq(Row)
         /\ Len(Revoked(S)) = Len(table)
         /\ DOMAIN Revoked(S) = Token
         /\ \A t \in Token : /\ Revoked(S)[t].user = table[t].user
                             /\ Revoked(S)[t].replacedById = table[t].replacedById
                             /\ t \in S => Revoked(S)[t].isRevoked
                             /\ table[t].isRevoked => Revoked(S)[t] = table[t]
                             /\ t \notin S => Revoked(S)[t] = table[t]
<1>1. table \in Seq(Row) /\ Len(table) \in Nat /\ Token = 1..Len(table)
  BY DEF TypeOK, Token
<1>2. \A t \in Token : table[t] \in Row
  BY <1>1
<1>3. \A t \in Token : Revoked(S)[t] =
        IF t \in S THEN [table[t] EXCEPT !.isRevoked = TRUE] ELSE table[t]
  BY DEF Revoked
<1>4. \A t \in Token : [table[t] EXCEPT !.isRevoked = TRUE] \in Row
  BY <1>2 DEF Row
<1>5. Revoked(S) \in [1..Len(table) -> Row]
  BY <1>1, <1>2, <1>4 DEF Revoked
<1>6. Revoked(S) \in Seq(Row) /\ Len(Revoked(S)) = Len(table)
  BY <1>1, <1>5
<1>7. \A t \in Token : table[t].isRevoked =>
        [table[t] EXCEPT !.isRevoked = TRUE] = table[t]
  BY <1>2 DEF Row
<1>8. QED
  BY <1>1, <1>2, <1>3, <1>5, <1>6, <1>7 DEF Row

-----------------------------------------------------------------------------
\* What a step of slot p leaves of the invariant.

\* No row loses its user, its origin or its revocation; only the row p holds may
\* begin a chain; a new row joins the chain of a row of its user or begins one;
\* only the row p holds may be handed out.
Keeps(p) ==
  /\ Token \subseteq Token'
  /\ \A t \in Token : /\ table'[t].user = table[t].user
                      /\ table[t].isRevoked => table'[t].isRevoked
                      /\ history'[t].from = history[t].from
                      /\ \/ history'[t].chain = history[t].chain
                         \/ t = Held(p) /\ t \notin delivered /\ history'[t].chain = t
  /\ \A t \in Token' \ Token :
       /\ history'[t].from # NoToken => history'[t].from \in Token
       /\ \/ history'[t].chain = t
          \/ \E s \in Token : /\ history'[t].chain = history[s].chain
                              /\ table'[t].user = table[s].user
  /\ delivered \subseteq delivered' /\ delivered' \subseteq delivered \cup {Held(p)}
  /\ ended' \subseteq ended \cup {Chain(t) : t \in Token}
  /\ \A q \in Request \ {p} : req'[q] = req[q]

LEMMA InitIInv == Init => IInv
<1> SUFFICES ASSUME Init PROVE IInv
  OBVIOUS
<1>1. Token = {}
  BY DEF Init, Token
<1>2. TypeOK
  BY <1>1 DEF Init, TypeOK, Idle, Handler, PC, NoToken
<1>3. \A p \in Request : Held(p) = NoToken /\ HandlerOK(p)
  BY DEF Init, Idle, HandlerOK, Held, HeldOK
<1>4. QED
  BY <1>1, <1>2, <1>3
     DEF Init, IInv, Links, Origins, Distinct, RotationConsumesItsToken

\* The slots that do not move keep their part.
LEMMA OthersKeep ==
  ASSUME IInv, NEW p \in Request, Keeps(p), NEW q \in Request, q # p
  PROVE  HandlerOK(q)' /\ Held(q)' = Held(q)
<1>1. /\ HandlerOK(q) /\ req'[q] = req[q] /\ delivered \subseteq Token
      /\ Held(q) # NoToken => Held(q) # Held(p)
      /\ Origins
  BY DEF IInv, Distinct, Keeps, TypeOK
<1>2. Held(q)' = Held(q)
  BY <1>1 DEF Held
<1>3. HeldOK(q)'
  BY <1>1, <1>2 DEF HandlerOK, HeldOK, Keeps
<1>4. req'[q].pc \in {"create", "mark"} => req'[q].token \in delivered'
  BY <1>1 DEF HandlerOK, Keeps
<1>5. ASSUME req'[q].pc = "mark", req[q].new # NoToken PROVE MarkOK(q)'
  <2> DEFINE old == req[q].token
             new == req[q].new
  <2>1. /\ MarkOK(q) /\ Held(q) = new /\ new \in Token /\ new # Held(p)
        /\ old \in delivered /\ old \in Token
    BY <1>1, <1>5 DEF HandlerOK, HeldOK, Held
  <2>2. /\ history'[new].chain = history[new].chain
        /\ history'[old].chain = history[old].chain
    BY <2>1 DEF Keeps
  <2>3. \A t \in Token' : history'[t].chain # new
    <3>1. ASSUME NEW t \in Token PROVE history'[t].chain # new
      BY <1>5, <2>1, <3>1 DEF Keeps, MarkOK, Chain
    <3>2. ASSUME NEW t \in Token', t \notin Token PROVE history'[t].chain # new
      BY <1>5, <2>1, <3>2 DEF Keeps, MarkOK, Chain
    <3> QED BY <3>1, <3>2
  <2>4. new \notin ended'
    BY <1>5, <2>1 DEF Keeps, MarkOK
  <2> QED BY <1>1, <1>5, <2>1, <2>2, <2>3, <2>4 DEF MarkOK, Chain, Keeps
<1>6. ASSUME req'[q].pc = "respond", req[q].new # NoToken PROVE RespondOK(q)'
  <2> DEFINE new == req[q].new
  <2>1. RespondOK(q) /\ Held(q) = new /\ new \in Token /\ new # Held(p)
    BY <1>1, <1>6 DEF HandlerOK, HeldOK, Held
  <2>2. /\ history'[new].chain = history[new].chain
        /\ history'[new].from = history[new].from
    BY <2>1 DEF Keeps
  <2>3. history[new].from # NoToken => history[new].from \in Token
    BY <1>1, <2>1 DEF Origins
  <2> QED BY <1>1, <1>6, <2>1, <2>2, <2>3 DEF RespondOK, Forked, Chain, Keeps
<1>7. /\ req'[q].new = NoToken => MarkOK(q)' /\ RespondOK(q)'
  BY DEF MarkOK, RespondOK, NoToken
<1>8. WalkOK(q) => WalkOK(q)'
  BY <1>1 DEF WalkOK, Keeps
<1>9. NextOK(q) => NextOK(q)'
  BY <1>1 DEF NextOK, Keeps
<1> QED
  BY <1>1, <1>2, <1>3, <1>4, <1>5, <1>6, <1>7, <1>8, <1>9 DEF HandlerOK

\* So the whole invariant is kept, if p keeps its own part.
LEMMA FrameStep ==
  ASSUME IInv, NEW p \in Request, Keeps(p), TypeOK', Links', HandlerOK(p)',
         Held(p)' \in {NoToken, Held(p)} \/ Held(p)' \notin Token,
         \A t \in delivered' \ delivered :
           history'[t].from # NoToken => table'[history'[t].from].isRevoked \/ Forked(t)'
  PROVE  IInv'
<1>1. \A q \in Request : q # p => HandlerOK(q)' /\ Held(q)' = Held(q)
  BY OthersKeep
<1>2. /\ TypeOK /\ Origins /\ Distinct /\ delivered \subseteq Token
      /\ RotationConsumesItsToken
  BY DEF IInv, TypeOK
<1>3. \A q \in Request : Held(q) # NoToken => Held(q) \in Token
  BY DEF IInv, HandlerOK, HeldOK
<1>4. Distinct'
  <2> SUFFICES ASSUME NEW q \in Request, NEW r \in Request, q # r, Held(q)' # NoToken
               PROVE  Held(q)' # Held(r)'
    BY DEF Distinct, NoToken
  <2>1. CASE q # p /\ r # p
    BY <1>1, <1>2, <2>1 DEF Distinct
  <2>2. CASE q = p
    BY <1>1, <1>2, <1>3, <2>2 DEF Distinct
  <2>3. CASE r = p
    BY <1>1, <1>2, <1>3, <2>3 DEF Distinct
  <2> QED BY <2>1, <2>2, <2>3
<1>5. Origins'
  <2>1. ASSUME NEW t \in Token
        PROVE  /\ history'[t].from # NoToken => history'[t].from \in Token'
               /\ history'[t].chain \in Token'
               /\ table'[history'[t].chain].user = table'[t].user
    <3>1. t \in Token' /\ history[t].chain \in Token
      BY <1>2 DEF Keeps, Origins, Chain
    <3> QED BY <1>2, <3>1 DEF Keeps, Origins, Chain
  <2>2. ASSUME NEW t \in Token', t \notin Token
        PROVE  /\ history'[t].from # NoToken => history'[t].from \in Token'
               /\ history'[t].chain \in Token'
               /\ table'[history'[t].chain].user = table'[t].user
    <3>1. CASE history'[t].chain = t
      BY <2>2, <3>1 DEF Keeps
    <3>2. CASE history'[t].chain # t
      <4>1. PICK s \in Token : /\ history'[t].chain = history[s].chain
                               /\ table'[t].user = table[s].user
        BY <2>2, <3>2 DEF Keeps
      <4> QED BY <1>2, <2>2, <4>1 DEF Keeps, Origins, Chain
    <3> QED BY <3>1, <3>2
  <2> QED BY <2>1, <2>2 DEF Origins, Chain, NoToken
<1>6. RotationConsumesItsToken'
  <2> SUFFICES ASSUME NEW t \in delivered', history'[t].from # NoToken
               PROVE  table'[history'[t].from].isRevoked \/ Forked(t)'
    BY DEF RotationConsumesItsToken, NoToken
  <2>1. CASE t \in delivered
    <3>1. /\ t \in Token /\ history[t].from \in Token
          /\ history'[t].from = history[t].from /\ history'[t].chain = history[t].chain
      BY <1>2, <2>1 DEF Keeps, Origins
    <3> QED BY <1>2, <2>1, <3>1 DEF Keeps, RotationConsumesItsToken, Forked, Chain
  <2> QED BY <2>1
<1> QED
  BY <1>1, <1>4, <1>5, <1>6 DEF IInv

-----------------------------------------------------------------------------
\* One lemma per action: it keeps the invariant, and Keeps(p).

\* Slot p moves to another point and the tables are left alone.
LEMMA MoveStep ==
  ASSUME IInv, NEW p \in Request, NEW h \in Handler, Goto(p, h), HandlerOK(p)',
         Held(p)' \in {NoToken, Held(p)}, UNCHANGED <<table, delivered, history, ended>>
  PROVE  Keeps(p) /\ IInv'
<1>1. /\ Links' /\ Token' = Token /\ TypeOK /\ req \in [Request -> Handler]
  BY DEF IInv, Links, Token, TypeOK
<1>2. TypeOK'
  BY <1>1 DEF TypeOK, Goto
<1>3. \A q \in Request \ {p} : req'[q] = req[q]
  BY <1>1 DEF Goto
<1>4. Keeps(p)
  BY <1>1, <1>3 DEF Keeps
<1> QED
  BY <1>1, <1>2, <1>4, FrameStep

\* A row is inserted, by a login, a tenant switch or a rotation.
LEMMA InsertStep ==
  ASSUME IInv, NEW p \in Request, NEW u \in User, NEW h \in Provenance, Insert(u, h),
         h.from # NoToken => h.from \in Token,
         h.chain = NewToken \/ \E s \in Token : h.chain = Chain(s) /\ u = table[s].user,
         req' \in [Request -> Handler], \A q \in Request \ {p} : req'[q] = req[q],
         HandlerOK(p)', Held(p)' \in {NoToken, Held(p), NewToken},
         delivered' = delivered, ended' = ended
  PROVE  Keeps(p) /\ IInv'
<1>0. TypeOK /\ Links
  BY DEF IInv
<1>1. /\ table' \in Seq(Row) /\ history' \in Seq(Provenance)
      /\ Len(history') = Len(table')
      /\ NewToken \in Nat \ {0} /\ NewToken \notin Token
      /\ Token' = Token \cup {NewToken}
      /\ table'[NewToken].replacedById = NoToken
      /\ table'[NewToken].user = u
      /\ history'[NewToken] = h
      /\ \A t \in Token : table'[t] = table[t] /\ history'[t] = history[t]
  BY <1>0, InsertFacts
<1>2. TypeOK'
  BY <1>0, <1>1 DEF TypeOK
<1>3. Links'
  BY <1>0, <1>1 DEF Links
<1>4. Keeps(p)
  <2>1. \A t \in Token' \ Token :
          /\ history'[t].from # NoToken => history'[t].from \in Token
          /\ \/ history'[t].chain = t
             \/ \E s \in Token : /\ history'[t].chain = history[s].chain
                                 /\ table'[t].user = table[s].user
    BY <1>1 DEF Chain
  <2>2. /\ Token \subseteq Token'
        /\ \A t \in Token : /\ table'[t].user = table[t].user
                            /\ table[t].isRevoked => table'[t].isRevoked
                            /\ history'[t].from = history[t].from
                            /\ history'[t].chain = history[t].chain
    BY <1>1
  <2> QED BY <2>1, <2>2 DEF Keeps
<1> QED
  BY <1>1, <1>2, <1>3, <1>4, FrameStep

\* A step that touches rows by revoking some of them keeps the links.
LEMMA RevokedKeepsLinks ==
  ASSUME IInv, NEW S, table' = Revoked(S), history' = history
  PROVE  /\ Links' /\ Token' = Token
         /\ table' \in Seq(Row) /\ Len(table') = Len(table)
         /\ \A t \in Token : /\ table'[t].user = table[t].user
                             /\ table[t].isRevoked => table'[t].isRevoked
                             /\ t \in S => table'[t].isRevoked
<1>1. TypeOK /\ Links
  BY DEF IInv
<1>2. Token' = Token /\ table' \in Seq(Row) /\ Len(table') = Len(table)
  BY <1>1, RevokedFacts DEF Token
<1>3. \A t \in Token : /\ table'[t].user = table[t].user
                       /\ table'[t].replacedById = table[t].replacedById
                       /\ table[t].isRevoked => table'[t].isRevoked
                       /\ t \in S => table'[t].isRevoked
  <2>1. \A t \in Token : table[t].isRevoked => table'[t] = table[t]
    BY <1>1, RevokedFacts
  <2> QED
    BY <1>1, <2>1, RevokedFacts
<1>4. Links'
  BY <1>1, <1>2, <1>3 DEF Links
<1> QED
  BY <1>2, <1>3, <1>4

\* A login inserts a row that begins a chain, or loses it.
LEMMA LoginPreserves ==
  ASSUME IInv, NEW p \in Request, NEW u \in User, Login(p, u)
  PROVE  Keeps(p) /\ IInv'
<1> DEFINE h == [from |-> NoToken, chain |-> NewToken]
           stored == [pc |-> "respond", token |-> NoToken, new |-> NewToken]
           lost == [pc |-> "respond", token |-> NoToken, new |-> NoToken]
<1>1. TypeOK /\ req \in [Request -> Handler] /\ NewToken \in Nat \ {0}
  BY DEF IInv, TypeOK, NewToken
<1>2. h \in Provenance /\ stored \in Handler /\ lost \in Handler
  BY <1>1 DEF Provenance, NoToken, Handler, PC
<1>3. CASE Insert(u, h) /\ Goto(p, stored)
  <2>1. /\ Token' = Token \cup {NewToken} /\ history'[NewToken] = h
        /\ NewToken \notin Token
    BY <1>1, <1>2, <1>3, InsertFacts
  <2>2. /\ req' \in [Request -> Handler] /\ req'[p] = stored
        /\ \A q \in Request \ {p} : req'[q] = req[q]
    BY <1>1, <1>2, <1>3 DEF Goto
  <2>3. Held(p)' = NewToken /\ NewToken \notin delivered'
    BY <1>1, <2>1, <2>2 DEF Held, Login, TypeOK
  <2>4. RespondOK(p)'
    BY <2>1, <2>2 DEF RespondOK
  <2>5. HandlerOK(p)'
    BY <2>1, <2>2, <2>3, <2>4 DEF HandlerOK, HeldOK
  <2>6. delivered' = delivered /\ ended' = ended
    BY DEF Login
  <2>7. h.from = NoToken /\ h.chain = NewToken
    OBVIOUS
  <2> HIDE DEF h, stored
  <2> QED BY <1>2, <1>3, <2>2, <2>3, <2>5, <2>6, <2>7, InsertStep
<1>4. CASE Goto(p, lost) /\ UNCHANGED <<table, history>>
  <2>1. req'[p] = lost
    BY <1>1, <1>4 DEF Goto
  <2>2. Held(p)' = NoToken /\ HandlerOK(p)'
    BY <2>1 DEF Held, HandlerOK, HeldOK, RespondOK
  <2>3. UNCHANGED <<table, delivered, history, ended>>
    BY <1>4 DEF Login
  <2> HIDE DEF lost
  <2> QED BY <1>2, <1>4, <2>2, <2>3, MoveStep
<1> QED BY <1>3, <1>4 DEF Login

LEMMA SwitchPreserves ==
  ASSUME IInv, NEW p \in Request, NEW u \in User, SwitchTenantContext(p, u)
  PROVE  Keeps(p) /\ IInv'
<1> DEFINE h == [from |-> NoToken, chain |-> NewToken]
<1>1. TypeOK /\ req \in [Request -> Handler] /\ NewToken \in Nat
  BY DEF IInv, TypeOK, NewToken
<1>2. h \in Provenance /\ h.from = NoToken /\ h.chain = NewToken
  BY <1>1 DEF Provenance, NoToken
<1>3. /\ Insert(u, h) /\ req' = req /\ delivered' = delivered /\ ended' = ended
      /\ req[p].pc = "idle"
  BY DEF SwitchTenantContext
<1>4. Held(p)' = NoToken /\ HandlerOK(p)'
  BY <1>3 DEF Held, HandlerOK, HeldOK
<1> HIDE DEF h
<1> QED
  BY <1>1, <1>2, <1>3, <1>4, InsertStep

\* Logout and global logout revoke rows and move no handler.
LEMMA LogoutsPreserve ==
  ASSUME IInv, NEW p \in Request, NEW S \in SUBSET Token, table' = Revoked(S),
         ended' = ended \cup ChainsOf(S), UNCHANGED <<req, delivered, history>>,
         req[p].pc = "idle"
  PROVE  Keeps(p) /\ IInv'
<1>1. /\ Links' /\ Token' = Token
      /\ table' \in Seq(Row) /\ Len(table') = Len(table)
      /\ \A t \in Token : /\ table'[t].user = table[t].user
                          /\ table[t].isRevoked => table'[t].isRevoked
  BY RevokedKeepsLinks
<1>2. ChainsOf(S) \subseteq {Chain(t) : t \in Token}
  BY DEF ChainsOf
<1>3. {Chain(t) : t \in Token} \subseteq Token
  BY DEF IInv, Origins
<1>4. TypeOK'
  BY <1>1, <1>2, <1>3 DEF IInv, TypeOK
<1>5. Keeps(p)
  BY <1>1, <1>2 DEF Keeps
<1>6. Held(p)' = NoToken /\ HandlerOK(p)'
  BY DEF Held, HandlerOK, HeldOK
<1> QED
  BY <1>1, <1>4, <1>5, <1>6, FrameStep

LEMMA RotateReadPreserves ==
  ASSUME IInv, NEW p \in Request, NEW t \in delivered, RotateRead(p, t)
  PROVE  Keeps(p) /\ IInv'
<1>1. TypeOK /\ t \in Token /\ t \in Nat /\ req \in [Request -> Handler]
  BY DEF IInv, TypeOK, Token
<1>2. UNCHANGED <<table, delivered, history, ended>> /\ Token' = Token
  BY DEF RotateRead, Token
<1>3. CASE table[t].isRevoked
  <2> DEFINE h == [pc |-> "walkRead", token |-> t, new |-> NoToken]
  <2>1. h \in Handler /\ Goto(p, h)
    BY <1>1, <1>3 DEF RotateRead, Handler, PC, NoToken
  <2>2. req'[p] = h
    BY <1>1, <2>1 DEF Goto
  <2>3. req'[p].token = t /\ req'[p].pc = "walkRead"
    BY <2>2
  <2> HIDE DEF h
  <2>4. Held(p)' = NoToken /\ HandlerOK(p)'
    BY <1>1, <1>2, <1>3, <2>3 DEF Held, HandlerOK, HeldOK, WalkOK
  <2> QED BY <1>2, <2>1, <2>4, MoveStep
<1>4. CASE ~table[t].isRevoked
  <2> DEFINE h == [pc |-> "create", token |-> t, new |-> NoToken]
  <2>1. h \in Handler /\ Goto(p, h)
    BY <1>1, <1>4 DEF RotateRead, Handler, PC, NoToken
  <2>2. req'[p] = h
    BY <1>1, <2>1 DEF Goto
  <2>3. Held(p)' = NoToken /\ HandlerOK(p)'
    BY <1>2, <2>2 DEF Held, HandlerOK, HeldOK
  <2> HIDE DEF h
  <2> QED BY <1>2, <2>1, <2>3, MoveStep
<1> QED
  BY <1>3, <1>4

\* The row a rotation inserts joins the chain of the token it read, or is lost.
LEMMA RotateCreatePreserves ==
  ASSUME IInv, NEW p \in Request, RotateCreate(p)
  PROVE  Keeps(p) /\ IInv'
<1> DEFINE old == req[p].token
           u == table[old].user
           h == [from |-> old, chain |-> history[old].chain]
           stored == [pc |-> "mark", token |-> old, new |-> NewToken]
           lost == [pc |-> "mark", token |-> old, new |-> NoToken]
<1>0. TypeOK /\ Origins /\ old \in delivered
  BY DEF IInv, HandlerOK, RotateCreate
<1>1. /\ TypeOK /\ Origins /\ req \in [Request -> Handler]
      /\ old \in delivered /\ old \in Token /\ old \in Nat /\ NewToken \in Nat
      /\ delivered \subseteq Token /\ ended \subseteq Token
      /\ UNCHANGED <<delivered, ended>>
  BY <1>0 DEF RotateCreate, TypeOK, Token, NewToken
<1>2. table[old] \in Row /\ history[old] \in Provenance
  BY <1>1 DEF TypeOK, Token
<1>3. h \in Provenance /\ u \in User /\ stored \in Handler /\ lost \in Handler
  BY <1>1, <1>2 DEF Provenance, Row, Handler, PC, NoToken
<1>4. CASE Insert(u, h) /\ Goto(p, stored)
  <2>1. /\ Token' = Token \cup {NewToken} /\ NewToken \notin Token
        /\ \A t \in Token : t < NewToken
        /\ history'[NewToken] = h /\ table'[NewToken].user = u
        /\ \A t \in Token : table'[t] = table[t] /\ history'[t] = history[t]
    BY <1>1, <1>3, <1>4, InsertFacts
  <2>2. /\ req' \in [Request -> Handler] /\ req'[p] = stored
        /\ \A q \in Request \ {p} : req'[q] = req[q]
    BY <1>1, <1>3, <1>4 DEF Goto
  <2>3. Held(p)' = NewToken /\ HeldOK(p)'
    BY <1>1, <2>1, <2>2 DEF Held, HeldOK
  <2>4. \A t \in Token' : history'[t].chain # NewToken
    BY <1>1, <2>1 DEF Origins, Chain
  <2>5. MarkOK(p)'
    BY <1>1, <2>1, <2>2, <2>4 DEF MarkOK, Chain
  <2>6. HandlerOK(p)'
    BY <1>1, <2>2, <2>3, <2>5 DEF HandlerOK
  <2>7. /\ h.from \in Token
        /\ \E s \in Token : h.chain = Chain(s) /\ u = table[s].user
    BY <1>1 DEF Chain
  <2> HIDE DEF h, stored, u
  <2> QED BY <1>1, <1>3, <1>4, <2>2, <2>3, <2>6, <2>7, InsertStep
<1>5. CASE Goto(p, lost) /\ UNCHANGED <<table, history>>
  <2>1. req'[p] = lost
    BY <1>1, <1>5 DEF Goto
  <2>2. Held(p)' = NoToken /\ HandlerOK(p)'
    BY <1>1, <2>1 DEF Held, HandlerOK, HeldOK, MarkOK
  <2> HIDE DEF lost
  <2> QED BY <1>1, <1>3, <1>5, <2>2, MoveStep
<1> QED BY <1>4, <1>5 DEF RotateCreate

\* The old row is revoked and linked to the row p holds.
LEMMA MarkedFacts ==
  ASSUME IInv, NEW p \in Request, req[p].pc = "mark", req[p].new # NoToken,
         table' = [Revoked({req[p].token}) EXCEPT ![req[p].token].replacedById = req[p].new]
  PROVE  /\ table' \in Seq(Row) /\ Len(table') = Len(table) /\ Token' = Token
         /\ table'[req[p].token].isRevoked
         /\ table'[req[p].token].replacedById = req[p].new
         /\ \A t \in Token : /\ table'[t].user = table[t].user
                             /\ table[t].isRevoked => table'[t].isRevoked
                             /\ t # req[p].token => table'[t] = table[t]
<1> DEFINE old == req[p].token
           new == req[p].new
           rows == Revoked({old})
<1>0. TypeOK /\ old \in Token /\ new \in Token
  BY DEF IInv, HandlerOK, HeldOK, Held, TypeOK
<1>1. new \in Nat /\ table \in Seq(Row) /\ Token = 1..Len(table)
  BY <1>0 DEF TypeOK, Token
<1>2. /\ rows \in Seq(Row) /\ Len(rows) = Len(table) /\ DOMAIN rows = Token
      /\ \A t \in Token : /\ rows[t].user = table[t].user
                          /\ t = old => rows[t].isRevoked
                          /\ t # old => rows[t] = table[t]
  BY <1>0, RevokedFacts
<1> HIDE DEF rows
<1> DEFINE row == [rows[old] EXCEPT !.replacedById = new]
<1>3. table' = [rows EXCEPT ![old] = row]
  BY DEF rows
<1>4. rows[old] \in Row
  BY <1>0, <1>1, <1>2
<1>5. /\ row \in Row /\ row.user = rows[old].user
      /\ row.isRevoked = rows[old].isRevoked /\ row.replacedById = new
  BY <1>1, <1>4 DEF Row
<1> HIDE DEF row
<1>6. /\ table' \in Seq(Row) /\ Len(table') = Len(table)
      /\ \A t \in Token : table'[t] = IF t = old THEN row ELSE rows[t]
  <2>1. /\ old \in 1..Len(rows) /\ Token = 1..Len(rows) /\ rows \in Seq(Row) /\ row \in Row
        /\ Len(rows) = Len(table)
    BY <1>0, <1>1, <1>2, <1>5
  <2>2. DOMAIN rows = Token
    BY <1>2
  <2> HIDE DEF old
  <2>3. /\ [rows EXCEPT ![old] = row] \in Seq(Row)
        /\ Len([rows EXCEPT ![old] = row]) = Len(rows)
    BY ONLY <2>1, ExceptSeq
  <2>4. \A t \in Token : table'[t] = IF t = old THEN row ELSE rows[t]
    BY <1>3, <2>2
  <2> QED BY <1>3, <2>1, <2>3, <2>4
<1>7. Token' = Token
  BY <1>1, <1>6 DEF Token
<1>8. /\ table'[old].user = table[old].user
      /\ table'[old].isRevoked
      /\ table'[old].replacedById = new
      /\ \A t \in Token \ {old} : table'[t] = table[t]
  BY <1>0, <1>2, <1>5, <1>6
<1>9. \A t \in Token : table[t].isRevoked => table'[t].isRevoked
  BY <1>8
<1> QED
  BY <1>6, <1>7, <1>8, <1>9

LEMMA MarkStoredPreserves ==
  ASSUME IInv, NEW p \in Request, req[p].pc = "mark", req[p].new # NoToken,
         table' = [Revoked({req[p].token}) EXCEPT ![req[p].token].replacedById = req[p].new],
         Goto(p, [pc |-> "respond", token |-> NoToken, new |-> req[p].new]),
         UNCHANGED <<delivered, history, ended>>
  PROVE  Keeps(p) /\ IInv'
<1> DEFINE old == req[p].token
           new == req[p].new
           h == [pc |-> "respond", token |-> NoToken, new |-> new]
<1>1. /\ TypeOK /\ Links /\ MarkOK(p) /\ Held(p) = new /\ new \in Token
      /\ new \notin delivered /\ old \in delivered /\ old \in Token
      /\ req \in [Request -> Handler]
  BY DEF IInv, HandlerOK, HeldOK, Held, TypeOK
<1>2. /\ table' \in Seq(Row) /\ Len(table') = Len(table) /\ Token' = Token
      /\ table'[old].isRevoked
      /\ table'[old].replacedById = new
      /\ \A t \in Token : /\ table'[t].user = table[t].user
                          /\ table[t].isRevoked => table'[t].isRevoked
                          /\ t # old => table'[t] = table[t]
  BY MarkedFacts
<1>3. h \in Handler
  BY <1>1 DEF Handler, PC, NoToken, Token, TypeOK
<1>4. req'[p] = h /\ \A q \in Request \ {p} : req'[q] = req[q]
  BY <1>1 DEF Goto
<1>5. TypeOK'
  BY <1>1, <1>2, <1>3 DEF TypeOK, Goto
<1>6. Links'
  <2> SUFFICES ASSUME NEW t \in Token, table'[t].replacedById # NoToken
               PROVE  LET n == table'[t].replacedById
                      IN /\ n \in Token /\ t < n
                         /\ table'[n].user = table'[t].user
                         /\ history[n].from = t
                         /\ table'[t].isRevoked
    BY <1>2 DEF Links, NoToken
  <2>1. CASE t = old
    <3>1. /\ old < new /\ history[new].from = old
          /\ table[new].user = table[old].user
      BY <1>1 DEF MarkOK
    <3>2. table'[new].user = table'[old].user
      BY <1>1, <1>2, <3>1
    <3> QED BY <1>1, <1>2, <2>1, <3>1, <3>2
  <2>2. CASE t # old
    <3> DEFINE n == table[t].replacedById
    <3>1. table'[t] = table[t] /\ n # NoToken
      BY <1>2, <2>2
    <3>2. /\ n \in Token /\ t < n /\ table[n].user = table[t].user
          /\ history[n].from = t /\ table[t].isRevoked
      BY <1>1, <3>1 DEF Links
    <3>3. table'[n].user = table[n].user
      BY <1>2, <3>2
    <3> QED BY <3>1, <3>2, <3>3
  <2> QED
    BY <2>1, <2>2
<1>7. Keeps(p)
  BY <1>2, <1>4 DEF Keeps
<1>8. RespondOK(p)'
  BY <1>1, <1>2, <1>4 DEF RespondOK, MarkOK
<1>9. Held(p)' = Held(p) /\ HandlerOK(p)'
  BY <1>1, <1>2, <1>4, <1>8 DEF HandlerOK, HeldOK, Held
<1> QED
  BY <1>5, <1>6, <1>7, <1>9, FrameStep

\* The update is rolled back: the row p holds begins a chain.
LEMMA MarkLostPreserves ==
  ASSUME IInv, NEW p \in Request, req[p].pc = "mark", req[p].new # NoToken,
         history' = [history EXCEPT ![req[p].new].chain = req[p].new],
         Goto(p, [pc |-> "respond", token |-> NoToken, new |-> req[p].new]),
         UNCHANGED <<table, delivered, ended>>
  PROVE  Keeps(p) /\ IInv'
<1> DEFINE new == req[p].new
           h == [pc |-> "respond", token |-> NoToken, new |-> new]
<1>1. /\ TypeOK /\ Links /\ Held(p) = new /\ new \in Token /\ new \notin delivered
      /\ req \in [Request -> Handler] /\ Token' = Token
  BY DEF IInv, HandlerOK, HeldOK, Held, TypeOK, Token
<1>2. /\ history \in Seq(Provenance) /\ Token = 1..Len(history)
      /\ DOMAIN history = Token /\ new \in Nat /\ Len(history) = Len(table)
  BY <1>1 DEF TypeOK, Token
<1>3. history[new] \in Provenance
  BY <1>1, <1>2
<1>4. [history[new] EXCEPT !.chain = new] \in Provenance
  BY <1>2, <1>3 DEF Provenance
<1>5. history' \in Seq(Provenance) /\ Len(history') = Len(history)
  BY <1>1, <1>2, <1>4, ExceptSeq
<1>6. /\ history'[new].from = history[new].from /\ history'[new].chain = new
      /\ \A t \in Token \ {new} : history'[t] = history[t]
  BY <1>1, <1>2, <1>3 DEF Provenance
<1>7. h \in Handler
  BY <1>2 DEF Handler, PC, NoToken
<1>8. req'[p] = h /\ \A q \in Request \ {p} : req'[q] = req[q]
  BY <1>1 DEF Goto
<1>9. TypeOK'
  BY <1>1, <1>2, <1>5, <1>7 DEF TypeOK, Goto
<1>10. \A t \in Token : history'[t].from = history[t].from
  BY <1>1, <1>6
<1>11. Links'
  BY <1>1, <1>10 DEF Links
<1>12. Keeps(p)
  BY <1>1, <1>6, <1>8 DEF Keeps
<1>13. RespondOK(p)'
  BY <1>6, <1>8 DEF RespondOK, Forked, Chain
<1>14. Held(p)' = Held(p) /\ HandlerOK(p)'
  BY <1>1, <1>8, <1>13 DEF HandlerOK, HeldOK, Held
<1> QED
  BY <1>9, <1>11, <1>12, <1>14, FrameStep

\* The handler has nothing more to do.
LEMMA IdleStep ==
  ASSUME IInv, NEW p \in Request, Goto(p, Idle), UNCHANGED <<table, delivered, history, ended>>
  PROVE  Keeps(p) /\ IInv'
<1>1. Idle \in Handler /\ req'[p] = Idle
  BY DEF Idle, Handler, PC, NoToken, Goto, IInv, TypeOK
<1>2. Held(p)' = NoToken /\ HandlerOK(p)'
  BY <1>1 DEF Held, HandlerOK, HeldOK, Idle
<1> QED
  BY <1>1, <1>2, MoveStep

\* The one step that hands a token out.
LEMMA RespondPreserves ==
  ASSUME IInv, NEW p \in Request, Respond(p)
  PROVE  Keeps(p) /\ IInv'
<1>1. /\ TypeOK /\ Links /\ RespondOK(p) /\ Held(p) = req[p].new
      /\ Held(p) # NoToken => Held(p) \in Token
      /\ req \in [Request -> Handler]
  BY DEF IInv, HandlerOK, HeldOK, Held, Respond, TypeOK
<1>2. /\ table' = table /\ history' = history /\ ended' = ended /\ Token' = Token
      /\ delivered' = delivered \cup ({Held(p)} \ {NoToken})
      /\ req' = [req EXCEPT ![p] = Idle]
  BY <1>1 DEF Respond, Goto, Token
<1>3. /\ req'[p] = Idle /\ Idle \in Handler
      /\ \A q \in Request \ {p} : req'[q] = req[q]
  BY <1>1, <1>2 DEF Idle, Handler, PC, NoToken
<1>4. TypeOK'
  BY <1>1, <1>2, <1>3 DEF TypeOK
<1>5. Links'
  BY <1>1, <1>2 DEF Links
<1>6. Keeps(p)
  BY <1>2, <1>3 DEF Keeps
<1>7. Held(p)' = NoToken /\ HandlerOK(p)'
  BY <1>3 DEF Held, HandlerOK, HeldOK, Idle
<1>8. \A t \in delivered' \ delivered :
        history'[t].from # NoToken => table'[history'[t].from].isRevoked \/ Forked(t)'
  BY <1>1, <1>2 DEF RespondOK, Forked, Chain
<1> QED
  BY <1>4, <1>5, <1>6, <1>7, <1>8, FrameStep

LEMMA RotateMarkPreserves ==
  ASSUME IInv, NEW p \in Request, RotateMark(p)
  PROVE  Keeps(p) /\ IInv'
<1>1. /\ req[p].pc = "mark" /\ UNCHANGED <<delivered, ended>>
      /\ \/ /\ req[p].new # NoToken
            /\ table' = [Revoked({req[p].token}) EXCEPT ![req[p].token].replacedById = req[p].new]
            /\ Goto(p, [pc |-> "respond", token |-> NoToken, new |-> req[p].new])
            /\ UNCHANGED history
         \/ /\ req[p].new # NoToken
            /\ history' = [history EXCEPT ![req[p].new].chain = req[p].new]
            /\ Goto(p, [pc |-> "respond", token |-> NoToken, new |-> req[p].new])
            /\ UNCHANGED table
         \/ Goto(p, Idle) /\ UNCHANGED <<table, history>>
  BY DEF RotateMark
<1> QED
  BY <1>1, MarkStoredPreserves, MarkLostPreserves, IdleStep

\* What the walk moves to was already revoked: only a revoked row has a
\* replacement.
LEMMA WalkReadPreserves ==
  ASSUME IInv, NEW p \in Request, WalkRead(p)
  PROVE  /\ Keeps(p) /\ IInv' /\ req'[p].pc = "walkRevoke"
         /\ UNCHANGED <<table, delivered, history, ended>>
<1>0. TypeOK /\ Links /\ WalkOK(p)
  BY DEF IInv, HandlerOK, WalkRead
<1>1. /\ req \in [Request -> Handler]
      /\ req[p].token \in Token /\ req[p].token # NoToken /\ req[p].token \in Nat
      /\ Token = 1..Len(table) /\ Len(table) \in Nat
  BY <1>0 DEF WalkOK, TypeOK, Token, NoToken
<1>2. PICK next : /\ next = NoToken \/ next \in Replacements(req[p].token)
                  /\ Goto(p, [pc |-> "walkRevoke", token |-> req[p].token, new |-> next])
  BY DEF WalkRead
<1> DEFINE h == [pc |-> "walkRevoke", token |-> req[p].token, new |-> next]
<1>3. next # NoToken => next \in Token /\ table[next].isRevoked
  BY <1>0, <1>1, <1>2 DEF Replacements, Links, NoToken
<1>4. next \in Nat
  BY <1>1, <1>3 DEF NoToken
<1>5. h \in Handler
  BY <1>1, <1>4 DEF Handler, PC
<1>6. req'[p] = h /\ UNCHANGED <<table, delivered, history, ended>> /\ Token' = Token
  BY <1>1, <1>2 DEF WalkRead, Goto, Token
<1>7. WalkOK(p)' /\ NextOK(p)'
  BY <1>0, <1>3, <1>6 DEF WalkOK, NextOK
<1>8. Held(p)' = NoToken /\ HandlerOK(p)' /\ req'[p].pc = "walkRevoke"
  BY <1>6, <1>7 DEF Held, HandlerOK, HeldOK
<1>9. Goto(p, h)
  BY <1>2
<1> HIDE DEF h
<1> QED
  BY <1>5, <1>6, <1>8, <1>9, MoveStep

\* The row the walk updates is revoked already.
LEMMA WalkChangesNothing ==
  ASSUME IInv, NEW p \in Request, WalkRevoke(p)
  PROVE  table' = table
<1>1. TypeOK /\ WalkOK(p) /\ table \in Seq(Row)
  BY DEF IInv, HandlerOK, WalkRevoke, TypeOK
<1>2. table' = Revoked({req[p].token}) \/ table' = table
  BY DEF WalkRevoke
<1>3. CASE table' = Revoked({req[p].token})
  <2>1. \A t \in Token : table'[t] = table[t]
    BY <1>1, <1>3, RevokedFacts DEF WalkOK
  <2> QED BY <1>1, <1>3, <2>1, RevokedFacts, SeqEqual DEF Token
<1> QED
  BY <1>2, <1>3

LEMMA WalkRevokePreserves ==
  ASSUME IInv, NEW p \in Request, WalkRevoke(p)
  PROVE  /\ Keeps(p) /\ IInv' /\ req'[p].pc \in {"walkRead", "reused"}
         /\ UNCHANGED <<table, delivered, history, ended>>
<1>1. /\ TypeOK /\ WalkOK(p) /\ NextOK(p) /\ req \in [Request -> Handler]
      /\ UNCHANGED <<table, delivered, history, ended>> /\ Token' = Token
  BY WalkChangesNothing DEF IInv, HandlerOK, WalkRevoke, TypeOK, Token
<1>2. CASE req[p].new = NoToken
  <2> DEFINE h == [req[p] EXCEPT !.pc = "reused"]
  <2>1. h \in Handler /\ h.pc = "reused"
    BY <1>1 DEF Handler, PC
  <2>2. Goto(p, h)
    BY <1>2 DEF WalkRevoke
  <2> HIDE DEF h
  <2>3. req'[p].pc = "reused"
    BY <1>1, <2>1, <2>2 DEF Goto
  <2>4. Held(p)' = NoToken /\ HandlerOK(p)'
    BY <2>3 DEF Held, HandlerOK, HeldOK
  <2> QED
    BY <1>1, <2>1, <2>2, <2>3, <2>4, MoveStep
<1>3. CASE req[p].new # NoToken
  <2> DEFINE h == [pc |-> "walkRead", token |-> req[p].new, new |-> NoToken]
  <2>1. h \in Handler
    BY <1>1 DEF Handler, PC, NoToken
  <2>2. Goto(p, h)
    BY <1>3 DEF WalkRevoke
  <2>3. req'[p].pc = "walkRead" /\ req'[p].token = req[p].new
    BY <1>1, <2>2 DEF Goto
  <2> HIDE DEF h
  <2>4. WalkOK(p)'
    BY <1>1, <1>3, <2>3 DEF WalkOK, NextOK
  <2>5. Held(p)' = NoToken /\ HandlerOK(p)'
    BY <2>3, <2>4 DEF Held, HandlerOK, HeldOK
  <2> QED
    BY <1>1, <2>1, <2>2, <2>3, <2>5, MoveStep
<1> QED
  BY <1>2, <1>3

LEMMA BackToIdlePreserves ==
  ASSUME IInv, NEW p \in Request, AnswerReused(p) \/ Abort(p)
  PROVE  Keeps(p) /\ IInv'
<1> QED
  BY IdleStep DEF AnswerReused, Abort

-----------------------------------------------------------------------------
LEMMA NextPreserves == IInv /\ [Next]_vars => IInv'
<1> SUFFICES ASSUME IInv, [Next]_vars PROVE IInv'
  OBVIOUS
<1>1. ASSUME NEW p \in Request, NEW u \in User, Login(p, u)
      PROVE  IInv'
  BY <1>1, LoginPreserves
<1>2. ASSUME NEW p \in Request, NEW u \in User, SwitchTenantContext(p, u)
      PROVE  IInv'
  BY <1>2, SwitchPreserves
<1>3. ASSUME NEW p \in Request, NEW u \in User, LogoutGlobal(p, u)
      PROVE  IInv'
  <2>1. OwnedBy(u) \in SUBSET Token
    BY DEF OwnedBy
  <2> QED
    BY <1>3, <2>1, LogoutsPreserve DEF LogoutGlobal
<1>4. ASSUME NEW p \in Request, NEW t \in delivered, Logout(p, t)
      PROVE  IInv'
  <2>1. {t} \in SUBSET Token
    BY DEF IInv, TypeOK
  <2> QED
    BY <1>4, <2>1, LogoutsPreserve DEF Logout
<1>5. ASSUME NEW p \in Request, NEW t \in delivered, RotateRead(p, t)
      PROVE  IInv'
  BY <1>5, RotateReadPreserves
<1>6. ASSUME NEW p \in Request, Step(p)
      PROVE  IInv'
  BY <1>6, RotateCreatePreserves, RotateMarkPreserves, RespondPreserves,
     WalkReadPreserves, WalkRevokePreserves, BackToIdlePreserves DEF Step
<1>7. ASSUME NEW p \in Request, Abort(p)
      PROVE  IInv'
  BY <1>7, BackToIdlePreserves
<1>8. CASE UNCHANGED vars
  BY <1>8 DEF vars, IInv, TypeOK, Token, Links, Origins, Chain, HandlerOK, HeldOK, Held,
     MarkOK, RespondOK, Forked, WalkOK, NextOK, Distinct, RotationConsumesItsToken
<1> QED
  BY <1>1, <1>2, <1>3, <1>4, <1>5, <1>6, <1>7, <1>8 DEF Next, Arrive

\* The inductive invariant holds in every reachable state.
THEOREM Invariance == Spec => []IInv
<1> QED
  BY InitIInv, NextPreserves, PTL DEF Spec

\* Type correctness of the refresh-token store and its handlers.
THEOREM TypeCorrect == Spec => []TypeOK
<1>1. IInv => TypeOK
  BY DEF IInv
<1> QED
  BY <1>1, Invariance, PTL

\* replaced_by_id links are chains: what invalidateFamily walks is loop-free
\* and has no branch.
THEOREM ChainsHold == Spec => []ReplacementsFormChains
<1>1. IInv => ReplacementsFormChains
  BY DEF IInv, Links, ReplacementsFormChains, Replacements
<1> QED
  BY <1>1, Invariance, PTL

\* A client that holds a successor of an unrevoked token has it from a rotation
\* whose update was rolled back: rotateToken answers after the update.
THEOREM ConsumedBeforeDelivery == Spec => []RotationConsumesItsToken
<1>1. IInv => RotationConsumesItsToken
  BY DEF IInv
<1> QED
  BY <1>1, Invariance, PTL

\* The walk of a reused token never changes a row.
THEOREM WalkIsInert == Spec => WalkRevokesNothingNew
<1>1. IInv /\ [Next]_vars =>
        [\A p \in Request : WalkRevoke(p) => UNCHANGED table]_vars
  BY WalkChangesNothing
<1> QED
  BY <1>1, Invariance, PTL DEF Spec, WalkRevokesNothingNew

-----------------------------------------------------------------------------
\* Refinement: every step is a step of the ledger or leaves it alone.

Holder == [t \in Token |-> table[t].user]

Usable == {t \in Token : ~table[t].isRevoked}

LEMMA AppendAsFunction ==
  ASSUME NEW R, NEW s \in Seq(R), NEW e \in R
  PROVE  Append(s, e) = [t \in 1..(Len(s) + 1) |-> IF t = Len(s) + 1 THEN e ELSE s[t]]
<1> DEFINE f == [t \in 1..(Len(s) + 1) |-> IF t = Len(s) + 1 THEN e ELSE s[t]]
<1>1. Len(s) \in Nat
  OBVIOUS
<1>2. f \in [1..(Len(s) + 1) -> R]
  BY <1>1
<1>3. f \in Seq(R) /\ Len(f) = Len(s) + 1
  BY <1>1, <1>2
<1>4. /\ Append(s, e) \in Seq(R) /\ Len(Append(s, e)) = Len(s) + 1
      /\ Append(s, e)[Len(s) + 1] = e
      /\ \A t \in 1..Len(s) : Append(s, e)[t] = s[t]
  OBVIOUS
<1>5. \A t \in 1..(Len(s) + 1) : Append(s, e)[t] = f[t]
  BY <1>1, <1>4
<1> QED
  BY <1>3, <1>4, <1>5, SeqEqual

\* An inserted row is an issue.
LEMMA InsertIssues ==
  ASSUME TypeOK, NEW u \in User, NEW h \in Provenance, Insert(u, h)
  PROVE  Ledger!Next
<1>1. /\ table \in Seq(Row) /\ Token = 1..Len(table) /\ Len(table) \in Nat
      /\ NewToken = Len(table) + 1
  BY DEF TypeOK, Token, NewToken
<1>2. /\ NewToken \notin Token
      /\ Token' = Token \cup {NewToken}
      /\ table'[NewToken].user = u
      /\ ~table'[NewToken].isRevoked
      /\ \A t \in Token : table'[t] = table[t]
  BY InsertFacts
<1>3. Holder \in [1..Len(table) -> User]
  <2>1. \A t \in Token : table[t] \in Row
    BY <1>1
  <2> QED
    BY <1>1, <2>1 DEF Holder, Row
<1>4. Holder \in Seq(User) /\ Len(Holder) = Len(table)
  BY <1>1, <1>3
<1>5. Append(Holder, u) =
        [t \in 1..(Len(table) + 1) |-> IF t = NewToken THEN u ELSE Holder[t]]
  BY <1>1, <1>4, AppendAsFunction
<1>6. Holder' = [t \in Token' |-> table'[t].user]
  BY DEF Holder
<1>7. Token' = 1..(Len(table) + 1)
  BY <1>1, <1>2
<1>8. \A t \in Token' : table'[t].user = IF t = NewToken THEN u ELSE Holder[t]
  BY <1>2 DEF Holder
<1>9. Holder' = Append(Holder, u)
  BY <1>5, <1>6, <1>7, <1>8
<1>10. Usable' = Usable \cup {Len(Holder) + 1}
  BY <1>1, <1>2, <1>4 DEF Usable
<1>11. Ledger!Issue(u)
  BY <1>9, <1>10 DEF Ledger!Issue, Holder, Usable
<1> QED
  BY <1>11 DEF Ledger!Next

\* Rows of one user that stop being usable are a retirement.
LEMMA UpdateRetires ==
  ASSUME NEW u \in User, Token' = Token,
         \A t \in Token : table'[t].user = table[t].user,
         Usable' \subseteq Usable,
         \A t \in Usable \ Usable' : table[t].user = u
  PROVE  Ledger!Next
<1>1. Holder' = Holder
  BY DEF Holder
<1>2. PICK S : S = Usable \ Usable'
  OBVIOUS
<1>3. Usable' = Usable \ S /\ S \in SUBSET DOMAIN Holder
  BY <1>2 DEF Usable, Holder
<1>4. \A t \in S : Holder[t] = u
  BY <1>2 DEF Holder, Usable
<1>5. Ledger!Retire(u, S)
  BY <1>1, <1>3, <1>4 DEF Ledger!Retire, Holder, Usable
<1> QED
  BY <1>3, <1>5 DEF Ledger!Next, Holder

\* A row update by revocation retires only rows that are being revoked.
LEMMA RevocationRetires ==
  ASSUME TypeOK, NEW u \in User, NEW S \in SUBSET OwnedBy(u), table' = Revoked(S)
  PROVE  Ledger!Next
<1>1. Token' = Token
  BY RevokedFacts DEF Token
<1>2. \A t \in Token : /\ table'[t].user = table[t].user
                       /\ table[t].isRevoked => table'[t].isRevoked
                       /\ t \notin S => table'[t] = table[t]
  <2>1. \A t \in Token : table[t].isRevoked => table'[t] = table[t]
    BY RevokedFacts
  <2> QED
    BY <2>1, RevokedFacts
<1>3. Usable' \subseteq Usable
  BY <1>1, <1>2 DEF Usable
<1>4. \A t \in Usable \ Usable' : t \in S
  BY <1>1, <1>2 DEF Usable
<1> QED
  BY <1>1, <1>2, <1>3, <1>4, UpdateRetires DEF OwnedBy

\* A row update that changes neither users nor usability is a stutter.
LEMMA UnchangedTableStutters ==
  ASSUME table' = table
  PROVE  UNCHANGED Ledger!ledgerVars
<1>1. Token' = Token
  BY DEF Token
<1> QED
  BY <1>1 DEF Ledger!ledgerVars

LEMMA NextRefines == IInv /\ [Next]_vars => [Ledger!Next]_(Ledger!ledgerVars)
<1> SUFFICES ASSUME IInv, [Next]_vars, table' # table PROVE Ledger!Next
  BY UnchangedTableStutters
<1>0. /\ TypeOK /\ table \in Seq(Row) /\ Token = 1..Len(table)
      /\ \A t \in Token : table[t] \in Row
      /\ delivered \subseteq Token
  BY DEF IInv, TypeOK, Token
<1>1. ASSUME NEW p \in Request, NEW u \in User,
             Login(p, u) \/ SwitchTenantContext(p, u)
      PROVE  Ledger!Next
  <2> DEFINE h == [from |-> NoToken, chain |-> NewToken]
  <2>1. h \in Provenance
    BY <1>0 DEF Provenance, NoToken, NewToken
  <2>2. Insert(u, h)
    BY <1>1 DEF Login, SwitchTenantContext
  <2> QED
    BY <1>0, <2>1, <2>2, InsertIssues
<1>2. ASSUME NEW p \in Request, NEW u \in User, LogoutGlobal(p, u)
      PROVE  Ledger!Next
  BY <1>0, <1>2, RevocationRetires DEF LogoutGlobal
<1>3. ASSUME NEW p \in Request, NEW t \in delivered, Logout(p, t)
      PROVE  Ledger!Next
  <2>1. table[t].user \in User /\ {t} \in SUBSET OwnedBy(table[t].user)
    BY <1>0 DEF OwnedBy, Row
  <2> QED
    BY <1>0, <1>3, <2>1, RevocationRetires DEF Logout
<1>4. ASSUME NEW p \in Request, RotateCreate(p)
      PROVE  Ledger!Next
  <2> DEFINE old == req[p].token
             h == [from |-> old, chain |-> history[old].chain]
  <2>1. old \in Token /\ old \in Nat
    <3>1. old \in delivered
      BY <1>4 DEF IInv, HandlerOK, RotateCreate
    <3>2. old \in Token
      BY <1>0, <3>1
    <3> QED
      BY <1>0, <3>2
  <2>2. h \in Provenance /\ table[old].user \in User
    <3>1. table[old] \in Row /\ history[old] \in Provenance
      BY <1>0, <2>1 DEF TypeOK, Token
    <3> QED
      BY <2>1, <3>1 DEF Provenance, Row
  <2>3. Insert(table[old].user, h)
    BY <1>4 DEF RotateCreate
  <2> QED
    BY <1>0, <2>2, <2>3, InsertIssues
<1>5. ASSUME NEW p \in Request, RotateMark(p)
      PROVE  Ledger!Next
  <2> DEFINE old == req[p].token
  <2>1. old \in Token /\ table[old].user \in User
    <3>1. old \in delivered
      BY <1>5 DEF IInv, HandlerOK, RotateMark
    <3> QED
      BY <1>0, <3>1 DEF Row
  <2>2. /\ req[p].pc = "mark" /\ req[p].new # NoToken
        /\ table' = [Revoked({req[p].token}) EXCEPT ![req[p].token].replacedById = req[p].new]
    BY <1>5 DEF RotateMark
  <2>3. /\ Token' = Token
        /\ \A t \in Token : /\ table'[t].user = table[t].user
                            /\ table[t].isRevoked => table'[t].isRevoked
                            /\ t # old => table'[t] = table[t]
    BY <2>2, MarkedFacts
  <2>4. Usable' \subseteq Usable /\ \A t \in Usable \ Usable' : t = old
    BY <2>3 DEF Usable
  <2> QED
    BY <2>1, <2>3, <2>4, UpdateRetires
<1>6. ASSUME NEW p \in Request, WalkRevoke(p)
      PROVE  Ledger!Next
  BY <1>6, WalkChangesNothing
<1> QED
  BY <1>1, <1>2, <1>3, <1>4, <1>5, <1>6
     DEF Next, Arrive, Step, Abort, Respond, WalkRead, AnswerReused, RotateRead, vars

\* The token store implements the ledger: tokens are issued once, retired for
\* good, and a step retires the tokens of one user only.
THEOREM Refinement == Spec => ImplementsLedger
<1>1. Init => Ledger!Init
  <2> SUFFICES ASSUME Init PROVE Ledger!Init
    OBVIOUS
  <2>1. Token = {}
    BY DEF Init, Token
  <2> QED
    BY <2>1 DEF Ledger!Init
<1> QED
  BY <1>1, NextRefines, Invariance, PTL DEF Spec, ImplementsLedger, Ledger!Spec

-----------------------------------------------------------------------------
\* Chains that are not contended.  The invariant says what the one request that
\* rotates a chain knows: that the token it rotates is unrevoked, and, once that
\* is revoked, that clients hold nothing usable of the chain, which no logout
\* has ended.

Spent(c) == \A t \in delivered : Chain(t) = c => table[t].isRevoked

\* Slot p rotates an unrevoked token of chain c.
Rotating(p, c) == /\ req[p].pc \in {"create", "mark"} /\ Chain(req[p].token) = c
                     => ~table[req[p].token].isRevoked

\* Slot p is about to hand out the next token of chain c.
Renewing(p, c) == /\ req[p].pc = "respond" /\ req[p].new # NoToken /\ Chain(req[p].new) = c
                     => Spent(c) /\ c \notin ended

ChainOK(c) ==
  /\ \A p, q \in Request : Rotates(p, c) /\ Rotates(q, c) => p = q
  /\ \A p \in Request : Rotating(p, c) /\ Renewing(p, c)
  /\ \A s, t \in delivered : /\ Chain(s) = c /\ Chain(t) = c
                             /\ ~table[s].isRevoked /\ ~table[t].isRevoked
                             => s = t
  /\ c \in ended => Spent(c)

SInv == IInv /\ \A c \in Token \ contended : ChainOK(c)

\* A step of slot p does its part for chain c: it keeps what p knows of it, hands
\* a token of it out only if the others are spent, and ends it only by revoking
\* what clients hold of it.
Tends(p, c) ==
  /\ Rotating(p, c)' /\ Renewing(p, c)'
  /\ \A t \in delivered' \ delivered :
       history'[t].chain = c => Rotates(p, c) /\ Spent(c) /\ c \notin ended
  /\ c \in ended' \ ended =>
       /\ Spent(c)'
       /\ \E t \in Token : /\ Chain(t) = c
                           /\ ~table[t].isRevoked /\ table'[t].isRevoked

Careful(p) == /\ Keeps(p)
              /\ Token' = Token \/ UNCHANGED <<delivered, ended>>
              /\ \A c \in Token : ChainOK(c) => Tends(p, c)

\* A chain that is not contended by the step stays as it should be.
LEMMA ChainStep ==
  ASSUME IInv, NEW p \in Request, Careful(p), NEW c \in Token, ChainOK(c), ~Contends(c)
  PROVE  ChainOK(c)'
<1>1. /\ Keeps(p) /\ Tends(p, c) /\ delivered \subseteq Token
      /\ \A q \in Request \ {p} : req'[q] = req[q]
  BY DEF Careful, Keeps, IInv, TypeOK
<1>2. \A t \in delivered : history'[t].chain = history[t].chain
  BY <1>1 DEF Keeps
<1>3. \A t \in Token : table[t].isRevoked => table'[t].isRevoked
  BY <1>1 DEF Keeps
<1>4. \A q, r \in Request : Rotates(q, c)' /\ Rotates(r, c)' => q = r
  BY DEF Contends
<1>5. \A t \in delivered' \ delivered :
        history'[t].chain = c => Rotates(p, c) /\ Spent(c) /\ c \notin ended /\ t = Held(p)
  BY <1>1 DEF Tends, Keeps
<1>6. ASSUME NEW q \in Request, q # p, Rotates(q, c)'
      PROVE  /\ Rotates(q, c)
             /\ \A t \in Token : Chain(t) = c /\ table'[t].isRevoked => table[t].isRevoked
  <2>1. req'[q] = req[q] /\ HandlerOK(q) /\ (Held(q) # NoToken => Held(q) # Held(p))
    BY <1>1, <1>6 DEF IInv, Distinct
  <2>2. Rotates(q, c)
    <3>1. CASE req[q].pc \in {"create", "mark"} /\ history'[req[q].token].chain = c
      BY <1>2, <2>1, <3>1 DEF HandlerOK, Rotates, Chain
    <3>2. CASE req[q].pc = "respond" /\ req[q].new # NoToken /\ history'[req[q].new].chain = c
      <4>1. Held(q) = req[q].new /\ Held(q) \in Token
        BY <2>1, <3>2 DEF HandlerOK, HeldOK, Held
      <4>2. history'[Held(q)].chain = history[Held(q)].chain
        BY <1>1, <2>1, <3>2, <4>1 DEF Keeps
      <4> QED BY <3>2, <4>1, <4>2 DEF Rotates, Chain
    <3> QED BY <1>6, <2>1, <3>1, <3>2 DEF Rotates, Chain
  <2>3. ~\E t \in Token : Chain(t) = c /\ table'[t].isRevoked # table[t].isRevoked
    BY <2>1, <2>2 DEF Contends
  <2>4. \A t \in Token : Chain(t) = c /\ table'[t].isRevoked => table[t].isRevoked
    <3> SUFFICES ASSUME NEW t \in Token, Chain(t) = c, table'[t].isRevoked, ~table[t].isRevoked
                 PROVE  FALSE
      OBVIOUS
    <3>1. table'[t].isRevoked = table[t].isRevoked
      BY <2>3
    <3> QED BY <3>1
  <2> QED BY <2>2, <2>4
<1>7. ASSUME NEW q \in Request, q # p
      PROVE  Rotating(q, c)' /\ Renewing(q, c)'
  <2>1. req'[q] = req[q] /\ HandlerOK(q) /\ Rotating(q, c) /\ Renewing(q, c)
    BY <1>1, <1>7 DEF IInv, ChainOK
  <2>2. ASSUME req[q].pc \in {"create", "mark"}, history'[req[q].token].chain = c
        PROVE  ~table'[req[q].token].isRevoked
    <3>1. Rotates(q, c)'
      BY <2>1, <2>2 DEF Rotates, Chain
    <3>2. req[q].token \in Token /\ Chain(req[q].token) = c
      BY <1>1, <1>2, <2>1, <2>2 DEF HandlerOK, Chain
    <3> QED BY <1>6, <1>7, <2>1, <2>2, <3>1, <3>2 DEF Rotating
  <2>3. ASSUME req[q].pc = "respond", req[q].new # NoToken, history'[req[q].new].chain = c
        PROVE  Spent(c)' /\ c \notin ended'
    <3>1. Rotates(q, c)'
      BY <2>1, <2>3 DEF Rotates, Chain
    <3>2. /\ Rotates(q, c) /\ Chain(req[q].new) = c
          /\ \A t \in Token : Chain(t) = c /\ table'[t].isRevoked => table[t].isRevoked
      BY <1>6, <1>7, <2>3, <3>1 DEF Rotates
    <3>3. ~Rotates(p, c)
      BY <1>7, <3>2 DEF ChainOK
    <3>4. Spent(c) /\ c \notin ended
      BY <2>1, <2>3, <3>2 DEF Renewing
    <3>5. \A t \in delivered' : history'[t].chain = c => t \in delivered
      BY <1>5, <3>3
    <3>6. Spent(c)'
      BY <1>1, <1>2, <1>3, <3>4, <3>5 DEF Spent, Chain
    <3>7. c \notin ended'
      BY <1>1, <3>2, <3>4 DEF Tends
    <3> QED BY <3>6, <3>7
  <2> QED BY <2>1, <2>2, <2>3 DEF Rotating, Renewing, Chain
<1>8. ASSUME NEW s \in delivered', NEW t \in delivered',
             history'[s].chain = c, history'[t].chain = c,
             ~table'[s].isRevoked, ~table'[t].isRevoked
      PROVE  s = t
  <2>1. CASE s \in delivered /\ t \in delivered
    <3>1. /\ Chain(s) = c /\ Chain(t) = c /\ ~table[s].isRevoked /\ ~table[t].isRevoked
      BY <1>1, <1>2, <1>3, <1>8, <2>1 DEF Chain
    <3> QED BY <2>1, <3>1 DEF ChainOK
  <2>2. CASE s \notin delivered \/ t \notin delivered
    <3>1. Spent(c)
      BY <1>5, <1>8, <2>2
    <3>2. \A x \in delivered : history'[x].chain = c => table'[x].isRevoked
      BY <1>1, <1>2, <1>3, <3>1 DEF Spent, Chain
    <3>3. s \notin delivered /\ t \notin delivered
      BY <1>8, <3>2
    <3> QED BY <1>5, <1>8, <3>3
  <2> QED BY <2>1, <2>2
<1>9. ASSUME c \in ended' PROVE Spent(c)'
  <2>1. CASE c \in ended
    <3>1. Spent(c)
      BY <2>1 DEF ChainOK
    <3>2. \A t \in delivered' : history'[t].chain = c => t \in delivered
      BY <1>5, <2>1
    <3> QED BY <1>1, <1>2, <1>3, <3>1, <3>2 DEF Spent, Chain
  <2>2. CASE c \notin ended
    BY <1>1, <1>9, <2>2 DEF Tends
  <2> QED BY <2>1, <2>2
<1>10. Rotating(p, c)' /\ Renewing(p, c)'
  BY <1>1 DEF Tends
<1>11. \A q \in Request : Rotating(q, c)' /\ Renewing(q, c)'
  BY <1>7, <1>10
<1> QED
  BY <1>4, <1>8, <1>9, <1>11 DEF ChainOK, Chain

\* A chain begins with nothing handed out and no logout behind it.
LEMMA FreshChain ==
  ASSUME IInv, IInv', NEW p \in Request, Careful(p), NEW c \in Token', c \notin Token
  PROVE  ChainOK(c)'
<1>1. /\ UNCHANGED <<delivered, ended>> /\ Keeps(p)
      /\ delivered \subseteq Token /\ ended \subseteq Token /\ Origins
  BY DEF Careful, IInv, TypeOK
<1>2. \A t \in delivered : history'[t].chain = history[t].chain /\ Chain(t) \in Token
  BY <1>1 DEF Keeps, Origins
<1>3. \A t \in delivered : history'[t].chain # c
  BY <1>2 DEF Chain
<1>4. ASSUME NEW q \in Request, Rotates(q, c)' PROVE q = p
  <2> SUFFICES ASSUME q # p PROVE FALSE
    OBVIOUS
  <2>1. /\ HandlerOK(q) /\ req'[q] = req[q]
        /\ Held(q) # NoToken => Held(q) # Held(p)
    BY <1>1 DEF IInv, Keeps, Distinct
  <2>2. ~(req[q].pc \in {"create", "mark"} /\ history'[req[q].token].chain = c)
    BY <1>3, <2>1 DEF HandlerOK
  <2>3. /\ req[q].pc = "respond" /\ req[q].new # NoToken
        /\ history'[req[q].new].chain = c
    BY <1>4, <2>1, <2>2 DEF Rotates, Chain
  <2>4. Held(q) = req[q].new /\ Held(q) \in Token /\ Held(q) # Held(p)
    BY <2>1, <2>3 DEF HandlerOK, HeldOK, Held
  <2>5. history'[Held(q)].chain = Chain(Held(q)) /\ Chain(Held(q)) \in Token
    BY <1>1, <2>4 DEF Keeps, Origins, Chain
  <2> QED BY <2>3, <2>4, <2>5
<1>5. Spent(c)' /\ c \notin ended'
  BY <1>1, <1>3 DEF Spent, Chain
<1>6. \A q \in Request : Rotating(q, c)' /\ Renewing(q, c)'
  <2>1. ASSUME NEW q \in Request PROVE Rotating(q, c)'
    <3>1. HandlerOK(q)'
      BY DEF IInv
    <3>2. req'[q].pc \in {"create", "mark"} => req'[q].token \in delivered
      BY <1>1, <3>1 DEF HandlerOK
    <3> QED BY <1>3, <3>2 DEF Rotating, Chain
  <2>2. ASSUME NEW q \in Request PROVE Renewing(q, c)'
    BY <1>5 DEF Renewing
  <2> QED BY <2>1, <2>2
<1>7. \A s, t \in delivered' : /\ Chain(s)' = c /\ Chain(t)' = c => s = t
  BY <1>1, <1>3 DEF Chain
<1> QED
  BY <1>1, <1>3, <1>4, <1>5, <1>6 DEF ChainOK, Chain

-----------------------------------------------------------------------------
\* One lemma per action that concerns chains.

\* A step after which p rotates nothing, and that hands out and ends nothing.
LEMMA PlainStep ==
  ASSUME NEW p \in Request, Keeps(p), UNCHANGED <<delivered, ended>>,
         req'[p].pc \notin {"create", "mark", "respond"}
  PROVE  Careful(p)
<1>1. \A c \in Token : Rotating(p, c)' /\ Renewing(p, c)'
  BY DEF Rotating, Renewing
<1>2. \A c \in Token : Tends(p, c)
  BY <1>1 DEF Tends
<1> QED
  BY <1>2 DEF Careful

\* The row a login inserts is of no earlier chain.
LEMMA LoginCareful ==
  ASSUME IInv, NEW p \in Request, NEW u \in User, Login(p, u)
  PROVE  Careful(p)
<1>1. Keeps(p) /\ UNCHANGED <<delivered, ended>> /\ TypeOK /\ req \in [Request -> Handler]
  BY LoginPreserves DEF Login, IInv, TypeOK
<1>2. /\ req'[p].pc = "respond"
      /\ req'[p].new # NoToken =>
           /\ Insert(u, [from |-> NoToken, chain |-> NewToken])
           /\ req'[p].new = NewToken
  BY <1>1 DEF Login, Goto
<1>3. ASSUME NEW c \in Token, req'[p].new # NoToken PROVE history'[req'[p].new].chain # c
  <2> DEFINE h == [from |-> NoToken, chain |-> NewToken]
  <2>1. h \in Provenance /\ h.chain = NewToken
    BY <1>1 DEF Provenance, NoToken, NewToken, TypeOK
  <2>2. Insert(u, h) /\ req'[p].new = NewToken
    BY <1>2, <1>3
  <2> HIDE DEF h
  <2>3. history'[NewToken] = h /\ NewToken \notin Token
    BY <1>1, <2>1, <2>2, InsertFacts
  <2> QED BY <2>1, <2>2, <2>3
<1>4. \A c \in Token : Rotating(p, c)' /\ Renewing(p, c)'
  BY <1>2, <1>3 DEF Rotating, Renewing, Chain
<1> QED
  BY <1>1, <1>4 DEF Careful, Tends

\* What clients hold of a chain is one user's, and at most one of it is usable.
LEMMA LogoutsCareful ==
  ASSUME IInv, NEW p \in Request, NEW S \in SUBSET Token, table' = Revoked(S),
         ended' = ended \cup ChainsOf(S), UNCHANGED <<req, delivered, history>>,
         req[p].pc = "idle", (\E u : S = OwnedBy(u)) \/ \E t \in delivered : S = {t}
  PROVE  Careful(p)
<1>1. Keeps(p)
  BY LogoutsPreserve
<1>2. /\ Token' = Token /\ delivered \subseteq Token /\ Origins
      /\ \A t \in Token : /\ table[t].isRevoked => table'[t].isRevoked
                          /\ t \in S => table'[t].isRevoked
  BY RevokedKeepsLinks DEF IInv, TypeOK
<1>3. ASSUME NEW c \in Token, ChainOK(c), c \in ended', c \notin ended
      PROVE  /\ Spent(c)'
             /\ \E t \in Token : /\ Chain(t) = c
                                 /\ ~table[t].isRevoked /\ table'[t].isRevoked
  <2>1. PICK t \in S \cap delivered : ~table[t].isRevoked /\ Chain(t) = c
    BY <1>3 DEF ChainsOf
  <2>2. ASSUME NEW s \in delivered, Chain(s) = c PROVE table'[s].isRevoked
    <3>1. CASE S = {t}
      <4>1. ~table[s].isRevoked => s = t
        BY <1>3, <2>1, <2>2 DEF ChainOK
      <4> QED BY <1>2, <2>1, <4>1
    <3>2. ASSUME NEW u, S = OwnedBy(u) PROVE table'[s].isRevoked
      <4>1. s \in Token /\ table[s].user = table[t].user
        BY <1>2, <2>1, <2>2 DEF Origins
      <4>2. s \in S
        BY <2>1, <3>2, <4>1 DEF OwnedBy
      <4> QED BY <1>2, <4>1, <4>2
    <3> QED BY <2>1, <3>1, <3>2
  <2>3. Spent(c)'
    BY <2>2 DEF Spent, Chain
  <2> QED BY <1>2, <2>1, <2>3
<1>4. \A c \in Token : Rotating(p, c)' /\ Renewing(p, c)'
  BY DEF Rotating, Renewing
<1>5. \A c \in Token : ChainOK(c) => Tends(p, c)
  BY <1>3, <1>4 DEF Tends
<1> QED
  BY <1>1, <1>2, <1>5 DEF Careful

LEMMA RotateReadCareful ==
  ASSUME IInv, NEW p \in Request, NEW t \in delivered, RotateRead(p, t)
  PROVE  Careful(p)
<1>1. /\ Keeps(p) /\ UNCHANGED <<table, delivered, history, ended>>
      /\ req \in [Request -> Handler]
  BY RotateReadPreserves DEF RotateRead, IInv, TypeOK
<1>2. \/ req'[p].pc = "walkRead"
      \/ req'[p].pc = "create" /\ req'[p].token = t /\ ~table[t].isRevoked
  BY <1>1 DEF RotateRead, Goto
<1>3. \A c \in Token : Rotating(p, c)' /\ Renewing(p, c)'
  BY <1>1, <1>2 DEF Rotating, Renewing
<1> QED
  BY <1>1, <1>3 DEF Careful, Tends

LEMMA RotateCreateCareful ==
  ASSUME IInv, NEW p \in Request, RotateCreate(p)
  PROVE  Careful(p)
<1> DEFINE old == req[p].token
<1>0. TypeOK /\ old \in delivered
  BY DEF IInv, HandlerOK, RotateCreate
<1>1. /\ Keeps(p) /\ UNCHANGED <<delivered, ended>> /\ TypeOK /\ old \in Token
      /\ req \in [Request -> Handler]
  BY <1>0, RotateCreatePreserves DEF RotateCreate, TypeOK
<1>2. req[p].pc = "create" /\ req'[p].pc = "mark" /\ req'[p].token = old
  BY <1>1 DEF RotateCreate, Goto
<1>3. table'[old] = table[old] /\ history'[old].chain = history[old].chain
  <2>1. CASE UNCHANGED <<table, history>>
    BY <2>1
  <2>2. ASSUME NEW h, Insert(table[old].user, h)
        PROVE  table'[old] = table[old]
    <3>1. /\ table \in Seq(Row) /\ old \in 1..Len(table)
          /\ [user |-> table[old].user, isRevoked |-> FALSE, replacedById |-> NoToken] \in Row
      <4>1. table \in Seq(Row) /\ old \in 1..Len(table)
        BY <1>1 DEF TypeOK, Token
      <4>2. table[old] \in Row
        BY <4>1
      <4> QED BY <4>1, <4>2 DEF Row, NoToken
    <3> QED BY <2>2, <3>1 DEF Insert
  <2>3. history'[old].chain = history[old].chain
    BY <1>0, <1>1 DEF Keeps
  <2> QED BY <2>1, <2>2, <2>3 DEF RotateCreate
<1>4. ASSUME NEW c \in Token, ChainOK(c) PROVE Rotating(p, c)' /\ Renewing(p, c)'
  <2>1. Rotating(p, c)
    BY <1>4 DEF ChainOK
  <2> QED BY <1>2, <1>3, <2>1 DEF Rotating, Renewing, Chain
<1> QED
  BY <1>1, <1>4 DEF Careful, Tends

\* The token it rotates was the only usable one, unless the update is lost: then
\* its successor begins a chain that clients hold nothing of.
LEMMA RotateMarkCareful ==
  ASSUME IInv, NEW p \in Request, RotateMark(p)
  PROVE  Careful(p)
<1> DEFINE old == req[p].token
           new == req[p].new
<1>1. /\ Keeps(p) /\ UNCHANGED <<delivered, ended>> /\ old \in delivered
      /\ delivered \subseteq Token /\ req \in [Request -> Handler]
      /\ req[p].pc = "mark" /\ MarkOK(p) /\ HeldOK(p)
  BY RotateMarkPreserves DEF RotateMark, IInv, HandlerOK, TypeOK
<1>2. \A t \in delivered : /\ history'[t].chain = history[t].chain
                           /\ table[t].isRevoked => table'[t].isRevoked
  BY <1>1 DEF Keeps
<1>3. CASE new = NoToken
  <2>1. req'[p].pc = "idle"
    BY <1>1, <1>3 DEF RotateMark, Goto, Idle
  <2> QED BY <1>1, <2>1, PlainStep
<1>4. ASSUME new # NoToken, NEW c \in Token, ChainOK(c)
      PROVE  Tends(p, c)
  <2>1. req'[p].pc = "respond" /\ req'[p].new = new
    BY <1>1, <1>4 DEF RotateMark, Goto
  <2>2. CASE /\ table' = [Revoked({old}) EXCEPT ![old].replacedById = new]
             /\ UNCHANGED history
    <3>1. table'[old].isRevoked
      BY <1>1, <1>4, <2>2, MarkedFacts
    <3>2. ASSUME history'[new].chain = c PROVE Spent(c)' /\ c \notin ended'
      <4>1. Chain(old) = c
        BY <1>1, <1>4, <2>2, <3>2 DEF MarkOK, Chain
      <4>2. ~table[old].isRevoked
        BY <1>1, <1>4, <4>1 DEF ChainOK, Rotating
      <4>3. \A t \in delivered : Chain(t) = c => t = old \/ table[t].isRevoked
        BY <1>1, <1>4, <4>1, <4>2 DEF ChainOK
      <4>4. Spent(c)'
        BY <1>1, <1>2, <3>1, <4>3 DEF Spent, Chain
      <4>5. c \notin ended
        BY <1>1, <1>4, <4>1, <4>2 DEF ChainOK, Spent
      <4> QED BY <1>1, <4>4, <4>5
    <3>3. Rotating(p, c)' /\ Renewing(p, c)'
      BY <2>1, <3>2 DEF Rotating, Renewing, Chain
    <3> QED BY <1>1, <3>3 DEF Tends
  <2>3. CASE history' = [history EXCEPT ![new].chain = new] /\ UNCHANGED table
    <3>1. history'[new].chain = new
      <4>1. new \in DOMAIN history /\ history[new] \in Provenance
        <5>1. new \in Token /\ TypeOK
          BY <1>1, <1>4 DEF HeldOK, Held, IInv
        <5> QED BY <5>1 DEF TypeOK, Token
      <4> QED BY <2>3, <4>1 DEF Provenance
    <3>2. \A t \in delivered : history'[t].chain # new
      BY <1>1, <1>2, <1>4 DEF MarkOK, Chain
    <3>3. new \notin ended
      BY <1>1, <1>4 DEF MarkOK
    <3>4. ASSUME history'[new].chain = c PROVE Spent(c)' /\ c \notin ended'
      BY <1>1, <3>1, <3>2, <3>3, <3>4 DEF Spent, Chain
    <3>5. Rotating(p, c)' /\ Renewing(p, c)'
      BY <2>1, <3>4 DEF Rotating, Renewing, Chain
    <3> QED BY <1>1, <3>5 DEF Tends
  <2> QED BY <1>4, <2>2, <2>3 DEF RotateMark
<1> QED
  BY <1>1, <1>3, <1>4 DEF Careful

LEMMA RespondCareful ==
  ASSUME IInv, NEW p \in Request, Respond(p)
  PROVE  Careful(p)
<1>1. /\ Keeps(p) /\ req \in [Request -> Handler] /\ req[p].pc = "respond"
      /\ delivered' = delivered \cup ({req[p].new} \ {NoToken})
      /\ UNCHANGED <<table, history, ended>> /\ Token' = Token
  BY RespondPreserves DEF Respond, IInv, TypeOK, Token
<1>2. req'[p].pc = "idle"
  BY <1>1 DEF Respond, Goto, Idle
<1>3. ASSUME NEW c \in Token, ChainOK(c) PROVE Tends(p, c)
  <2>1. Rotating(p, c)' /\ Renewing(p, c)'
    BY <1>2 DEF Rotating, Renewing
  <2>2. ASSUME NEW t \in delivered', t \notin delivered, history'[t].chain = c
        PROVE  Rotates(p, c) /\ Spent(c) /\ c \notin ended
    <3>1. t = req[p].new /\ t # NoToken /\ Chain(t) = c
      BY <1>1, <2>2 DEF Chain
    <3>2. Renewing(p, c)
      BY <1>3 DEF ChainOK
    <3> QED BY <1>1, <3>1, <3>2 DEF Renewing, Rotates
  <2> QED BY <1>1, <2>1, <2>2 DEF Tends
<1> QED
  BY <1>1, <1>3 DEF Careful

LEMMA NextCareful ==
  ASSUME IInv, Next
  PROVE  \E p \in Request : Careful(p)
<1>0. delivered \subseteq Token /\ req \in [Request -> Handler]
  BY DEF IInv, TypeOK
<1>1. ASSUME NEW p \in Request, NEW u \in User, Login(p, u)
      PROVE  Careful(p)
  BY <1>1, LoginCareful
<1>2. ASSUME NEW p \in Request, NEW u \in User, SwitchTenantContext(p, u)
      PROVE  Careful(p)
  <2>1. Keeps(p)
    BY <1>2, SwitchPreserves
  <2>2. UNCHANGED <<delivered, ended>> /\ req'[p].pc = "idle"
    BY <1>2 DEF SwitchTenantContext
  <2> QED BY <2>1, <2>2, PlainStep
<1>3. ASSUME NEW p \in Request, NEW u \in User, LogoutGlobal(p, u)
      PROVE  Careful(p)
  <2>1. OwnedBy(u) \in SUBSET Token
    BY DEF OwnedBy
  <2> QED BY <1>3, <2>1, LogoutsCareful DEF LogoutGlobal
<1>4. ASSUME NEW p \in Request, NEW t \in delivered, Logout(p, t)
      PROVE  Careful(p)
  <2>1. {t} \in SUBSET Token
    BY <1>0
  <2> QED BY <1>4, <2>1, LogoutsCareful DEF Logout
<1>5. ASSUME NEW p \in Request, NEW t \in delivered, RotateRead(p, t)
      PROVE  Careful(p)
  BY <1>5, RotateReadCareful
<1>6. ASSUME NEW p \in Request, WalkRead(p) \/ WalkRevoke(p)
      PROVE  Careful(p)
  BY <1>6, WalkReadPreserves, WalkRevokePreserves, PlainStep
<1>7. ASSUME NEW p \in Request, AnswerReused(p) \/ Abort(p)
      PROVE  Careful(p)
  <2>1. Keeps(p)
    BY <1>7, BackToIdlePreserves
  <2>2. UNCHANGED <<delivered, ended>> /\ req'[p].pc = "idle"
    BY <1>0, <1>7 DEF AnswerReused, Abort, Goto, Idle
  <2> QED BY <2>1, <2>2, PlainStep
<1>8. ASSUME NEW p \in Request, RotateCreate(p) \/ RotateMark(p) \/ Respond(p)
      PROVE  Careful(p)
  BY <1>8, RotateCreateCareful, RotateMarkCareful, RespondCareful
<1> QED
  BY <1>1, <1>2, <1>3, <1>4, <1>5, <1>6, <1>7, <1>8 DEF Next, Arrive, Step

LEMMA WatchedKeeps == SInv /\ [WatchedNext]_all => SInv'
<1> SUFFICES ASSUME SInv, [WatchedNext]_all PROVE SInv'
  OBVIOUS
<1>1. IInv /\ IInv'
  <2>1. [Next]_vars
    BY DEF WatchedNext, all, vars
  <2> QED BY <2>1, NextPreserves DEF SInv
<1>2. CASE WatchedNext
  <2>1. PICK p \in Request : Careful(p)
    BY <1>1, <1>2, NextCareful DEF WatchedNext
  <2>2. ASSUME NEW c \in Token', c \notin contended' PROVE ChainOK(c)'
    <3>1. CASE c \notin Token
      BY <1>1, <2>1, <2>2, <3>1, FreshChain
    <3>2. CASE c \in Token
      <4>1. c \notin contended /\ ~Contends(c)
        BY <1>2, <2>2, <3>2 DEF WatchedNext
      <4>2. ChainOK(c)
        BY <3>2, <4>1 DEF SInv
      <4> QED BY <1>1, <2>1, <3>2, <4>1, <4>2, ChainStep
    <3> QED BY <3>1, <3>2
  <2> QED BY <1>1, <2>2 DEF SInv
<1>3. CASE UNCHANGED all
  <2>1. Token' = Token
    BY <1>3 DEF all, Token
  <2>2. \A c : ChainOK(c) => ChainOK(c)'
    BY <1>3 DEF all, ChainOK, Rotates, Rotating, Renewing, Spent, Chain
  <2> QED BY <1>1, <1>3, <2>1, <2>2 DEF SInv, all
<1> QED BY <1>2, <1>3

LEMMA WatchedBegins == WatchedInit => SInv
<1> SUFFICES ASSUME WatchedInit PROVE SInv
  OBVIOUS
<1>1. IInv
  BY InitIInv DEF WatchedInit
<1>2. Token = {}
  BY DEF WatchedInit, Init, Token
<1> QED BY <1>1, <1>2 DEF SInv

LEMMA WatchedInvariance == WatchedSpec => []SInv
<1> QED BY WatchedBegins, WatchedKeeps, PTL DEF WatchedSpec

\* Clients hold at most one usable token of a chain that was not contended,
\* whatever other requests do, abort or lose.
THEOREM OneLiveToken == WatchedSpec => []OneLiveTokenPerChain
<1>1. SInv => OneLiveTokenPerChain
  BY DEF SInv, IInv, Origins, TypeOK, ChainOK, OneLiveTokenPerChain
<1> QED BY <1>1, WatchedInvariance, PTL

\* A logout is final for a chain that was not contended.
THEOREM LogoutIsFinal == WatchedSpec => []LogoutEndsChain
<1>1. SInv => LogoutEndsChain
  BY DEF SInv, IInv, Origins, TypeOK, ChainOK, Spent, LogoutEndsChain
<1> QED BY <1>1, WatchedInvariance, PTL
=============================================================================
