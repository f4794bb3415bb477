---------------------------- MODULE RefreshTokens ----------------------------
(***************************************************************************)
(* TokenService and the auth endpoints that call it: login, switch-tenant, *)
(* refresh (rotation with reuse detection), logout and global logout, run  *)
(* by concurrent requests.  A handler is cut at every await on the         *)
(* database, where Node runs other requests; no two statements share a     *)
(* transaction.                                                            *)
(*                                                                         *)
(* Login and refresh are public: their context names no user, and there a  *)
(* write may be lost although it is answered like any other.  It shares a  *)
(* transaction with its change record, cdc.extension.ts swallows the error *)
(* of a record the database refuses, and the COMMIT of the failed          *)
(* transaction rolls both back (AuditTrail has the steps).  For a user,    *)
(* Prisma itself refuses the record, before the database sees it, so the   *)
(* writes of tenant-context commit; the updateMany of a logout has no      *)
(* change record.                                                          *)
(*                                                                         *)
(* The refresh_tokens table is the sequence of its rows in insertion       *)
(* order; a row's position stands for its random UUID and for the random   *)
(* secret whose hash it stores (both are fresh and never reused).          *)
(***************************************************************************)
EXTENDS Naturals, Sequences, FiniteSets

CONSTANTS User,         \* users that can authenticate
          Request,      \* slots for requests the server runs at the same time
          MaxTokens     \* bound: no handler that inserts a row starts beyond it

ASSUME MaxTokensAssumption == MaxTokens \in Nat

VARIABLES
  table,      \* the refresh_tokens rows
  req,        \* where the handler in each slot has got to
  delivered,  \* tokens some client received in a cookie
  history,    \* history[t]: how row t came to be (no column holds it)
  ended       \* the chains a logout took the client's token of (no column holds it)

vars == <<table, req, delivered, history, ended>>

NoToken == 0            \* null

Token == DOMAIN table

Row == [user : User, isRevoked : BOOLEAN, replacedById : Nat]

\* `from`: the token rotated into this one.
\* `chain`: the row its chain of rotations began with, inserted by a login, a
\* tenant switch, or a rotation whose update of the old row was rolled back.
\* A session is one chain as long as no update of it is rolled back.
Provenance == [from : Nat, chain : Nat]

PC == {"idle",          \* no request in the slot
       "create",        \* rotateToken: read the old row, about to insert
       "mark",          \* rotateToken: inserted, about to update the old row
       "respond",       \* the new secret is in the response
       "walkRead",      \* invalidateFamily: about to read `token`
       "walkRevoke",    \* invalidateFamily: read it, about to update it
       "reused"}        \* invalidateFamily returned, about to answer 401

\* `token`: existingToken, or the walk's currentId.
\* `new`: the inserted row, NoToken if it was rolled back; or the walk's next row.
Handler == [pc : PC, token : Nat, new : Nat]

Idle == [pc |-> "idle", token |-> NoToken, new |-> NoToken]

Init == /\ table = << >>
        /\ req = [p \in Request |-> Idle]
        /\ delivered = {}
        /\ history = << >>
        /\ ended = {}

-----------------------------------------------------------------------------
\* The table's operations

\* prisma.refreshToken.update/updateMany with data { isRevoked: true }.
Revoked(S) ==
  [t \in Token |-> IF t \in S THEN [table[t] EXCEPT !.isRevoked = TRUE]
                              ELSE table[t]]

\* prisma.refreshToken.create: a row that is neither revoked nor replaced.
Insert(u, h) ==
  /\ table' = Append(table, [user |-> u, isRevoked |-> FALSE, replacedById |-> NoToken])
  /\ history' = Append(history, h)

NewToken == Len(table) + 1

\* Faulty variant: the update forgets its where clause.
OwnedByAnyone(u) == Token

OwnedBy(u) == {t \in Token : table[t].user = u}

\* The relation schema.prisma names `replacements`: rows replaced BY t.
Replacements(t) == {s \in Token : table[s].replacedById = t}

\* Rows that rotations in flight will still insert count against the bound.
HasRoom == Len(table) + Cardinality({p \in Request : req[p].pc = "create"}) < MaxTokens

Chain(t) == history[t].chain

\* The chains of the usable tokens of S that clients hold.
ChainsOf(S) == {Chain(t) : t \in {s \in S \cap delivered : ~table[s].isRevoked}}

Goto(p, handler) == req' = [req EXCEPT ![p] = handler]

-----------------------------------------------------------------------------
\* POST /auth/login, once the password was accepted: generateTokens.  The client
\* is answered with a secret even if the row that holds its hash was rolled back.
Login(p, u) ==
  /\ req[p].pc = "idle"
  /\ HasRoom
  /\ \/ /\ Insert(u, [from |-> NoToken, chain |-> NewToken])
        /\ Goto(p, [pc |-> "respond", token |-> NoToken, new |-> NewToken])
     \/ /\ Goto(p, [pc |-> "respond", token |-> NoToken, new |-> NoToken])
        /\ UNCHANGED <<table, history>>
  /\ UNCHANGED <<delivered, ended>>

\* POST /auth/tenant-context, once the membership was accepted: generateTokens
\* inserts a row, but only the access token is returned.
SwitchTenantContext(p, u) ==
  /\ req[p].pc = "idle"
  /\ HasRoom
  /\ Insert(u, [from |-> NoToken, chain |-> NewToken])
  /\ UNCHANGED <<req, delivered, ended>>

\* POST /auth/logout: updateMany on the presented token's hash.
Logout(p, t) ==
  /\ req[p].pc = "idle"
  /\ table' = Revoked({t})
  /\ ended' = ended \cup ChainsOf({t})
  /\ UNCHANGED <<req, delivered, history>>

\* POST /auth/logout/global: updateMany on the user.
LogoutGlobal(p, u) ==
  /\ req[p].pc = "idle"
  /\ table' = Revoked(OwnedBy(u))
  /\ ended' = ended \cup ChainsOf(OwnedBy(u))
  /\ UNCHANGED <<req, delivered, history>>

-----------------------------------------------------------------------------
\* Faulty variant: a revoked token is rotated like any other.
RotateReadUnchecked(p, t) ==
  /\ req[p].pc = "idle"
  /\ HasRoom
  /\ Goto(p, [pc |-> "create", token |-> t, new |-> NoToken])
  /\ UNCHANGED <<table, delivered, history, ended>>

\* POST /auth/refresh.  An unknown or an expired token is answered 401 and
\* changes nothing, so only the other two outcomes of the read are steps; no
\* clock is kept, so either may come of any read.
RotateRead(p, t) ==
  /\ req[p].pc = "idle"
  /\ \/ /\ table[t].isRevoked
        /\ Goto(p, [pc |-> "walkRead", token |-> t, new |-> NoToken])
     \/ /\ ~table[t].isRevoked
        /\ HasRoom
        /\ Goto(p, [pc |-> "create", token |-> t, new |-> NoToken])
  /\ UNCHANGED <<table, delivered, history, ended>>

\* Faulty variant: answers without waiting for the old row's update.
RotateCreateAnswers(p) ==
  LET old == req[p].token IN
  /\ req[p].pc = "create"
  /\ Insert(table[old].user,
            [from |-> old, chain |-> history[old].chain])
  /\ Goto(p, [pc |-> "respond", token |-> NoToken, new |-> NewToken])
  /\ UNCHANGED <<delivered, ended>>

\* generateTokens for the user of the row that was read; the row it inserts may
\* be rolled back.
RotateCreate(p) ==
  LET old == req[p].token IN
  /\ req[p].pc = "create"
  /\ \/ /\ Insert(table[old].user,
                  [from |-> old, chain |-> history[old].chain])
        /\ Goto(p, [pc |-> "mark", token |-> old, new |-> NewToken])
     \/ /\ Goto(p, [pc |-> "mark", token |-> old, new |-> NoToken])
        /\ UNCHANGED <<table, history>>
  /\ UNCHANGED <<delivered, ended>>

\* Faulty variant: links the old row to its user.
RotateMarkLinksUser(p) ==
  LET old == req[p].token
      new == req[p].new
  IN /\ req[p].pc = "mark" /\ new # NoToken
     /\ table' = [Revoked({old}) EXCEPT ![old].replacedById = table[old].user]
     /\ Goto(p, [pc |-> "respond", token |-> NoToken, new |-> new])
     /\ UNCHANGED <<delivered, history, ended>>

\* Faulty variant: links the old row but leaves it unrevoked.
RotateMarkLinkOnly(p) ==
  LET old == req[p].token
      new == req[p].new
  IN /\ req[p].pc = "mark" /\ new # NoToken
     /\ table' = [table EXCEPT ![old].replacedById = new]
     /\ Goto(p, [pc |-> "respond", token |-> NoToken, new |-> new])
     /\ UNCHANGED <<delivered, history, ended>>

\* The old row is revoked and linked, whatever it has become since the read.  Or
\* the update is rolled back, and the new token, answered all the same, begins a
\* chain.  Or there is no row to link to, which the foreign key refuses: a 500.
RotateMark(p) ==
  LET old == req[p].token
      new == req[p].new
      answer == [pc |-> "respond", token |-> NoToken, new |-> new]
  IN /\ req[p].pc = "mark"
     /\ \/ /\ new # NoToken
           /\ table' = [Revoked({old}) EXCEPT ![old].replacedById = new]
           /\ Goto(p, answer)
           /\ UNCHANGED history
        \/ /\ new # NoToken
           /\ history' = [history EXCEPT ![new].chain = new]
           /\ Goto(p, answer)
           /\ UNCHANGED table
        \/ /\ new = NoToken
           /\ Goto(p, Idle)
           /\ UNCHANGED <<table, history>>
     /\ UNCHANGED <<delivered, ended>>

\* setRefreshTokenCookie: the client now has the new secret, which is worth
\* nothing if its row was rolled back.
Respond(p) ==
  /\ req[p].pc = "respond"
  /\ delivered' = delivered \cup ({req[p].new} \ {NoToken})
  /\ Goto(p, Idle)
  /\ UNCHANGED <<table, history, ended>>

\* invalidateFamily: findUnique with the rows of `replacements`, of which the
\* loop follows the first one the database returns.
WalkRead(p) ==
  LET current == req[p].token IN
  /\ req[p].pc = "walkRead"
  /\ \E next \in IF Replacements(current) = {} THEN {NoToken}
                                               ELSE Replacements(current) :
       Goto(p, [pc |-> "walkRevoke", token |-> current, new |-> next])
  /\ UNCHANGED <<table, delivered, history, ended>>

\* Faulty variant: the loop never advances currentId.
WalkRevokeStuck(p) ==
  /\ req[p].pc = "walkRevoke"
  /\ table' = Revoked({req[p].token})
  /\ Goto(p, IF req[p].new = NoToken THEN [req[p] EXCEPT !.pc = "reused"]
             ELSE [req[p] EXCEPT !.pc = "walkRead"])
  /\ UNCHANGED <<delivered, history, ended>>

\* invalidateFamily: the update, stored or rolled back, then the next turn of
\* the loop or its end.
WalkRevoke(p) ==
  LET next == req[p].new IN
  /\ req[p].pc = "walkRevoke"
  /\ table' \in {Revoked({req[p].token}), table}
  /\ Goto(p, IF next = NoToken THEN [req[p] EXCEPT !.pc = "reused"]
             ELSE [pc |-> "walkRead", token |-> next, new |-> NoToken])
  /\ UNCHANGED <<delivered, history, ended>>

\* 401 "Token reuse detected. Session invalidated."
AnswerReused(p) ==
  /\ req[p].pc = "reused"
  /\ Goto(p, Idle)
  /\ UNCHANGED <<table, delivered, history, ended>>

-----------------------------------------------------------------------------
\* A database call rejects, the process dies or the response is lost: the
\* handler's remaining steps never happen, the ones it took are committed.
Abort(p) ==
  /\ req[p].pc # "idle"
  /\ Goto(p, Idle)
  /\ UNCHANGED <<table, delivered, history, ended>>

-----------------------------------------------------------------------------
Step(p) == \/ RotateCreate(p) \/ RotateMark(p) \/ Respond(p)
           \/ WalkRead(p) \/ WalkRevoke(p) \/ AnswerReused(p)

\* A client presents only tokens it was given.
Arrive(p) == \/ \E u \in User : \/ Login(p, u)
                                \/ SwitchTenantContext(p, u)
                                \/ LogoutGlobal(p, u)
             \/ \E t \in delivered : Logout(p, t) \/ RotateRead(p, t)

Next == \E p \in Request : Arrive(p) \/ Step(p) \/ Abort(p)

Spec == Init /\ [][Next]_vars

\* The event loop resumes every handler whose awaited call has settled, so a
\* handler that is never aborted keeps taking its steps.
FairSpec == Spec /\ \A p \in Request : WF_vars(Step(p))

-----------------------------------------------------------------------------
\* Type invariant.
TypeOK == /\ table \in Seq(Row)
          /\ history \in Seq(Provenance)
          /\ Len(history) = Len(table)
          /\ req \in [Request -> Handler]
          /\ delivered \subseteq Token
          /\ ended \subseteq Token

\* replaced_by_id links are chains, which is what lets invalidateFamily follow
\* `replacements[0]` and stop: a row's replacement is a later row of the same
\* user, it was made from that row, no two rows share one, and only a revoked
\* row has one.
ReplacementsFormChains ==
  \A t \in Token : LET n == table[t].replacedById IN
    n # NoToken => /\ n \in Token /\ t < n
                   /\ table[n].user = table[t].user
                   /\ history[n].from = t
                   /\ table[t].isRevoked
                   /\ Replacements(n) = {t}

\* t was handed out by a rotation whose update was rolled back.
Forked(t) == Chain(t) = t /\ history[t].from # NoToken

\* rotateToken answers only after the update of the old row: a client that holds
\* a successor of a token still unrevoked has it because the update was rolled
\* back and answered all the same.
RotationConsumesItsToken ==
  \A t \in delivered :
    history[t].from # NoToken => table[history[t].from].isRevoked \/ Forked(t)

\* Once the reuse of a token is answered, no client holds a usable token of its
\* chain ("Revoke the entire family", token.service.ts; spec 003, FR-005,
\* "invalidate all tokens for the affected user session").  The code does not:
\* invalidateFamily walks away from the successor.
ReuseEndsSession ==
  \A p \in Request : req[p].pc = "reused" =>
    \A t \in delivered : Chain(t) = Chain(req[p].token) => table[t].isRevoked

\* invalidateFamily follows `replacements`, the relation's far side, away from
\* the live end of the chain: none of its updates ever changes a row.
WalkRevokesNothingNew == [][\A p \in Request : WalkRevoke(p) => UNCHANGED table]_vars

\* Every request is answered: the walk's loop ends.
EveryRequestIsAnswered == \A p \in Request : req[p].pc # "idle" ~> req[p].pc = "idle"

\* The token store implements the ledger: issued once, retired for good.
Ledger == INSTANCE TokenLedger WITH
            holder <- [t \in Token |-> table[t].user],
            usable <- {t \in Token : ~table[t].isRevoked}

ImplementsLedger == Ledger!Spec
=============================================================================
