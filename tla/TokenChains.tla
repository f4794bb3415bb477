----------------------------- MODULE TokenChains -----------------------------
(***************************************************************************)
(* RefreshTokens with a history variable that tells which chains of        *)
(* rotations were contended, and what clients hold of the others: there    *)
(* only the first use of a token succeeds and a logout is final.  Both     *)
(* fail once a chain is contended.                                         *)
(***************************************************************************)
EXTENDS RefreshTokens

VARIABLE contended

\* Slot p is rotating a token of chain c, or about to hand out one.
Rotates(p, c) == \/ req[p].pc \in {"create", "mark"} /\ Chain(req[p].token) = c
                 \/ /\ req[p].pc = "respond" /\ req[p].new # NoToken
                    /\ Chain(req[p].new) = c

\* The step brings a second request to a chain that one is rotating, or revokes
\* a token of a chain under a request that is rotating it and does not move.
Contends(c) ==
  \/ \E p, q \in Request : p # q /\ Rotates(p, c)' /\ Rotates(q, c)'
  \/ /\ \E p \in Request : Rotates(p, c) /\ req'[p] = req[p]
     /\ \E t \in Token : Chain(t) = c /\ table'[t].isRevoked # table[t].isRevoked

all == <<table, req, delivered, history, ended, contended>>

WatchedInit == Init /\ contended = {}
WatchedNext == Next /\ contended' = contended \cup {c \in Token : Contends(c)}

\* Fairness as in FairSpec.
WatchedSpec ==
  /\ WatchedInit /\ [][WatchedNext]_all
  /\ \A p \in Request :
       WF_all(Step(p) /\ contended' = contended \cup {c \in Token : Contends(c)})

-----------------------------------------------------------------------------
\* Clients hold at most one unrevoked token of a chain (spec 003, "Concurrent
\* refresh token use from two devices -- only the first succeeds"), unless two
\* requests rotated it at a time or a logout revoked it under one: whatever else
\* runs, aborts or is rolled back.  So a session has one live token, and
\* one more for every rotation of it whose update was rolled back.
OneLiveTokenPerChain ==
  \A s, t \in delivered :
    /\ Chain(s) = Chain(t) /\ Chain(s) \notin contended
    /\ ~table[s].isRevoked /\ ~table[t].isRevoked
    => s = t

\* A chain that a logout ended stays ended, unless it was contended: none of its
\* delivered tokens is unrevoked any more, nor will a later rotation add one.
LogoutEndsChain ==
  \A t \in delivered : Chain(t) \in ended \ contended => table[t].isRevoked
=============================================================================
