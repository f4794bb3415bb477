----------------------------- MODULE TokenLedger -----------------------------
(***************************************************************************)
(* What the refresh-token store promises, whatever requests interleave: a  *)
(* token is issued usable to one user, and a usable token may be retired;  *)
(* nothing brings a retired token back, changes whose it is, or retires    *)
(* the tokens of two users in one step.  RefreshTokens implements it.      *)
(***************************************************************************)
EXTENDS Naturals, Sequences

CONSTANT User           \* the users that hold tokens

VARIABLES holder,       \* holder[t]: the user token t was issued to
          usable        \* the tokens that can still be rotated

ledgerVars == <<holder, usable>>

Init == /\ holder = << >>
        /\ usable = {}

\* A new token, usable from the start.
Issue(u) == /\ holder' = Append(holder, u)
            /\ usable' = usable \cup {Len(holder) + 1}

\* Any set of one user's tokens stops being usable.
Retire(u, S) == /\ S \subseteq DOMAIN holder
                /\ \A t \in S : holder[t] = u
                /\ usable' = usable \ S
                /\ UNCHANGED holder

Next == \E u \in User : \/ Issue(u)
                        \/ \E S \in SUBSET DOMAIN holder : Retire(u, S)

Spec == Init /\ [][Next]_ledgerVars
=============================================================================
