-------------------------- MODULE AccountDirectory --------------------------
(***************************************************************************)
(* What /tenancy/users promises, each call in one step: an email is        *)
(* registered once and for good, its account is open until it is closed,   *)
(* and only an update makes it an administrator's or takes that back.      *)
(***************************************************************************)
CONSTANT Email

VARIABLES registered,  \* emails that have an account
          open,        \* those whose account is active
          admins       \* those whose account is a platform admin's

dvars == <<registered, open, admins>>

\* The seed's administrator.
Init == \E e \in Email : registered = {e} /\ open = {e} /\ admins = {e}

Register(e) == /\ e \notin registered
               /\ registered' = registered \cup {e}
               /\ open' = open \cup {e}
               /\ admins' \in {admins, admins \cup {e}}

SetAdmin(e) == /\ e \in registered
               /\ admins' \in {admins \cup {e}, admins \ {e}}
               /\ UNCHANGED <<registered, open>>

Close(e) == /\ open' = open \ {e}
            /\ UNCHANGED <<registered, admins>>

Next == \E e \in Email : Register(e) \/ SetAdmin(e) \/ Close(e)

Spec == Init /\ [][Next]_dvars
=============================================================================
