--------------------------- MODULE MCSubscriptions ---------------------------
EXTENDS Subscriptions, TLC

\* Ids are random and no call compares two of a kind but for equality.
Symmetry == Permutations(Plan) \cup Permutations(Tenant)
            \cup Permutations(User) \cup Permutations(Request)
=============================================================================
