------------------------------ MODULE MCAccess ------------------------------
\* Users are alike, and so are requests.
EXTENDS Access, TLC

Symmetry == Permutations(User) \cup Permutations(Request)
=============================================================================
