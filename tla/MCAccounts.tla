----------------------------- MODULE MCAccounts -----------------------------
EXTENDS Accounts, TLC

\* Requests and emails are interchangeable: no action compares or orders them.
Symmetry == Permutations(Request) \cup Permutations(Email)
=============================================================================
