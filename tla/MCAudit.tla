------------------------------ MODULE MCAudit -------------------------------
\* Model values for AuditPages: requests and entities are interchangeable.
EXTENDS AuditPages, TLC

Symmetry == Permutations(Request) \cup Permutations(Entity)
=============================================================================
