----------------------------- MODULE AuditPages -----------------------------
(***************************************************************************)
(* An auditor reads the change records page by page while they are being   *)
(* written: take Limit + 1 rows from the cursor on, newest first, the      *)
(* cursor being the last record of the page before.  The access log is     *)
(* read in the same way.                                                   *)
(***************************************************************************)
EXTENDS AuditTrail

CONSTANT Limit           \* records in a page

ASSUME LimitAssumption == Limit \in Nat \ {0}

VARIABLES
  start,     \* history: the records there were when the walk began
  seen,      \* the records its pages have shown
  walking    \* hasNext of the last page

pvars == <<versions, records, log, clock, req, count, answers, overlap,
           start, seen, walking>>

PInit == Init /\ start = {} /\ seen = <<>> /\ walking = FALSE

\* Faulty variant: no second sort key.
NewerByTime(c, d) == c.at > d.at

\* orderBy timestamp desc, id desc.
Newer(c, d) == c.at > d.at \/ (c.at = d.at /\ c.id > d.id)

\* The orders in which the database may return some records.
Listings(S) == {s \in SetToSeqs(S) :
                  \A i, j \in DOMAIN s : i < j => ~Newer(s[j], s[i])}

\* Rows at or after the cursor in the order, less the first: Prisma's cursor
\* with skip 1.
After(c) == {Tail(s) : s \in Listings({d \in records : ~Newer(d, c)})}

\* One page out of the rows that are left; one row more decides hasNext.
Show(rows, before) ==
  /\ seen' = before \o SubSeq(rows, 1, IF Len(rows) > Limit THEN Limit ELSE Len(rows))
  /\ walking' = (Len(rows) > Limit)
  /\ UNCHANGED vars

FirstPage == /\ ~walking
             /\ \E rows \in Listings(records) : Show(rows, <<>>)
             /\ start' = records

NextPage == /\ walking
            /\ \E rows \in After(Last(seen)) : Show(rows, seen)
            /\ UNCHANGED start

PNext == \/ Next /\ UNCHANGED <<start, seen, walking>>
         \/ FirstPage \/ NextPage

PSpec == PInit /\ [][PNext]_pvars

-----------------------------------------------------------------------------
\* Whatever is committed while an auditor turns the pages, the records that were
\* there at the start are each shown once, newest first.
WalkIsExact ==
  /\ IsInjective(seen)
  /\ \A i, j \in DOMAIN seen : i < j => seen[i].at >= seen[j].at
  /\ ~walking => start \subseteq ToSet(seen)
=============================================================================
