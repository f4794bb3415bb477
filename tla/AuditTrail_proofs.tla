-------------------------- MODULE AuditTrail_proofs --------------------------
(***************************************************************************)
(* Proofs about AuditTrail and AuditPages.  The invariant of the writers     *)
(* says of every write in progress what its transaction will leave behind,  *)
(* and of the numbers that stand for writes that they are new: that is all  *)
(* an order of the records needs.  The invariant of a walk over their pages *)
(* says that what it has not shown is older than its cursor.                *)
(***************************************************************************)
EXTENDS AuditPages, SequenceTheorems, FiniteSetTheorems, TLAPS

Pcs == {"begun", "read", "mutated", "recorded"}

\* What a transaction has in hand.
Shaped ==
  \A r \in Request : req[r] \in Write =>
    /\ req[r].new \in 1..count
    /\ \A c \in req[r].inserted : /\ c.entity = req[r].entity /\ c.new = req[r].new
                                  /\ c.old = req[r].old /\ c.at <= clock
    /\ req[r].pc # "recorded" => req[r].inserted = {}
    /\ req[r].pc = "recorded" /\ ~req[r].user /\ ~req[r].failed => req[r].inserted # {}

\* No write's number is given twice.
Fresh ==
  /\ \A e \in Entity : \A i \in DOMAIN versions[e] : versions[e][i] <= count
  /\ \A r \in Request : req[r] \in Write =>
       \A e \in Entity : \A i \in DOMAIN versions[e] : versions[e][i] # req[r].new
  /\ \A q, r \in Request : q # r /\ req[q] \in Write /\ req[r] \in Write
       => req[q].new # req[r].new

\* The row's lock.
Exclusive ==
  \A q, r \in Request :
    q # r /\ req[q].pc \in {"mutated", "recorded"} /\ req[r].pc \in {"mutated", "recorded"}
      => req[q].entity # req[r].entity

\* A record under a lock is the youngest of its entity.
Stamped ==
  /\ \A c \in records : c.at <= clock
  /\ \A r \in Request : req[r].pc = "recorded" =>
       \A c \in req[r].inserted, d \in records : d.entity = c.entity => d.at <= c.at

Committed == \A c \in records : \E i \in DOMAIN versions[c.entity] : versions[c.entity][i] = c.new

Ordered ==
  \A c, d \in records : c.entity = d.entity =>
    \A i, j \in DOMAIN versions[c.entity] :
      versions[c.entity][i] = c.new /\ versions[c.entity][j] = d.new /\ i < j => c.at <= d.at

\* What a request without a user reports is there to be found.
Findable(n) ==
  \E a \in answers : /\ a.new = n
                     /\ a.captured /\ ~a.failed => \E c \in records : c.new = n

Reported ==
  \A r \in Request : req[r].pc = "answered" /\ ~req[r].user /\ req[r].status = 200
    => Findable(req[r].new)

\* Without overlap.
Chained ==
  \A c \in records : \A i \in DOMAIN versions[c.entity] : versions[c.entity][i] = c.new =>
    c.old = IF i = 1 THEN Nothing ELSE versions[c.entity][i - 1]

Serial ==
  overlap \/ /\ \A q, r \in Request : req[q] \in Write /\ req[r] \in Write => q = r
             /\ \A r \in Request : req[r] \in Write /\ req[r].pc # "begun"
                  => req[r].old = Row(req[r].entity)
             /\ Chained

IInv == /\ TypeOK /\ Shaped /\ Fresh /\ Exclusive /\ Stamped /\ Committed /\ Ordered
        /\ AnsweredWritesHold /\ Reported /\ LogFindsRecords /\ Serial

-----------------------------------------------------------------------------
\* Requests by their pc.
LEMMA Kinds ==
  ASSUME NEW s \in {Idle} \cup Write \cup Answered
  PROVE  /\ s \in Write <=> s.pc \in Pcs
         /\ s \in Answered <=> s.pc = "answered"
         /\ s \in Write <=> s # Idle /\ s.pc # "answered"
<1>1. CASE s = Idle
  BY <1>1 DEF Idle, Write, Answered, Pcs
<1>2. CASE s \in Write
  <2>1. s.pc \in Pcs
    BY <1>2 DEF Write, Pcs
  <2>2. s \notin Answered /\ s # Idle
    BY <2>1 DEF Answered, Idle, Pcs
  <2> QED BY <1>2, <2>1, <2>2 DEF Pcs
<1>3. CASE s \in Answered
  <2>1. s.pc = "answered"
    BY <1>3 DEF Answered
  <2>2. s \notin Write /\ s # Idle
    BY <2>1 DEF Write, Idle
  <2> QED BY <1>3, <2>1, <2>2 DEF Pcs
<1> QED BY <1>1, <1>2, <1>3

LEMMA LastIn ==
  ASSUME NEW S, NEW v \in Seq(S), v # <<>>
  PROVE  Len(v) \in DOMAIN v /\ v[Len(v)] \in S
<1>1. Len(v) # 0 /\ Len(v) \in Nat
  BY EmptySeq
<1>2. Len(v) \in 1..Len(v) /\ DOMAIN v = 1..Len(v)
  BY <1>1
<1> QED BY <1>2, ElementOfSeq

LEMMA VersionsAreNumbers ==
  TypeOK => \A e \in Entity : \A i \in DOMAIN versions[e] : versions[e][i] \in Nat
<1> SUFFICES ASSUME TypeOK, NEW e \in Entity, NEW i \in DOMAIN versions[e]
             PROVE  versions[e][i] \in Nat
  OBVIOUS
<1>1. PICK v \in Seq(1..MaxWrites) : v = versions[e]
  BY DEF TypeOK
<1>2. i \in 1..Len(v)
  BY <1>1
<1>3. v[i] \in 1..MaxWrites
  BY <1>2, ElementOfSeq
<1> QED BY <1>1, <1>3, AuditAssumption

\* The steps in normal form: a write begins or moves on in its transaction; a
\* request ends, its transaction committed or rolled back; a request is done in
\* one step; the rest.
Advance(r, s) ==
  /\ s \in Write /\ req' = [req EXCEPT ![r] = s]
  /\ UNCHANGED <<versions, records, log, clock, answers>>

Begins(r, s) ==
  /\ Advance(r, s) /\ req[r] \notin Write
  /\ s.pc = "begun" /\ s.new = count + 1 /\ s.inserted = {}
  /\ count < MaxWrites /\ count' = count + 1
  /\ overlap' = (overlap \/ Overlapping)

Follows(r, s) ==
  /\ Advance(r, s) /\ req[r] \in Write
  /\ s.new = req[r].new /\ s.entity = req[r].entity /\ s.user = req[r].user
  /\ UNCHANGED <<count, overlap>>

Reads(r, s) ==
  /\ Follows(r, s) /\ req[r].pc = "begun" /\ s.pc = "read"
  /\ s.inserted = req[r].inserted /\ s.old = Row(req[r].entity)

Mutates(r, s) ==
  /\ Follows(r, s) /\ req[r].pc = "read" /\ s.pc = "mutated"
  /\ s.inserted = req[r].inserted /\ s.old = req[r].old /\ ~Locked(req[r].entity)

Inserts(r, s) ==
  /\ Follows(r, s) /\ req[r].pc = "mutated" /\ s.pc = "recorded" /\ s.old = req[r].old
  /\ \/ \E i \in FreeIds : s.inserted = {Record(r, i)}
     \/ s.inserted = req[r].inserted /\ (s.user \/ s.failed)

Commits(r) ==
  /\ req[r] \in Write /\ req[r].pc = "recorded" /\ ~req[r].failed
  /\ versions' = [versions EXCEPT ![req[r].entity] = Append(@, req[r].new)]
  /\ records' = records \cup req[r].inserted

Ends(r, s) ==
  /\ s \in {Idle} \cup Answered /\ req' = [req EXCEPT ![r] = s]
  /\ UNCHANGED <<clock, count, overlap>>
  /\ Commits(r) \/ UNCHANGED <<versions, records>>

\* Who hears of it: the answers and the log.
Tells(r, s) ==
  \/ UNCHANGED <<answers, log>> /\ (s.pc = "answered" => s.status # 200)
  \/ /\ UNCHANGED log /\ answers' = answers \cup {Done(r)}
     /\ req[r] \in Write /\ req[r].pc = "recorded" /\ EndTransaction(r)
     /\ s.pc = "answered" /\ s.new = req[r].new /\ s.user = req[r].user
  \/ /\ UNCHANGED answers /\ s = Idle /\ req[r].pc = "answered" /\ ~req[r].user
     /\ log' = log \cup {[new |-> req[r].new, status |-> req[r].status]}

LEMMA Normal ==
  ASSUME TypeOK, Next
  PROVE  \/ \E r \in Request : \E s :
              Begins(r, s) \/ Reads(r, s) \/ Mutates(r, s) \/ Inserts(r, s)
         \/ \E r \in Request : \E s : Ends(r, s) /\ Tells(r, s)
         \/ \E r \in Request, e \in Entity, user \in BOOLEAN : WriteUncaptured(r, e, user)
         \/ \E r \in Request, user \in BOOLEAN : Alter(r, user)
         \/ Tick
<1> USE DEF Become, At
<1>1. req \in [Request -> {Idle} \cup Write \cup Answered]
  BY DEF TypeOK
<1>2. \A r \in Request : Writing(r) <=> req[r] \in Write
  BY <1>1, Kinds DEF Writing, Busy
<1>3. \A r \in Request : req[r].pc \in Pcs => req[r] \in Write
  BY <1>1, Kinds
<1>4. ASSUME NEW r \in Request, NEW e \in Entity, NEW user \in BOOLEAN, Begin(r, e, user)
      PROVE  \E s : Begins(r, s)
  <2> DEFINE s == [pc |-> "begun", entity |-> e, user |-> user, old |-> Nothing,
                   new |-> count + 1, inserted |-> {}, failed |-> FALSE]
  <2>1. count + 1 \in Values /\ Nothing \in Values
    BY <1>4, AuditAssumption DEF TypeOK, Begin, Values, Nothing
  <2>2. s \in Write
    BY <2>1 DEF Write
  <2>3. req[r] \notin Write
    BY <1>2, <1>4 DEF Begin, Writing
  <2>4. Begins(r, s)
    BY <1>4, <2>2, <2>3 DEF Begins, Advance, Begin
  <2> QED BY <2>4
<1>5. ASSUME NEW r \in Request, ReadOld(r) PROVE \E s : Reads(r, s)
  <2>1. req[r] \in Write /\ Row(req[r].entity) \in Values
    <3>1. req[r] \in Write /\ versions[req[r].entity] \in Seq(1..MaxWrites)
      BY <1>3, <1>5 DEF ReadOld, Pcs, Write, TypeOK
    <3>2. PICK v \in Seq(1..MaxWrites) : v = versions[req[r].entity]
      BY <3>1
    <3>3. v # <<>> => v[Len(v)] \in 1..MaxWrites
      BY LastIn
    <3> QED BY <3>1, <3>2, <3>3, AuditAssumption DEF Row, Last, Values, Nothing
  <2> DEFINE s == [req[r] EXCEPT !.pc = "read", !.old = Row(req[r].entity)]
  <2>2. /\ s \in Write /\ s.pc = "read" /\ s.old = Row(req[r].entity) /\ s.new = req[r].new
        /\ s.entity = req[r].entity /\ s.user = req[r].user /\ s.inserted = req[r].inserted
    BY <2>1 DEF Write
  <2>3. Reads(r, s)
    BY <1>5, <2>1, <2>2 DEF ReadOld, Reads, Follows, Advance
  <2> QED BY <2>3
<1>6. ASSUME NEW r \in Request, Mutate(r) PROVE \E s : Mutates(r, s)
  <2>1. req[r] \in Write
    BY <1>3, <1>6 DEF Mutate, Pcs
  <2> DEFINE s == [req[r] EXCEPT !.pc = "mutated"]
  <2>2. /\ s \in Write /\ s.pc = "mutated" /\ s.old = req[r].old /\ s.new = req[r].new
        /\ s.entity = req[r].entity /\ s.user = req[r].user /\ s.inserted = req[r].inserted
    BY <2>1 DEF Write
  <2>3. Mutates(r, s)
    BY <1>6, <2>1, <2>2 DEF Mutate, Mutates, Follows, Advance
  <2> QED BY <2>3
<1>7. ASSUME NEW r \in Request, Insert(r) PROVE \E s : Inserts(r, s)
  <2>1. req[r] \in Write
    BY <1>3, <1>7 DEF Insert, Pcs
  <2>2. PICK i \in FreeIds :
          /\ req' = [req EXCEPT ![r] = [req[r] EXCEPT !.pc = "recorded",
                                                      !.inserted = {Record(r, i)}]]
          /\ UNCHANGED <<versions, records, log, clock, count, answers, overlap>>
    BY <1>7 DEF Insert
  <2>3. Record(r, i) \in ChangeRecord
    BY <2>1 DEF FreeIds, Record, ChangeRecord, Write, TypeOK
  <2> DEFINE s == [req[r] EXCEPT !.pc = "recorded", !.inserted = {Record(r, i)}]
  <2>4. /\ s \in Write /\ s.pc = "recorded" /\ s.old = req[r].old /\ s.new = req[r].new
        /\ s.entity = req[r].entity /\ s.user = req[r].user /\ s.inserted = {Record(r, i)}
    BY <2>1, <2>3 DEF Write
  <2>5. Inserts(r, s)
    BY <1>7, <2>1, <2>2, <2>4 DEF Insert, Inserts, Follows, Advance
  <2> QED BY <2>5
<1>8. ASSUME NEW r \in Request, InsertRefused(r) PROVE \E s : Inserts(r, s)
  <2>1. req[r] \in Write
    BY <1>3, <1>8 DEF InsertRefused, Pcs
  <2> DEFINE s == [req[r] EXCEPT !.pc = "recorded"]
  <2>2. /\ s \in Write /\ s.pc = "recorded" /\ s.old = req[r].old /\ s.new = req[r].new
        /\ s.entity = req[r].entity /\ s.user = req[r].user /\ s.inserted = req[r].inserted
    BY <2>1 DEF Write
  <2>3. Inserts(r, s)
    BY <1>8, <2>1, <2>2 DEF InsertRefused, Inserts, Follows, Advance
  <2> QED BY <2>3
<1>9. ASSUME NEW r \in Request, InsertFails(r) PROVE \E s : Inserts(r, s)
  <2>1. req[r] \in Write
    BY <1>3, <1>9 DEF InsertFails, Pcs
  <2> DEFINE s == [req[r] EXCEPT !.pc = "recorded", !.failed = TRUE]
  <2>2. /\ s \in Write /\ s.pc = "recorded" /\ s.old = req[r].old /\ s.new = req[r].new /\ s.failed
        /\ s.entity = req[r].entity /\ s.user = req[r].user /\ s.inserted = req[r].inserted
    BY <2>1 DEF Write
  <2>3. Inserts(r, s)
    BY <1>9, <2>1, <2>2 DEF InsertFails, Inserts, Follows, Advance
  <2> QED BY <2>3

<1>10. ASSUME NEW r \in Request, Commit(r) PROVE \E s : Ends(r, s) /\ Tells(r, s)
  <2>1. req[r] \in Write
    BY <1>3, <1>10 DEF Commit, Pcs
  <2> DEFINE s == [pc |-> "answered", new |-> req[r].new, user |-> req[r].user, status |-> 200]
  <2>2. s \in Answered
    BY <2>1 DEF Write, Answered, Status
  <2>3. Ends(r, s)
    BY <1>10, <2>1, <2>2 DEF Commit, Commits, EndTransaction, Answering, Ends
  <2>4. Tells(r, s)
    BY <1>10, <2>1 DEF Commit, Tells
  <2> QED BY <2>3, <2>4
<1>11. ASSUME NEW r \in Request, Fail(r) PROVE \E s : Ends(r, s) /\ Tells(r, s)
  <2>1. req[r] \in Write
    BY <1>2, <1>11 DEF Fail
  <2> DEFINE s == [pc |-> "answered", new |-> req[r].new, user |-> req[r].user, status |-> 500]
  <2>2. s \in Answered
    BY <2>1 DEF Write, Answered, Status
  <2>3. Ends(r, s) /\ Tells(r, s)
    BY <1>11, <2>1, <2>2 DEF Fail, Answering, Ends, Tells
  <2> QED BY <2>3
<1>12. ASSUME NEW r \in Request, Stop(r) PROVE Ends(r, Idle) /\ Tells(r, Idle)
  <2>1. At(r, "recorded") => req[r] \in Write
    BY <1>3 DEF Pcs
  <2> QED BY <1>12, <2>1 DEF Stop, Commits, EndTransaction, Ends, Tells, Idle
<1>13. ASSUME NEW r \in Request, LogAccess(r) \/ LogFails(r)
       PROVE  Ends(r, Idle) /\ Tells(r, Idle)
  BY <1>13 DEF LogAccess, LogFails, Ends, Tells, Idle
<1>14. ASSUME NEW r \in Request, Step(r)
       PROVE  \/ \E s : Begins(r, s) \/ Reads(r, s) \/ Mutates(r, s) \/ Inserts(r, s)
              \/ \E s : Ends(r, s) /\ Tells(r, s)
              \/ \E e \in Entity, user \in BOOLEAN : WriteUncaptured(r, e, user)
              \/ \E user \in BOOLEAN : Alter(r, user)
  <2>1. CASE \E user \in BOOLEAN : \E e \in Entity : Begin(r, e, user)
    BY <1>4, <2>1
  <2>2. CASE \E e \in Entity, user \in BOOLEAN : WriteUncaptured(r, e, user)
    BY <2>2
  <2>3. CASE \E user \in BOOLEAN : Alter(r, user)
    BY <2>3
  <2>4. CASE ReadOld(r) \/ Mutate(r) \/ Insert(r) \/ InsertRefused(r) \/ InsertFails(r)
    BY <1>5, <1>6, <1>7, <1>8, <1>9, <2>4
  <2>5. CASE Commit(r) \/ Fail(r) \/ Stop(r) \/ LogAccess(r) \/ LogFails(r)
    BY <1>10, <1>11, <1>12, <1>13, <2>5
  <2> QED BY <1>14, <2>1, <2>2, <2>3, <2>4, <2>5 DEF Step
<1> QED BY <1>14 DEF Next

-----------------------------------------------------------------------------
\* Each kind of step preserves the invariant.

LEMMA AdvanceTypes ==
  ASSUME TypeOK, NEW r \in Request, NEW s, Advance(r, s), count' \in 0..MaxWrites,
         overlap' \in BOOLEAN
  PROVE  TypeOK'
BY DEF TypeOK, Advance

\* What an advance leaves alone.
LEMMA AdvanceKeeps ==
  ASSUME IInv, NEW r \in Request, NEW s, Advance(r, s), count' \in Nat, count <= count'
  PROVE  /\ \A q \in Request : q # r => req'[q] = req[q]
         /\ req'[r] = s /\ s.pc \in Pcs
         /\ Committed' /\ Ordered' /\ AnsweredWritesHold' /\ Reported' /\ LogFindsRecords'
         /\ (\A c \in records : c.at <= clock)'
         /\ (\A e \in Entity : \A i \in DOMAIN versions[e] : versions[e][i] <= count)'
<1>1. req \in [Request -> {Idle} \cup Write \cup Answered] /\ s \in Write
  BY DEF IInv, TypeOK, Advance
<1>2. /\ \A q \in Request : q # r => req'[q] = req[q]
      /\ req'[r] = s /\ s.pc \in Pcs
  BY <1>1, Kinds DEF Advance
<1>3. Committed' /\ Ordered' /\ AnsweredWritesHold' /\ LogFindsRecords'
  BY DEF IInv, Advance, Committed, Ordered, AnsweredWritesHold, LogFindsRecords
<1>4. Reported'
  BY <1>2 DEF IInv, Advance, Reported, Findable, Pcs
<1>5. (\A c \in records : c.at <= clock)'
  BY DEF IInv, Stamped, Advance
<1>6. (\A e \in Entity : \A i \in DOMAIN versions[e] : versions[e][i] <= count)'
  <2>1. \A e \in Entity : \A i \in DOMAIN versions[e] : versions[e][i] \in Nat
    BY VersionsAreNumbers DEF IInv
  <2> QED BY <2>1 DEF IInv, Fresh, TypeOK, Advance
<1> QED BY <1>2, <1>3, <1>4, <1>5, <1>6

LEMMA BeginsStep == \A r \in Request : \A s : IInv /\ Begins(r, s) => IInv'
<1> SUFFICES ASSUME NEW r \in Request, NEW s, IInv, Begins(r, s) PROVE IInv'
  OBVIOUS
<1>1. /\ Advance(r, s) /\ req[r] \notin Write /\ s \in Write
      /\ s.pc = "begun" /\ s.new = count + 1 /\ s.inserted = {}
      /\ count < MaxWrites /\ count' = count + 1 /\ count \in Nat
      /\ UNCHANGED <<versions, records, log, clock, answers>>
  BY AuditAssumption DEF Begins, Advance, IInv, TypeOK
<1>2. TypeOK'
  BY <1>1, AdvanceTypes, AuditAssumption DEF IInv, TypeOK, Begins, Overlapping
<1>3. /\ \A q \in Request : q # r => req'[q] = req[q]
      /\ req'[r] = s
      /\ Committed' /\ Ordered' /\ AnsweredWritesHold' /\ Reported' /\ LogFindsRecords'
      /\ (\A c \in records : c.at <= clock)'
      /\ (\A e \in Entity : \A i \in DOMAIN versions[e] : versions[e][i] <= count)'
  BY <1>1, AdvanceKeeps
<1>4. Shaped'
  BY <1>1, <1>3 DEF IInv, Shaped
<1>5. Fresh'
  <2>1. \A q \in Request : q # r /\ req[q] \in Write => req[q].new # s.new
    BY <1>1 DEF IInv, Shaped
  <2>2. \A e \in Entity : \A i \in DOMAIN versions[e] : versions[e][i] # s.new
    BY <1>1 DEF IInv, Fresh
  <2> QED BY <1>1, <1>3, <2>1, <2>2 DEF IInv, Fresh
<1>6. Exclusive'
  BY <1>1, <1>3 DEF IInv, Exclusive
<1>7. Stamped'
  BY <1>1, <1>3 DEF IInv, Stamped
<1>8. Serial'
  <2>1. CASE overlap \/ \E q \in Request : req[q] \in Write
    <3>1. overlap'
      BY <2>1, <1>1, Kinds DEF Begins, Overlapping, Writing, Busy, At, IInv, TypeOK
    <3> QED BY <3>1 DEF Serial
  <2>2. CASE ~overlap /\ \A q \in Request : req[q] \notin Write
    BY <1>1, <1>3, <2>2 DEF IInv, Serial, Chained
  <2> QED BY <2>1, <2>2
<1> QED BY <1>2, <1>3, <1>4, <1>5, <1>6, <1>7, <1>8 DEF IInv


\* What a step of a write that is in progress needs to keep by itself.
LEMMA FollowsStep ==
  ASSUME IInv, NEW r \in Request, NEW s, Follows(r, s),
         \A c \in s.inserted : /\ c.entity = s.entity /\ c.new = s.new /\ c.old = s.old
                               /\ c.at <= clock,
         s.pc # "recorded" => s.inserted = {},
         s.pc = "recorded" /\ ~s.user /\ ~s.failed => s.inserted # {},
         s.pc = "mutated" => ~Locked(s.entity),
         s.pc = "recorded" =>
           /\ req[r].pc = "mutated"
           /\ \A c \in s.inserted, d \in records : d.entity = c.entity => d.at <= c.at,
         s.pc # "begun" => s.old = (IF s.pc = "read" THEN Row(s.entity) ELSE req[r].old),
         s.pc \notin {"begun", "read"} => req[r].pc # "begun"
  PROVE  IInv'
<1>1. /\ Advance(r, s) /\ req[r] \in Write /\ s \in Write
      /\ s.new = req[r].new /\ s.entity = req[r].entity
      /\ UNCHANGED <<versions, records, log, clock, answers, count, overlap>>
      /\ count \in 0..MaxWrites /\ count \in Nat
      /\ req \in [Request -> {Idle} \cup Write \cup Answered]
  BY AuditAssumption DEF Follows, Advance, IInv, TypeOK
<1>2. TypeOK'
  BY <1>1, AdvanceTypes DEF IInv, TypeOK
<1>3. /\ \A q \in Request : q # r => req'[q] = req[q]
      /\ req'[r] = s
      /\ Committed' /\ Ordered' /\ AnsweredWritesHold' /\ Reported' /\ LogFindsRecords'
      /\ (\A c \in records : c.at <= clock)'
      /\ (\A e \in Entity : \A i \in DOMAIN versions[e] : versions[e][i] <= count)'
  BY <1>1, AdvanceKeeps
<1>4. Shaped'
  BY <1>1, <1>3 DEF IInv, Shaped
<1>5. Fresh'
  BY <1>1, <1>3 DEF IInv, Fresh
<1>6. Exclusive'
  <2>1. ASSUME NEW q \in Request, q # r, req[q].pc \in {"mutated", "recorded"},
               s.pc \in {"mutated", "recorded"}
        PROVE  req[q].entity # s.entity
    <3>1. CASE s.pc = "mutated"
      BY <2>1, <3>1 DEF Locked, At
    <3>2. CASE s.pc = "recorded"
      BY <1>1, <2>1, <3>2 DEF IInv, Exclusive
    <3> QED BY <2>1, <3>1, <3>2
  <2> QED BY <1>3, <2>1 DEF IInv, Exclusive
<1>7. Stamped'
  BY <1>1, <1>3 DEF IInv, Stamped
<1>8. Serial'
  <2>1. CASE overlap
    BY <1>1, <2>1 DEF Serial
  <2>2. CASE ~overlap
    <3>1. \A q \in Request : req[q] \in Write => q = r
      BY <1>1, <2>2 DEF IInv, Serial
    <3>2. s.pc # "begun" => s.old = Row(s.entity)
      BY <1>1, <2>2, Kinds DEF IInv, Serial, Pcs
    <3>3. Row(s.entity)' = Row(s.entity) /\ Chained'
      BY <1>1, <2>2 DEF Row, IInv, Serial, Chained
    <3>4. \A q \in Request : req'[q] \in Write => q = r
      BY <1>3, <3>1
    <3>5. \A q \in Request : (req[q] \in Write /\ req[q].pc # "begun" => req[q].old = Row(req[q].entity))'
      BY <1>1, <1>3, <3>2, <3>4 DEF Row
    <3> QED BY <3>3, <3>4, <3>5 DEF Serial
  <2> QED BY <2>1, <2>2
<1> QED BY <1>2, <1>3, <1>4, <1>5, <1>6, <1>7, <1>8 DEF IInv

LEMMA MovesStep ==
  \A r \in Request : \A s : IInv /\ (Reads(r, s) \/ Mutates(r, s) \/ Inserts(r, s)) => IInv'
<1> SUFFICES ASSUME NEW r \in Request, NEW s, IInv,
                    Reads(r, s) \/ Mutates(r, s) \/ Inserts(r, s)
             PROVE  IInv'
  OBVIOUS
<1>1. /\ Follows(r, s) /\ req[r] \in Write /\ s \in Write
      /\ s.new = req[r].new /\ s.entity = req[r].entity
  BY DEF Reads, Mutates, Inserts, Follows, Advance
<1>2. req[r].pc # "recorded" => req[r].inserted = {}
  BY <1>1 DEF IInv, Shaped
<1>3. CASE Reads(r, s) \/ Mutates(r, s)
  BY <1>1, <1>2, <1>3, FollowsStep DEF Reads, Mutates
<1>4. CASE Inserts(r, s)
  <2>1. CASE \E i : s.inserted = {Record(r, i)}
    <3>1. PICK i : s.inserted = {Record(r, i)}
      BY <2>1
    <3>2. PICK c : c = Record(r, i)
      OBVIOUS
    <3>3. /\ s.inserted = {c} /\ c.entity = s.entity /\ c.new = s.new /\ c.old = s.old
          /\ c.at = clock /\ clock \in Nat
      BY <1>1, <1>4, <3>1, <3>2, AuditAssumption DEF Record, Inserts, IInv, TypeOK
    <3>4. \A d \in records : d.at <= c.at
      BY <3>3 DEF IInv, Stamped
    <3> QED BY <1>1, <1>4, <3>3, <3>4, FollowsStep DEF Inserts
  <2>2. CASE s.inserted = req[r].inserted /\ (s.user \/ s.failed)
    BY <1>1, <1>2, <1>4, <2>2, FollowsStep DEF Inserts
  <2> QED BY <1>4, <2>1, <2>2 DEF Inserts
<1> QED BY <1>3, <1>4


LEMMA EndsTypes ==
  ASSUME IInv, NEW r \in Request, NEW s, Ends(r, s), Tells(r, s)
  PROVE  TypeOK'
<1>1. TypeOK /\ req \in [Request -> {Idle} \cup Write \cup Answered]
  BY DEF IInv, TypeOK
<1>2. req' \in [Request -> {Idle} \cup Write \cup Answered]
  BY <1>1 DEF Ends
<1>3. versions' \in [Entity -> Seq(1..MaxWrites)] /\ records' \subseteq ChangeRecord
  <2>1. CASE UNCHANGED <<versions, records>>
    BY <1>1, <2>1 DEF TypeOK
  <2>2. CASE Commits(r)
    <3> USE <2>2 DEF Commits
    <3>1. req[r].entity \in Entity /\ req[r].new \in 1..MaxWrites
      BY <1>1, <2>2, AuditAssumption DEF Write, IInv, Shaped, TypeOK
    <3>2. PICK v \in Seq(1..MaxWrites) : v = versions[req[r].entity]
      BY <1>1, <3>1 DEF TypeOK
    <3>3. Append(v, req[r].new) \in Seq(1..MaxWrites)
      BY <3>1
    <3>4. req[r].inserted \subseteq ChangeRecord
      BY <2>2 DEF Write
    <3> QED BY <1>1, <2>2, <3>2, <3>3, <3>4 DEF TypeOK
  <2> QED BY <2>1, <2>2 DEF Ends
<1>4. answers' \subseteq Answer
  <2>1. req[r] \in Write => Done(r) \in Answer
    BY DEF Done, Answer, Write
  <2> QED BY <1>1, <2>1 DEF TypeOK, Tells
<1>5. log' \subseteq AccessLog
  <2>1. req[r].pc = "answered" => req[r] \in Answered
    BY <1>1, Kinds
  <2>2. req[r].pc = "answered" => [new |-> req[r].new, status |-> req[r].status] \in AccessLog
    BY <2>1 DEF Answered, AccessLog
  <2> QED BY <1>1, <2>2 DEF TypeOK, Tells
<1> QED BY <1>1, <1>2, <1>3, <1>4, <1>5 DEF TypeOK, Ends

\* An appended version is the last, and new.
LEMMA AppendedRow ==
  ASSUME IInv, NEW r \in Request, req[r] \in Write,
         versions' = [versions EXCEPT ![req[r].entity] = Append(@, req[r].new)]
  PROVE  LET f == req[r].entity
             n == Len(versions[f])
         IN  /\ f \in Entity /\ n \in Nat /\ DOMAIN versions[f] = 1..n
             /\ DOMAIN versions'[f] = 1..(n + 1) /\ versions'[f][n + 1] = req[r].new
             /\ \A i \in 1..n : versions'[f][i] = versions[f][i]
             /\ \A e \in Entity : e # f => versions'[e] = versions[e]
             /\ Row(f) = IF n = 0 THEN Nothing ELSE versions[f][n]
<1> DEFINE f == req[r].entity
<1>1. /\ f \in Entity /\ versions \in [Entity -> Seq(1..MaxWrites)]
      /\ req[r].new \in 1..MaxWrites
  <2>1. req[r].new \in 1..count /\ count \in 0..MaxWrites
    BY DEF IInv, TypeOK, Shaped
  <2>2. req[r].new \in 1..MaxWrites
    BY <2>1, AuditAssumption
  <2> QED BY <2>2 DEF IInv, TypeOK, Write
<1>2. PICK v \in Seq(1..MaxWrites), x \in 1..MaxWrites : v = versions[f] /\ x = req[r].new
  BY <1>1
<1>3. versions'[f] = Append(v, x) /\ \A e \in Entity : e # f => versions'[e] = versions[e]
  BY <1>1, <1>2
<1>4. /\ DOMAIN Append(v, x) = 1..(Len(v) + 1) /\ Append(v, x)[Len(v) + 1] = x
      /\ Len(v) \in Nat /\ DOMAIN v = 1..Len(v)
      /\ \A i \in 1..Len(v) : Append(v, x)[i] = v[i]
  OBVIOUS
<1>5. Row(f) = IF Len(v) = 0 THEN Nothing ELSE v[Len(v)]
  BY <1>2, EmptySeq DEF Row, Last
<1> QED BY <1>1, <1>2, <1>3, <1>4, <1>5


LEMMA EndsStep == \A r \in Request : \A s : IInv /\ Ends(r, s) /\ Tells(r, s) => IInv'
<1> SUFFICES ASSUME NEW r \in Request, NEW s, IInv, Ends(r, s), Tells(r, s) PROVE IInv'
  OBVIOUS
<1>1. /\ req \in [Request -> {Idle} \cup Write \cup Answered]
      /\ s \in {Idle} \cup Answered /\ req' = [req EXCEPT ![r] = s]
      /\ UNCHANGED <<clock, count, overlap>>
      /\ records \subseteq records' /\ answers \subseteq answers'
  BY DEF IInv, TypeOK, Ends, Tells, Commits
<1>2. /\ \A q \in Request : q # r => req'[q] = req[q]
      /\ req'[r] = s /\ s \notin Write /\ s.pc \in {"idle", "answered"}
  <2>1. s \notin Write /\ s.pc \in {"idle", "answered"}
    BY <1>1, Kinds DEF Idle
  <2> QED BY <1>1, <2>1
<1>3. TypeOK'
  BY EndsTypes
<1>4. Shaped'
  BY <1>1, <1>2 DEF IInv, Shaped
<1>5. Exclusive'
  BY <1>2 DEF IInv, Exclusive
<1>6. Reported'
  <2>1. \A n : Findable(n) => Findable(n)'
    BY <1>1 DEF Findable
  <2>2. s.pc = "answered" /\ ~s.user /\ s.status = 200 => Findable(s.new)'
    <3> SUFFICES ASSUME s.pc = "answered", ~s.user, s.status = 200 PROVE Findable(s.new)'
      OBVIOUS
    <3>1. /\ answers' = answers \cup {Done(r)} /\ req[r] \in Write /\ req[r].pc = "recorded"
          /\ EndTransaction(r) /\ s.new = req[r].new /\ s.user = req[r].user
      <4>1. s # Idle
        BY DEF Idle
      <4> QED BY <4>1 DEF Tells
    <3>2. PICK a : a = Done(r)
      OBVIOUS
    <3>3. a.new = s.new /\ a \in answers' /\ a.failed = req[r].failed
      BY <3>1, <3>2 DEF Done
    <3>4. ~req[r].failed => \E c \in records' : c.new = s.new
      BY <3>1 DEF EndTransaction, IInv, Shaped
    <3> QED BY <3>3, <3>4 DEF Findable
  <2> QED BY <1>2, <2>1, <2>2 DEF IInv, Reported
<1>7. LogFindsRecords'
  <2>1. \A n : Findable(n) => Findable(n)'
    BY <1>1 DEF Findable
  <2>2. \A l \in log : l.status = 200 => Findable(l.new)
    BY DEF IInv, LogFindsRecords, Findable
  <2>3. \A l \in log' : l.status = 200 => l \in log \/ Findable(l.new)
    <3>1. CASE UNCHANGED log
      BY <3>1
    <3>2. CASE /\ req[r].pc = "answered" /\ ~req[r].user
               /\ log' = log \cup {[new |-> req[r].new, status |-> req[r].status]}
      BY <3>2 DEF IInv, Reported
    <3> QED BY <3>1, <3>2 DEF Tells
  <2>4. \A l \in log' : l.status = 200 => Findable(l.new)'
    BY <2>1, <2>2, <2>3
  <2> QED BY <2>4 DEF LogFindsRecords, Findable
<1>8. CASE UNCHANGED <<versions, records>> /\ ~Commits(r)
  <2>1. Fresh' /\ Stamped' /\ Committed' /\ Ordered'
    <3>1. Fresh'
      BY <1>1, <1>2, <1>8 DEF IInv, Fresh
    <3>2. Stamped'
      BY <1>1, <1>2, <1>8 DEF IInv, Stamped
    <3>3. Committed' /\ Ordered'
      BY <1>8 DEF IInv, Committed, Ordered
    <3> QED BY <3>1, <3>2, <3>3
  <2>2. AnsweredWritesHold'
    BY <1>1, <1>8 DEF IInv, AnsweredWritesHold, Tells, EndTransaction, Done, Commits
  <2>3. Serial'
    <3>1. \A e : Row(e)' = Row(e)
      BY <1>8 DEF Row
    <3> QED BY <1>1, <1>2, <1>8, <3>1 DEF IInv, Serial, Chained
  <2> QED BY <1>3, <1>4, <1>5, <1>6, <1>7, <2>1, <2>2, <2>3 DEF IInv
<1>9. CASE Commits(r)
  <2> USE <1>9 DEF Commits
  <2>1. PICK f \in Entity, n \in Nat, x \in 1..count :
          /\ f = req[r].entity /\ x = req[r].new
          /\ DOMAIN versions[f] = 1..n
          /\ DOMAIN versions'[f] = 1..(n + 1) /\ versions'[f][n + 1] = x
          /\ \A i \in 1..n : versions'[f][i] = versions[f][i]
          /\ \A e \in Entity : e # f => versions'[e] = versions[e]
          /\ Row(f) = IF n = 0 THEN Nothing ELSE versions[f][n]
    <3>1. req[r].new \in 1..count
      BY <1>9 DEF IInv, Shaped
    <3> DEFINE f == req[r].entity
               n == Len(versions[f])
    <3>2. /\ f \in Entity /\ n \in Nat /\ DOMAIN versions[f] = 1..n
          /\ DOMAIN versions'[f] = 1..(n + 1) /\ versions'[f][n + 1] = req[r].new
          /\ \A i \in 1..n : versions'[f][i] = versions[f][i]
          /\ \A e \in Entity : e # f => versions'[e] = versions[e]
          /\ Row(f) = IF n = 0 THEN Nothing ELSE versions[f][n]
      BY <1>9, AppendedRow
    <3> HIDE DEF n
    <3> QED BY <3>1, <3>2
  <2>2. /\ \A c \in req[r].inserted : /\ c.entity = f /\ c.new = x /\ c.old = req[r].old
                                      /\ c.at <= clock
        /\ \A c \in req[r].inserted, d \in records : d.entity = c.entity => d.at <= c.at
        /\ \A e \in Entity : \A i \in DOMAIN versions[e] : versions[e][i] # x
    BY <1>9, <2>1 DEF IInv, Shaped, Stamped, Fresh
  <2>3. \A c \in records : c.entity \in Entity
    BY DEF IInv, TypeOK, ChangeRecord
  <2>4. Fresh'
    BY <1>1, <1>2, <1>9, <2>1 DEF IInv, Fresh
  <2>5. Stamped'
    <3>1. \A q \in Request : q # r /\ req[q].pc = "recorded" => req[q].entity # f /\ req[q] \in Write
      BY <1>1, <1>9, <2>1, Kinds DEF IInv, Exclusive, Pcs
    <3>2. \A q \in Request : q # r /\ req[q].pc = "recorded" =>
            \A c \in req[q].inserted : c.entity # f
      BY <3>1 DEF IInv, Shaped
    <3> QED BY <1>1, <1>2, <1>9, <2>2, <3>2 DEF IInv, Stamped
  <2>6. Committed'
    <3> SUFFICES ASSUME NEW c \in records'
                 PROVE  \E i \in DOMAIN versions'[c.entity] : versions'[c.entity][i] = c.new
      BY DEF Committed
    <3>1. CASE c \in records
      BY <2>1, <2>3, <3>1 DEF IInv, Committed
    <3>2. CASE c \in req[r].inserted
      <4>1. n + 1 \in 1..(n + 1)
        BY <2>1
      <4> QED BY <2>1, <2>2, <3>2, <4>1
    <3> QED BY <1>9, <3>1, <3>2
  <2>7. \A c \in records : c.new # x
    BY <2>2, <2>3 DEF IInv, Committed
  <2>8. Ordered'
    <3> SUFFICES ASSUME NEW c \in records', NEW d \in records', c.entity = d.entity,
                        NEW i \in DOMAIN versions'[c.entity], NEW j \in DOMAIN versions'[c.entity],
                        versions'[c.entity][i] = c.new, versions'[c.entity][j] = d.new, i < j
                 PROVE  c.at <= d.at
      BY DEF Ordered
    <3>1. CASE c \in records /\ d \in records
      <4>1. CASE c.entity = f
        <5>1. i # n + 1 /\ j # n + 1
          BY <2>1, <2>7, <3>1, <4>1
        <5>2. i \in 1..n /\ j \in 1..n
          BY <2>1, <4>1, <5>1
        <5>3. /\ i \in DOMAIN versions[c.entity] /\ versions[c.entity][i] = c.new
              /\ j \in DOMAIN versions[c.entity] /\ versions[c.entity][j] = d.new
          BY <2>1, <4>1, <5>2
        <5>4. Ordered
          BY DEF IInv
        <5> QED BY <3>1, <5>3, <5>4 DEF Ordered
      <4>2. CASE c.entity # f
        BY <2>1, <2>3, <3>1, <4>2 DEF IInv, Ordered
      <4> QED BY <4>1, <4>2
    <3>2. CASE c \in req[r].inserted
      <4>1. c.entity = f /\ c.new = x
        BY <2>2, <3>2
      <4>2. i \in 1..(n + 1) /\ j \in 1..(n + 1)
        BY <2>1, <4>1
      <4>3. i \in 1..n => versions[f][i] # x
        BY <2>1, <2>2
      <4>4. i \notin 1..n
        BY <2>1, <4>1, <4>3
      <4> QED BY <2>1, <4>2, <4>4
    <3>3. CASE c \in records /\ d \in req[r].inserted
      BY <2>2, <3>3
    <3> QED BY <1>9, <3>1, <3>2, <3>3
  <2>9. AnsweredWritesHold'
    <3>1. \A a \in answers' : \/ a.failed
                              \/ a.new = x /\ a.entity = f
                              \/ \E i \in DOMAIN versions[a.entity] : versions[a.entity][i] = a.new
      <4>1. \A a \in answers : \/ a.failed
                               \/ \E i \in DOMAIN versions[a.entity] : versions[a.entity][i] = a.new
        BY DEF IInv, AnsweredWritesHold, ToSet
      <4>2. \A a \in answers' : a \in answers \/ (a.new = x /\ a.entity = f)
        BY <2>1 DEF Tells, Done
      <4> QED BY <4>1, <4>2
    <3>2. \A a \in answers' : a.entity \in Entity
      BY <1>3 DEF TypeOK, Answer
    <3>3. n + 1 \in 1..(n + 1)
      BY <2>1
    <3> QED BY <2>1, <3>1, <3>2, <3>3 DEF AnsweredWritesHold, ToSet
  <2>10. Serial'
    <3>1. CASE overlap
      BY <1>1, <3>1 DEF Serial
    <3>2. CASE ~overlap
      <4>1. \A q \in Request : req'[q] \notin Write
        BY <1>2, <1>9, <3>2 DEF IInv, Serial
      <4>2. req[r].old = IF n = 0 THEN Nothing ELSE versions[f][n]
        BY <1>9, <2>1, <3>2 DEF IInv, Serial
      <4>3. Chained'
        <5> SUFFICES ASSUME NEW c \in records', NEW i \in DOMAIN versions'[c.entity],
                            versions'[c.entity][i] = c.new
                     PROVE  c.old = IF i = 1 THEN Nothing ELSE versions'[c.entity][i - 1]
          BY DEF Chained
        <5>1. CASE c \in records /\ c.entity # f
          <6>1. versions'[c.entity] = versions[c.entity]
            BY <2>1, <2>3, <5>1
          <6>2. Chained
            BY <3>2 DEF IInv, Serial
          <6> QED BY <5>1, <6>1, <6>2 DEF Chained
        <5>2. CASE c \in records /\ c.entity = f
          <6>1. i \in 1..n
            BY <2>1, <2>7, <5>2
          <6>2. i # 1 => i - 1 \in 1..n
            BY <6>1
          <6>3. versions[f][i] = c.new
            BY <2>1, <5>2, <6>1
          <6>4. c.old = IF i = 1 THEN Nothing ELSE versions[f][i - 1]
            <7>1. Chained
              BY <3>2 DEF IInv, Serial
            <7>2. c.entity = f /\ i \in DOMAIN versions[f]
              BY <2>1, <5>2, <6>1
            <7> QED BY <5>2, <6>3, <7>1, <7>2 DEF Chained
          <6> QED BY <2>1, <5>2, <6>2, <6>4
        <5>3. CASE c \in req[r].inserted
          <6>1. c.entity = f /\ c.new = x /\ c.old = req[r].old
            BY <2>2, <5>3
          <6>2. i \notin 1..n
            BY <2>1, <2>2, <6>1
          <6>3. i = n + 1
            BY <2>1, <6>1, <6>2
          <6>4. n # 0 => n \in 1..n
            OBVIOUS
          <6> QED BY <2>1, <4>2, <6>1, <6>3, <6>4
        <5> QED BY <1>9, <5>1, <5>2, <5>3
      <4> QED BY <4>1, <4>3 DEF Serial
    <3> QED BY <3>1, <3>2
  <2> QED BY <1>3, <1>4, <1>5, <1>6, <1>7, <2>4, <2>5, <2>6, <2>8, <2>9, <2>10 DEF IInv
<1> QED BY <1>8, <1>9 DEF Ends


LEMMA UncapturedStep ==
  \A r \in Request, e \in Entity, user \in BOOLEAN :
    IInv /\ WriteUncaptured(r, e, user) => IInv'
<1> SUFFICES ASSUME NEW r \in Request, NEW e \in Entity, NEW user \in BOOLEAN,
                    IInv, WriteUncaptured(r, e, user)
             PROVE  IInv'
  OBVIOUS
<1>1. PICK x, s, a :
        /\ x = count + 1
        /\ s = [pc |-> "answered", new |-> x, user |-> user, status |-> 200]
        /\ a = [entity |-> e, new |-> x, captured |-> FALSE, failed |-> FALSE]
  OBVIOUS
<1>2. /\ req \in [Request -> {Idle} \cup Write \cup Answered] /\ req[r] = Idle
      /\ count < MaxWrites /\ count' = x /\ count \in Nat
      /\ x \in 1..MaxWrites /\ x \in Values
      /\ versions' = [versions EXCEPT ![e] = Append(@, x)]
      /\ answers' = answers \cup {a} /\ req' = [req EXCEPT ![r] = s]
      /\ overlap' = (overlap \/ Overlapping)
      /\ UNCHANGED <<records, log, clock>>
  BY <1>1, AuditAssumption
     DEF IInv, TypeOK, WriteUncaptured, Answering, Become, Busy, Values, Nothing
<1>3. /\ s \in Answered /\ s \notin Write /\ s.pc = "answered" /\ s.new = x
      /\ \A q \in Request : q # r => req'[q] = req[q]
      /\ req'[r] = s
  <2>1. s \in Answered
    BY <1>1, <1>2 DEF Answered, Status
  <2> QED BY <1>1, <1>2, <2>1, Kinds DEF Pcs
<1>4. PICK n \in Nat :
        /\ versions' \in [Entity -> Seq(1..MaxWrites)]
        /\ DOMAIN versions[e] = 1..n
        /\ DOMAIN versions'[e] = 1..(n + 1) /\ versions'[e][n + 1] = x
        /\ \A i \in 1..n : versions'[e][i] = versions[e][i]
        /\ \A f \in Entity : f # e => versions'[f] = versions[f]
  <2>1. versions \in [Entity -> Seq(1..MaxWrites)]
    BY DEF IInv, TypeOK
  <2>2. PICK v \in Seq(1..MaxWrites) : v = versions[e]
    BY <2>1
  <2>3. /\ DOMAIN Append(v, x) = 1..(Len(v) + 1) /\ Append(v, x)[Len(v) + 1] = x
        /\ Len(v) \in Nat /\ DOMAIN v = 1..Len(v) /\ Append(v, x) \in Seq(1..MaxWrites)
        /\ \A i \in 1..Len(v) : Append(v, x)[i] = v[i]
    BY <1>2
  <2>4. versions'[e] = Append(v, x) /\ \A f \in Entity : f # e => versions'[f] = versions[f]
    BY <1>2, <2>1, <2>2
  <2>5. versions' \in [Entity -> Seq(1..MaxWrites)]
    BY <1>2, <2>1, <2>2, <2>3
  <2> QED BY <2>2, <2>3, <2>4, <2>5
<1>4a. ASSUME NEW f \in Entity
       PROVE  /\ \A i \in DOMAIN versions[f] :
                   i \in DOMAIN versions'[f] /\ versions'[f][i] = versions[f][i]
              /\ \A i \in DOMAIN versions'[f] :
                   \/ versions'[f][i] = x
                   \/ i \in DOMAIN versions[f] /\ versions'[f][i] = versions[f][i]
  <2>1. CASE f = e
    <3>1. \A i \in 1..n : i \in 1..(n + 1)
      BY <1>4
    <3>2. \A i \in 1..(n + 1) : i = n + 1 \/ i \in 1..n
      BY <1>4
    <3> QED BY <1>4, <2>1, <3>1, <3>2
  <2>2. CASE f # e
    BY <1>4, <2>2
  <2> QED BY <2>1, <2>2
<1>5. \A f \in Entity : \A i \in DOMAIN versions[f] : versions[f][i] # x
  BY <1>1, <1>2 DEF IInv, Fresh
<1>6. \A c \in records : c.entity \in Entity /\ c.new # x
  BY <1>5 DEF IInv, Committed, TypeOK, ChangeRecord
<1>7. TypeOK'
  <2>1. a \in Answer
    BY <1>1, <1>2 DEF Answer
  <2>2. overlap' \in BOOLEAN
    BY <1>2 DEF IInv, TypeOK, Overlapping
  <2> QED BY <1>2, <1>3, <1>4, <2>1, <2>2 DEF IInv, TypeOK
<1>8. Shaped'
  BY <1>1, <1>2, <1>3 DEF IInv, Shaped
<1>9. Fresh'
  <2>1. \A q \in Request : req'[q] \in Write => q # r /\ req[q] \in Write /\ req'[q] = req[q]
                                                /\ req[q].new # x
    BY <1>1, <1>2, <1>3 DEF IInv, Shaped
  <2>2. \A f \in Entity : \A i \in DOMAIN versions'[f] :
          \/ versions'[f][i] = x
          \/ i \in DOMAIN versions[f] /\ versions'[f][i] = versions[f][i]
    BY <1>4a
  <2>3. \A f \in Entity : \A i \in DOMAIN versions[f] : versions[f][i] \in Nat
    BY VersionsAreNumbers DEF IInv
  <2>4. (\A f \in Entity : \A i \in DOMAIN versions[f] : versions[f][i] <= count)'
    BY <1>1, <1>2, <2>2, <2>3 DEF IInv, Fresh
  <2>5. (\A q \in Request : req[q] \in Write =>
           \A f \in Entity : \A i \in DOMAIN versions[f] : versions[f][i] # req[q].new)'
    BY <2>1, <2>2 DEF IInv, Fresh
  <2> QED BY <2>1, <2>4, <2>5 DEF IInv, Fresh
<1>10. Exclusive' /\ Stamped'
  <2>1. Exclusive'
    BY <1>3 DEF IInv, Exclusive
  <2>2. Stamped'
    BY <1>2, <1>3 DEF IInv, Stamped
  <2> QED BY <2>1, <2>2
<1>11. Committed'
  <2>1. ASSUME NEW c \in records
        PROVE  \E i \in DOMAIN versions'[c.entity] : versions'[c.entity][i] = c.new
    <3>1. PICK i \in DOMAIN versions[c.entity] : versions[c.entity][i] = c.new
      BY DEF IInv, Committed
    <3> QED BY <1>6, <1>4a, <3>1
  <2> QED BY <1>2, <2>1 DEF Committed
<1>12. \A c \in records : \A i \in DOMAIN versions'[c.entity] :
         versions'[c.entity][i] = c.new => /\ i \in DOMAIN versions[c.entity]
                                           /\ versions[c.entity][i] = c.new
  <2> SUFFICES ASSUME NEW c \in records, NEW i \in DOMAIN versions'[c.entity],
                      versions'[c.entity][i] = c.new
               PROVE  i \in DOMAIN versions[c.entity] /\ versions[c.entity][i] = c.new
    OBVIOUS
  <2>1. PICK f \in Entity : f = c.entity /\ c.new # x
    BY <1>6
  <2>2. versions'[f][i] = x \/ (i \in DOMAIN versions[f] /\ versions'[f][i] = versions[f][i])
    BY <1>4a, <2>1
  <2> QED BY <2>1, <2>2
<1>13. Ordered'
  <2> SUFFICES ASSUME NEW c \in records, NEW d \in records, c.entity = d.entity,
                      NEW i \in DOMAIN versions'[c.entity], NEW j \in DOMAIN versions'[c.entity],
                      versions'[c.entity][i] = c.new, versions'[c.entity][j] = d.new, i < j
               PROVE  c.at <= d.at
    BY <1>2 DEF Ordered
  <2>1. i \in DOMAIN versions[c.entity] /\ versions[c.entity][i] = c.new
    BY <1>12
  <2>2. j \in DOMAIN versions[c.entity] /\ versions[c.entity][j] = d.new
    BY <1>12
  <2> QED BY <2>1, <2>2 DEF IInv, Ordered
<1>14. AnsweredWritesHold'
  <2> SUFFICES ASSUME NEW b \in answers', ~b.failed
               PROVE  \E i \in DOMAIN versions'[b.entity] : versions'[b.entity][i] = b.new
    BY DEF AnsweredWritesHold, ToSet
  <2>1. CASE b = a
    <3>1. n + 1 \in 1..(n + 1)
      BY <1>4
    <3> QED BY <1>1, <1>4, <2>1, <3>1
  <2>2. CASE b \in answers
    <3>1. b.entity \in Entity /\ \E i \in DOMAIN versions[b.entity] : versions[b.entity][i] = b.new
      BY <2>2 DEF IInv, TypeOK, Answer, AnsweredWritesHold, ToSet
    <3> QED BY <1>4, <3>1
  <2> QED BY <1>2, <2>1, <2>2
<1>15. Reported' /\ LogFindsRecords'
  <2>1. \A m : Findable(m) => Findable(m)'
    BY <1>2 DEF Findable
  <2>2. Findable(x)'
    BY <1>1, <1>2 DEF Findable
  <2>3. Reported'
    BY <1>3, <2>1, <2>2 DEF IInv, Reported
  <2>4. \A l \in log : l.status = 200 => Findable(l.new)
    BY DEF IInv, LogFindsRecords, Findable
  <2>5. LogFindsRecords'
    BY <1>2, <2>1, <2>4 DEF LogFindsRecords, Findable
  <2> QED BY <2>3, <2>5
<1>16. Serial'
  <2>1. CASE overlap \/ \E q \in Request : req[q] \in Write
    <3>1. overlap'
      BY <1>2, <2>1, Kinds DEF Overlapping, Writing, Busy, At
    <3> QED BY <3>1 DEF Serial
  <2>2. CASE ~overlap /\ \A q \in Request : req[q] \notin Write
    <3>1. \A q \in Request : req'[q] \notin Write
      BY <1>3, <2>2
    <3>2. Chained'
      <4> SUFFICES ASSUME NEW c \in records, NEW i \in DOMAIN versions'[c.entity],
                          versions'[c.entity][i] = c.new
                   PROVE  c.old = IF i = 1 THEN Nothing ELSE versions'[c.entity][i - 1]
        BY <1>2 DEF Chained
      <4>1. i \in DOMAIN versions[c.entity] /\ versions[c.entity][i] = c.new
        BY <1>12
      <4>2. c.old = IF i = 1 THEN Nothing ELSE versions[c.entity][i - 1]
        BY <2>2, <4>1 DEF IInv, Serial, Chained
      <4>3. CASE c.entity = e
        <5>1. i \in 1..n /\ (i # 1 => i - 1 \in 1..n)
          BY <1>4, <4>1, <4>3
        <5> QED BY <1>4, <4>2, <4>3, <5>1
      <4>4. CASE c.entity # e
        BY <1>4, <1>6, <4>2, <4>4
      <4> QED BY <4>3, <4>4
    <3> QED BY <3>1, <3>2 DEF Serial
  <2> QED BY <2>1, <2>2
<1> QED BY <1>7, <1>8, <1>9, <1>10, <1>11, <1>13, <1>14, <1>15, <1>16 DEF IInv


LEMMA AlterStep == \A r \in Request, user \in BOOLEAN : IInv /\ Alter(r, user) => IInv'
<1> SUFFICES ASSUME NEW r \in Request, NEW user \in BOOLEAN, IInv, Alter(r, user) PROVE IInv'
  OBVIOUS
<1>1. \E status \in {403, 500} : Answering(r, count + 1, user, status)
  <2>1. (IF user THEN {500} ELSE {}) \subseteq {500}
    OBVIOUS
  <2> QED BY <2>1 DEF Alter
<1>1a. PICK status \in {403, 500} : Answering(r, count + 1, user, status)
  BY <1>1
<1> DEFINE x == count + 1
           s == [pc |-> "answered", new |-> x, user |-> user, status |-> status]
<1>2. /\ x = count + 1 /\ s = [pc |-> "answered", new |-> x, user |-> user, status |-> status]
      /\ req' = [req EXCEPT ![r] = s]
  BY <1>1a DEF Answering, Become
<1> HIDE DEF x, s
<1>3. /\ req \in [Request -> {Idle} \cup Write \cup Answered]
      /\ count \in Nat /\ count' = count + 1 /\ count' \in 0..MaxWrites /\ count' \in Values
      /\ UNCHANGED <<versions, records, log, clock, answers, overlap>>
  BY AuditAssumption DEF IInv, TypeOK, Alter, Values, Nothing
<1>4. s \in Answered /\ s \notin Write /\ s.pc = "answered" /\ s.status # 200
  <2>1. s \in Answered
    BY <1>2, <1>3 DEF Answered, Status
  <2> QED BY <1>2, <2>1, Kinds DEF Pcs
<1>5. req'[r] = s /\ \A q \in Request : q # r => req'[q] = req[q]
  BY <1>1, <1>2, <1>3
<1>6. TypeOK'
  BY <1>1, <1>2, <1>3, <1>4 DEF IInv, TypeOK
<1>7. Shaped'
  BY <1>3, <1>4, <1>5 DEF IInv, Shaped
<1>8. Fresh'
  <2>1. \A e \in Entity : \A i \in DOMAIN versions[e] : versions[e][i] \in Nat
    BY VersionsAreNumbers DEF IInv
  <2>2. (\A e \in Entity : \A i \in DOMAIN versions[e] : versions[e][i] <= count)'
    BY <1>3, <2>1 DEF IInv, Fresh
  <2> QED BY <1>3, <1>4, <1>5, <2>2 DEF IInv, Fresh
<1>9. Exclusive'
  BY <1>4, <1>5 DEF IInv, Exclusive
<1>10. Stamped'
  BY <1>3, <1>4, <1>5 DEF IInv, Stamped
<1>11. Committed' /\ Ordered' /\ AnsweredWritesHold' /\ LogFindsRecords'
  BY <1>3 DEF IInv, Committed, Ordered, AnsweredWritesHold, LogFindsRecords
<1>12. Reported'
  BY <1>3, <1>4, <1>5 DEF IInv, Reported, Findable
<1>13. Serial'
  BY <1>3, <1>4, <1>5 DEF IInv, Serial, Chained, Row
<1> QED BY <1>6, <1>7, <1>8, <1>9, <1>10, <1>11, <1>12, <1>13 DEF IInv

LEMMA TickStep == IInv /\ Tick => IInv'
<1> SUFFICES ASSUME IInv, Tick PROVE IInv'
  OBVIOUS
<1>1. /\ clock \in Nat /\ clock' = clock + 1 /\ clock' \in 0..MaxClock
      /\ UNCHANGED <<versions, records, log, req, count, answers, overlap>>
  BY AuditAssumption DEF IInv, TypeOK, Tick
<1>2. TypeOK'
  BY <1>1 DEF IInv, TypeOK
<1>3. \A c \in records : c.at \in Nat
  BY AuditAssumption DEF IInv, TypeOK, ChangeRecord
<1>4. \A r \in Request : req[r] \in Write => \A c \in req[r].inserted : c.at \in Nat
  BY AuditAssumption DEF Write, ChangeRecord
<1>5. Shaped'
  BY <1>1, <1>4 DEF IInv, Shaped
<1>6. Stamped'
  BY <1>1, <1>3 DEF IInv, Stamped
<1>7. Fresh' /\ Exclusive' /\ Committed' /\ Ordered' /\ AnsweredWritesHold' /\ LogFindsRecords'
  BY <1>1 DEF IInv, Fresh, Exclusive, Committed, Ordered, AnsweredWritesHold, LogFindsRecords
<1>8. Reported' /\ Serial'
  BY <1>1 DEF IInv, Reported, Findable, Serial, Chained, Row
<1> QED BY <1>2, <1>5, <1>6, <1>7, <1>8 DEF IInv

-----------------------------------------------------------------------------
LEMMA InitInv == Init => IInv
<1> SUFFICES ASSUME Init PROVE IInv
  OBVIOUS
<1>1. /\ \A e \in Entity : versions[e] = <<>>
      /\ \A r \in Request : req[r] = Idle /\ req[r].pc = "idle"
      /\ records = {} /\ log = {} /\ clock = 0 /\ count = 0 /\ answers = {} /\ overlap = FALSE
  BY DEF Init, Idle
<1>2. \A r \in Request : req[r] \notin Write
  BY <1>1 DEF Write
<1>3. TypeOK
  <2>1. <<>> \in Seq(1..MaxWrites)
    OBVIOUS
  <2>2. versions \in [Entity -> Seq(1..MaxWrites)]
    BY <2>1 DEF Init
  <2>3. req \in [Request -> {Idle} \cup Write \cup Answered]
    BY DEF Init
  <2>4. clock \in 0..MaxClock /\ count \in 0..MaxWrites
    BY <1>1, AuditAssumption
  <2> QED BY <1>1, <2>2, <2>3, <2>4 DEF TypeOK
<1>4. Shaped /\ Fresh /\ Exclusive /\ Stamped
  BY <1>1, <1>2 DEF Shaped, Fresh, Exclusive, Stamped
<1>5. Committed /\ Ordered /\ AnsweredWritesHold /\ Reported /\ LogFindsRecords /\ Serial
  BY <1>1, <1>2
     DEF Committed, Ordered, AnsweredWritesHold, Reported, LogFindsRecords, Serial, Chained
<1> QED BY <1>3, <1>4, <1>5 DEF IInv

LEMMA NextInv == IInv /\ [Next]_vars => IInv'
<1> SUFFICES ASSUME IInv, [Next]_vars PROVE IInv'
  OBVIOUS
<1>1. CASE Next
  <2>1. TypeOK
    BY DEF IInv
  <2> QED BY <1>1, <2>1, Normal, BeginsStep, MovesStep, EndsStep, UncapturedStep, AlterStep, TickStep
<1>2. CASE UNCHANGED vars
  <2>1. TypeOK' /\ Shaped' /\ Fresh' /\ Exclusive' /\ Stamped'
    BY <1>2 DEF vars, IInv, TypeOK, Shaped, Fresh, Exclusive, Stamped
  <2>2. Committed' /\ Ordered' /\ AnsweredWritesHold' /\ LogFindsRecords'
    BY <1>2 DEF vars, IInv, Committed, Ordered, AnsweredWritesHold, LogFindsRecords
  <2>3. Reported' /\ Serial'
    BY <1>2 DEF vars, IInv, Reported, Findable, Serial, Chained, Row
  <2> QED BY <2>1, <2>2, <2>3 DEF IInv
<1> QED BY <1>1, <1>2

\* The invariant the results below rest on: what each transaction holds, the
\* row locks, and the order of the records under them.
THEOREM Invariance == Spec => []IInv
<1> QED BY InitInv, NextInv, PTL DEF Spec

\* The tables, the requests and the answers keep their types.
THEOREM TypeCorrect == Spec => []TypeOK
<1>1. IInv => TypeOK
  BY DEF IInv
<1> QED BY Invariance, <1>1, PTL

\* Whatever aborts, times out or stops, a change record tells of a committed
\* write (the record is inserted in the transaction of cdc.extension.ts).
THEOREM RecordsStayTrue == Spec => []RecordsAreTrue
<1>1. IInv => RecordsAreTrue
  BY DEF IInv, Committed, RecordsAreTrue, ToSet
<1> QED BY Invariance, <1>1, PTL

\* The timestamps of an entity's records follow its changes: the record is
\* inserted under the row's lock.
THEOREM Timestamps == Spec => []TimestampsFollowChanges
<1>1. IInv => TimestampsFollowChanges
  <2> SUFFICES ASSUME IInv, NEW c \in records, NEW d \in records, c.entity = d.entity,
                      Position(c.entity, c.new) < Position(c.entity, d.new)
               PROVE  c.at <= d.at
    BY DEF TimestampsFollowChanges
  <2>1. /\ \E i \in DOMAIN versions[c.entity] : versions[c.entity][i] = c.new
        /\ \E i \in DOMAIN versions[c.entity] : versions[c.entity][i] = d.new
    BY DEF IInv, Committed
  <2>2. PICK i, j : i = Position(c.entity, c.new) /\ j = Position(c.entity, d.new)
    OBVIOUS
  <2>3. i \in DOMAIN versions[c.entity] /\ versions[c.entity][i] = c.new
    BY <2>1, <2>2 DEF Position
  <2>4. j \in DOMAIN versions[c.entity] /\ versions[c.entity][j] = d.new
    BY <2>1, <2>2 DEF Position
  <2> QED BY <2>2, <2>3, <2>4 DEF IInv, Ordered
<1> QED BY Invariance, <1>1, PTL

\* Requests that do not overlap record the value they replaced.
THEOREM SerialOld == Spec => []SerialOldIsPrevious
<1>1. IInv => SerialOldIsPrevious
  <2> SUFFICES ASSUME IInv, ~overlap, NEW c \in records
               PROVE  LET i == Position(c.entity, c.new) IN
                      c.old = IF i = 1 THEN Nothing ELSE versions[c.entity][i - 1]
    BY DEF SerialOldIsPrevious
  <2>1. \E i \in DOMAIN versions[c.entity] : versions[c.entity][i] = c.new
    BY DEF IInv, Committed
  <2>2. PICK i : i = Position(c.entity, c.new)
    OBVIOUS
  <2>3. i \in DOMAIN versions[c.entity] /\ versions[c.entity][i] = c.new
    BY <2>1, <2>2 DEF Position
  <2> QED BY <2>2, <2>3 DEF IInv, Serial, Chained
<1> QED BY Invariance, <1>1, PTL

\* A write that was answered is committed, unless the database failed to insert
\* its record: COMMIT then rolls it back without an error.
THEOREM AnswersHold == Spec => []AnsweredWritesHold
<1>1. IInv => AnsweredWritesHold
  BY DEF IInv
<1> QED BY Invariance, <1>1, PTL

\* The access log and the change records agree: the entry is written after the
\* answer, and the answer after the transaction.
THEOREM LogAgrees == Spec => []LogFindsRecords
<1>1. IInv => LogFindsRecords
  BY DEF IInv
<1> QED BY Invariance, <1>1, PTL

\* What is in the tables stays there.
LEMMA NextGrows == IInv /\ [Next]_vars => records \subseteq records' /\ log \subseteq log'
<1> SUFFICES ASSUME IInv, Next PROVE records \subseteq records' /\ log \subseteq log'
  BY DEF vars
<1>1. TypeOK
  BY DEF IInv
<1>2. ASSUME NEW r \in Request, NEW s,
             Begins(r, s) \/ Reads(r, s) \/ Mutates(r, s) \/ Inserts(r, s)
      PROVE  UNCHANGED <<records, log>>
  BY <1>2 DEF Begins, Reads, Mutates, Inserts, Follows, Advance
<1>3. ASSUME NEW r \in Request, NEW s, Ends(r, s), Tells(r, s)
      PROVE  records \subseteq records' /\ log \subseteq log'
  BY <1>3 DEF Ends, Commits, Tells
<1>4. ASSUME NEW r \in Request, NEW user \in BOOLEAN,
             Alter(r, user) \/ \E e \in Entity : WriteUncaptured(r, e, user)
      PROVE  UNCHANGED <<records, log>>
  BY <1>4 DEF Alter, WriteUncaptured
<1>5. Tick => UNCHANGED <<records, log>>
  BY DEF Tick
<1> QED BY <1>1, <1>2, <1>3, <1>4, <1>5, Normal

\* Nothing is taken out of the audit trail, by a delete of a user either.
THEOREM AppendOnly == Spec => TrailIsAppendOnly
<1>1. IInv /\ [Next]_vars => [records \subseteq records' /\ log \subseteq log']_vars
  BY NextGrows
<1> QED BY Invariance, <1>1, PTL DEF Spec, TrailIsAppendOnly

-----------------------------------------------------------------------------
\* Pages.

\* No two change records have an id in common, of those that open transactions
\* have inserted either.
UniqueIds ==
  /\ \A c, d \in records : c.id = d.id => c = d
  /\ \A r \in Request : req[r] \in Write => \A c \in req[r].inserted :
       /\ \A d \in req[r].inserted : c = d
       /\ \A d \in records : c.id # d.id
       /\ \A q \in Request : q # r /\ req[q] \in Write => \A d \in req[q].inserted : c.id # d.id

\* An insert draws an id that no record has; a commit only moves records.
LEMMA IdsStep == IInv /\ UniqueIds /\ [Next]_vars => UniqueIds'
<1> SUFFICES ASSUME IInv, UniqueIds, [Next]_vars PROVE UniqueIds'
  OBVIOUS
<1>0. TypeOK /\ req \in [Request -> {Idle} \cup Write \cup Answered]
  BY DEF IInv, TypeOK
<1>1. ASSUME NEW r \in Request, NEW s, req' = [req EXCEPT ![r] = s], records' = records,
             s \in Write =>
               \/ s.inserted = {}
               \/ req[r] \in Write /\ s.inserted = req[r].inserted
               \/ \E i \in FreeIds : s.inserted = {Record(r, i)}
      PROVE  UniqueIds'
  <2>1. req'[r] = s /\ \A q \in Request : q # r => req'[q] = req[q]
    BY <1>0, <1>1
  <2>2. CASE s \notin Write \/ s.inserted = {}
    BY <1>1, <2>1, <2>2 DEF UniqueIds
  <2>3. CASE req[r] \in Write /\ s.inserted = req[r].inserted
    BY <1>1, <2>1, <2>3 DEF UniqueIds
  <2>4. ASSUME NEW i \in FreeIds, s.inserted = {Record(r, i)} PROVE UniqueIds'
    <3>1. /\ \A c \in records : c.id # i
          /\ \A q \in Request : req[q] \in Write => \A c \in req[q].inserted : c.id # i
      BY <1>0, Kinds DEF FreeIds, Writing, Busy, At
    <3>2. Record(r, i).id = i
      BY DEF Record
    <3> QED BY <1>1, <2>1, <2>4, <3>1, <3>2 DEF UniqueIds
  <2> QED BY <1>1, <2>2, <2>3, <2>4
<1>2. ASSUME NEW r \in Request, NEW s, s \notin Write, req' = [req EXCEPT ![r] = s], Commits(r)
      PROVE  UniqueIds'
  <2>1. req'[r] = s /\ \A q \in Request : q # r => req'[q] = req[q]
    BY <1>0, <1>2
  <2>2. req[r] \in Write /\ records' = records \cup req[r].inserted
    BY <1>2 DEF Commits
  <2>3. (\A c, d \in records : c.id = d.id => c = d)'
    BY <2>2 DEF UniqueIds
  <2>4. \A q \in Request : req'[q] \in Write => q # r /\ req'[q] = req[q]
    BY <1>2, <2>1
  <2>5. ASSUME NEW q \in Request, req'[q] \in Write, NEW c \in req'[q].inserted
        PROVE  /\ \A d \in req'[q].inserted : c = d
               /\ \A d \in records' : c.id # d.id
               /\ \A p \in Request : p # q /\ req'[p] \in Write
                    => \A d \in req'[p].inserted : c.id # d.id
    BY <2>2, <2>4, <2>5 DEF UniqueIds
  <2> QED BY <2>3, <2>5 DEF UniqueIds
<1>3. \A s \in {Idle} \cup Answered : s \notin Write
  BY Kinds DEF Idle, Write, Answered
<1>4. CASE UNCHANGED <<req, records>>
  BY <1>4 DEF UniqueIds
<1>5. ASSUME NEW r \in Request, NEW s, Begins(r, s) \/ Reads(r, s) \/ Mutates(r, s) \/ Inserts(r, s)
      PROVE  UniqueIds'
  <2>1. records' = records /\ req' = [req EXCEPT ![r] = s]
    BY <1>5 DEF Begins, Reads, Mutates, Inserts, Follows, Advance
  <2>2. \/ s.inserted = {}
        \/ req[r] \in Write /\ s.inserted = req[r].inserted
        \/ \E i \in FreeIds : s.inserted = {Record(r, i)}
    BY <1>5 DEF Begins, Reads, Mutates, Inserts, Follows
  <2> QED BY <1>1, <2>1, <2>2
<1>6. ASSUME NEW r \in Request, NEW s, Ends(r, s) PROVE UniqueIds'
  BY <1>1, <1>2, <1>3, <1>6 DEF Ends
<1>7. ASSUME NEW r \in Request, NEW e \in Entity, NEW user \in BOOLEAN,
             WriteUncaptured(r, e, user)
      PROVE  UniqueIds'
  <2> DEFINE s == [pc |-> "answered", new |-> count + 1, user |-> user, status |-> 200]
  <2>1. s \notin Write
    BY DEF Write
  <2> QED BY <1>1, <1>7, <2>1 DEF WriteUncaptured, Answering, Become
<1>8. ASSUME NEW r \in Request, NEW user \in BOOLEAN, Alter(r, user) PROVE UniqueIds'
  <2>1. PICK status : Answering(r, count + 1, user, status)
    BY <1>8 DEF Alter
  <2> DEFINE s == [pc |-> "answered", new |-> count + 1, user |-> user, status |-> status]
  <2>2. s \notin Write
    BY DEF Write
  <2>3. req' = [req EXCEPT ![r] = s]
    BY <2>1 DEF Answering, Become
  <2>4. records' = records
    BY <1>8 DEF Alter
  <2> HIDE DEF s
  <2> QED BY <1>1, <2>2, <2>3, <2>4
<1>9. Tick \/ UNCHANGED vars => UNCHANGED <<req, records>>
  BY DEF Tick, vars
<1> QED BY <1>0, <1>4, <1>5, <1>6, <1>7, <1>8, <1>9, Normal

\* With distinct ids the two sort keys order the records completely.
LEMMA NewerIsAnOrder ==
  TypeOK /\ UniqueIds =>
    /\ \A c, d \in records : Newer(c, d) => ~Newer(d, c) /\ c # d
    /\ \A c, d \in records : c = d \/ Newer(c, d) \/ Newer(d, c)
    /\ \A b, c, d \in records : Newer(b, c) /\ Newer(c, d) => Newer(b, d)
<1> SUFFICES ASSUME TypeOK, UniqueIds
             PROVE  /\ \A c, d \in records : Newer(c, d) => ~Newer(d, c) /\ c # d
                    /\ \A c, d \in records : c = d \/ Newer(c, d) \/ Newer(d, c)
                    /\ \A b, c, d \in records : Newer(b, c) /\ Newer(c, d) => Newer(b, d)
  OBVIOUS
<1>1. \A c \in records : c.at \in Nat /\ c.id \in Nat
  BY AuditAssumption DEF TypeOK, ChangeRecord, Id
<1>2. \A c, d \in records : c.id = d.id => c = d
  BY DEF UniqueIds
<1> QED BY <1>1, <1>2 DEF Newer

\* Their ids number the records.
LEMMA RecordsAreFinite == TypeOK /\ UniqueIds => IsFiniteSet(records)
<1> SUFFICES ASSUME TypeOK, UniqueIds PROVE IsFiniteSet(records)
  OBVIOUS
<1> DEFINE id == [c \in records |-> c.id]
<1>1. id \in [records -> Id]
  BY DEF TypeOK, ChangeRecord
<1>2. \A c, d \in records : id[c] = id[d] => c = d
  BY DEF UniqueIds
<1>3. IsFiniteSet(Id)
  BY AuditAssumption, FS_Interval DEF Id
<1> HIDE DEF id
<1>4. id \in Injection(records, Id)
  BY <1>1, <1>2 DEF Injection, IsInjective
<1> QED BY <1>3, <1>4, FS_Injection

\* A listing has all the records it is asked for, each newer than the next: an
\* injection from as many positions as there are records is onto.
LEMMA ListingsAreSorted ==
  ASSUME TypeOK, UniqueIds, NEW S, S \subseteq records, NEW s \in Listings(S)
  PROVE  /\ s \in Seq(S)
         /\ \A i, j \in 1..Len(s) : i < j => Newer(s[i], s[j])
         /\ \A d \in S : \E i \in 1..Len(s) : s[i] = d
<1>1. IsFiniteSet(S) /\ Cardinality(S) \in Nat
  BY RecordsAreFinite, FS_Subset, FS_CardinalityType
<1> DEFINE D == 1..Cardinality(S)
<1>2. /\ s \in [D -> S] /\ \A i, j \in D : i # j => s[i] # s[j]
      /\ \A i, j \in DOMAIN s : i < j => ~Newer(s[j], s[i])
  BY DEF Listings, SetToSeqs
<1>3. s \in Seq(S) /\ Len(s) = Cardinality(S)
  BY <1>1, <1>2
<1>4. s \in Injection(D, S)
  <2> HIDE DEF D
  <2> QED BY <1>2 DEF Injection, IsInjective
<1>5. IsFiniteSet(D) /\ Cardinality(D) = Cardinality(S)
  BY <1>1, FS_Interval
<1>6. s \in Surjection(D, S)
  <2> HIDE DEF D
  <2> QED BY <1>1, <1>4, <1>5, FS_Injection
<1>7. \A d \in S : \E i \in D : s[i] = d
  <2> HIDE DEF D
  <2> QED BY <1>6 DEF Surjection
<1>8. ASSUME NEW i \in D, NEW j \in D, i < j PROVE Newer(s[i], s[j])
  <2>1. s[i] \in records /\ s[j] \in records /\ s[i] # s[j] /\ ~Newer(s[j], s[i])
    BY <1>2, <1>8
  <2> QED BY <2>1, NewerIsAnOrder
<1> QED BY <1>3, <1>7, <1>8

\* A page at the end of the pages before it.
LEMMA PageAppended ==
  ASSUME NEW S, NEW before \in Seq(S), NEW rows \in Seq(S), NEW k \in 0..Len(rows)
  PROVE  LET all == before \o SubSeq(rows, 1, k) IN
         /\ all \in Seq(S) /\ Len(all) = Len(before) + k
         /\ \A i \in 1..Len(before) : all[i] = before[i]
         /\ \A i \in 1..k : all[Len(before) + i] = rows[i]
<1> DEFINE page == SubSeq(rows, 1, k)
<1>1. page \in Seq(S) /\ Len(page) = k /\ \A i \in 1..k : page[i] = rows[i]
  OBVIOUS
<1> HIDE DEF page
<1>2. /\ before \o page \in Seq(S) /\ Len(before \o page) = Len(before) + k
      /\ \A i \in 1..Len(before) : (before \o page)[i] = before[i]
      /\ \A i \in 1..k : (before \o page)[Len(before) + i] = page[i]
  BY <1>1
<1> QED BY <1>1, <1>2 DEF page

\* Each newer than those after it.
Sorted(s) == \A i, j \in 1..Len(s) : i < j => Newer(s[i], s[j])

\* A sequence of pages shows a record.
Shows(s, d) == \E i \in 1..Len(s) : s[i] = d

\* The inductive invariant of a walk: what it has not shown yet is older than
\* its cursor, so that the next page cannot miss it.
WalkInv ==
  /\ seen \in Seq(records) /\ start \subseteq records
  /\ Sorted(seen)
  /\ walking => seen # <<>>
  /\ \A d \in start : Shows(seen, d) \/ (walking /\ Newer(Last(seen), d))

\* Either kind of page: what its rows held is shown, or older than the cursor it
\* leaves and still to come.
LEMMA PageStep ==
  ASSUME TypeOK, UniqueIds, NEW before \in Seq(records), NEW rows \in Seq(records),
         Sorted(before), Sorted(rows), Show(rows, before),
         \A i \in 1..Len(before), j \in 1..Len(rows) : Newer(before[i], rows[j])
  PROVE  /\ seen' \in Seq(records) /\ (walking' => seen' # <<>>)
         /\ \A i, j \in 1..Len(seen') : i < j => Newer(seen'[i], seen'[j])
         /\ \A d \in records : Shows(before, d) \/ Shows(rows, d)
              => Shows(seen', d) \/ (walking' /\ Newer(Last(seen'), d))
<1>1. PICK k \in 0..Len(rows) : /\ seen' = before \o SubSeq(rows, 1, k)
                                /\ walking' => k \in 1..Len(rows)
                                /\ ~walking' => k = Len(rows)
  <2> DEFINE k == IF Len(rows) > Limit THEN Limit ELSE Len(rows)
  <2>1. k \in 0..Len(rows) /\ (Len(rows) > Limit => k \in 1..Len(rows))
        /\ (~(Len(rows) > Limit) => k = Len(rows))
    BY LimitAssumption
  <2>2. seen' = before \o SubSeq(rows, 1, k) /\ walking' = (Len(rows) > Limit)
    BY DEF Show
  <2> HIDE DEF k
  <2> QED BY <2>1, <2>2
<1> DEFINE n == Len(before)
<1>2. /\ seen' \in Seq(records) /\ Len(seen') = n + k
      /\ \A i \in 1..n : seen'[i] = before[i]
      /\ \A i \in 1..k : seen'[n + i] = rows[i]
  BY <1>1, PageAppended
<1>3. n \in Nat /\ Len(rows) \in Nat
  OBVIOUS
<1> HIDE DEF n
<1>4. walking' => seen' # <<>>
  <2>1. walking' => Len(seen') # 0
    BY <1>1, <1>2, <1>3
  <2>2. Len(<<>>) = 0
    OBVIOUS
  <2> QED BY <2>1, <2>2, Zenon
<1>5. ASSUME NEW i \in 1..(n + k), NEW j \in 1..(n + k), i < j
      PROVE  Newer(seen'[i], seen'[j])
  <2>1. CASE j <= n
    <3>1. i \in 1..n /\ j \in 1..n
      BY <1>3, <1>5, <2>1
    <3> QED BY <1>2, <1>5, <3>1 DEF Sorted, n
  <2>2. CASE i <= n /\ j > n
    <3>1. i \in 1..n /\ j - n \in 1..k /\ j - n \in 1..Len(rows) /\ j = n + (j - n)
      BY <1>3, <1>5, <2>2
    <3> QED BY <1>2, <3>1 DEF n
  <2>3. CASE i > n
    <3>1. /\ i - n \in 1..k /\ i - n \in 1..Len(rows) /\ i = n + (i - n)
          /\ j - n \in 1..k /\ j - n \in 1..Len(rows) /\ j = n + (j - n) /\ i - n < j - n
      BY <1>3, <1>5, <2>3
    <3> QED BY <1>2, <3>1 DEF Sorted
  <2> QED BY <1>3, <1>5, <2>1, <2>2, <2>3
<1>6. ASSUME NEW d \in records, Shows(before, d) PROVE Shows(seen', d)
  <2>1. PICK i \in 1..n : before[i] = d
    BY <1>6 DEF Shows, n
  <2>2. i \in 1..(n + k)
    BY <1>3
  <2> QED BY <1>2, <2>1, <2>2 DEF Shows
<1>7. ASSUME NEW d \in records, Shows(rows, d)
      PROVE  Shows(seen', d) \/ (walking' /\ Newer(Last(seen'), d))
  <2>1. PICK i \in 1..Len(rows) : rows[i] = d
    BY <1>7 DEF Shows
  <2>2. CASE i <= k
    <3>1. i \in 1..k /\ n + i \in 1..(n + k)
      BY <1>3, <2>2
    <3> QED BY <1>2, <2>1, <3>1 DEF Shows
  <2>3. CASE i > k
    <3>1. walking' /\ k \in 1..Len(rows) /\ k \in 1..k
      BY <1>1, <1>3, <2>3
    <3>2. Last(seen') = rows[k]
      BY <1>2, <3>1 DEF Last
    <3>3. Newer(rows[k], rows[i])
      BY <2>3, <3>1 DEF Sorted
    <3> QED BY <2>1, <3>1, <3>2, <3>3
  <2> QED BY <1>3, <2>2, <2>3
<1> QED BY <1>2, <1>4, <1>5, <1>6, <1>7

\* The first page is cut off a listing of everything.
LEMMA FirstPageStep == TypeOK /\ UniqueIds /\ FirstPage => WalkInv'
<1> SUFFICES ASSUME TypeOK, UniqueIds, FirstPage PROVE WalkInv'
  OBVIOUS
<1>1. PICK rows \in Listings(records) : Show(rows, <<>>)
  BY DEF FirstPage
<1>2. /\ rows \in Seq(records) /\ Sorted(rows) /\ \A d \in records : Shows(rows, d)
  BY ListingsAreSorted DEF Sorted, Shows
<1>3. start' = records /\ records' = records
  BY <1>1 DEF FirstPage, Show, vars
<1>4. /\ <<>> \in Seq(records) /\ Sorted(<<>>)
      /\ \A i \in 1..Len(<<>>), j \in 1..Len(rows) : Newer(<<>>[i], rows[j])
  BY DEF Sorted
<1>5. /\ seen' \in Seq(records) /\ (walking' => seen' # <<>>)
      /\ \A i, j \in 1..Len(seen') : i < j => Newer(seen'[i], seen'[j])
      /\ \A d \in records : Shows(seen', d) \/ (walking' /\ Newer(Last(seen'), d))
  BY <1>1, <1>2, <1>4, PageStep
<1> QED BY <1>3, <1>5 DEF WalkInv, Sorted, Shows, Newer

\* The cursor is the first of the rows at or after it, the one skip takes away.
LEMMA NextPageStep == TypeOK /\ UniqueIds /\ WalkInv /\ NextPage => WalkInv'
<1> SUFFICES ASSUME TypeOK, UniqueIds, WalkInv, NextPage PROVE WalkInv'
  OBVIOUS
<1> DEFINE c == Last(seen)
           S == {d \in records : ~Newer(d, c)}
           n == Len(seen)
<1>1. PICK s \in Listings(S) : Show(Tail(s), seen)
  BY DEF NextPage, After
<1>2. start' = start /\ records' = records
  BY <1>1 DEF NextPage, Show, vars
<1>3. seen \in Seq(records) /\ n \in 1..n /\ c = seen[n] /\ c \in records
  BY DEF WalkInv, NextPage, Last
<1>4. S \subseteq records /\ c \in S
  BY <1>3, NewerIsAnOrder
<1>5. /\ s \in Seq(S)
      /\ \A i, j \in 1..Len(s) : i < j => Newer(s[i], s[j])
      /\ \A d \in S : \E i \in 1..Len(s) : s[i] = d
  BY <1>4, ListingsAreSorted
<1> DEFINE rows == Tail(s)
<1>6. Len(s) \in Nat /\ 1 \in 1..Len(s) /\ s[1] = c
  <2>1. PICK i \in 1..Len(s) : s[i] = c
    BY <1>4, <1>5
  <2>2. 1 \in 1..Len(s) /\ s[1] \in S
    BY <1>5, <2>1
  <2>3. i = 1
    BY <1>5, <2>1, <2>2
  <2> QED BY <1>5, <2>1, <2>2, <2>3
<1>7. /\ rows \in Seq(records) /\ Len(rows) = Len(s) - 1
      /\ \A i \in 1..Len(rows) : i + 1 \in 1..Len(s) /\ rows[i] = s[i + 1]
  BY <1>4, <1>5, <1>6
<1> HIDE DEF c, S, n, rows
<1>8. Sorted(rows)
  <2> SUFFICES ASSUME NEW i \in 1..Len(rows), NEW j \in 1..Len(rows), i < j
               PROVE  Newer(rows[i], rows[j])
    BY DEF Sorted
  <2>1. /\ i + 1 \in 1..Len(s) /\ j + 1 \in 1..Len(s) /\ i + 1 < j + 1
        /\ rows[i] = s[i + 1] /\ rows[j] = s[j + 1]
    BY <1>7
  <2> QED BY <1>5, <2>1
<1>9. ASSUME NEW i \in 1..n PROVE seen[i] = c \/ Newer(seen[i], c)
  <2>1. i = n \/ i < n
    BY <1>3
  <2>2. \A j \in 1..Len(seen) : i < j => Newer(seen[i], seen[j])
    BY DEF WalkInv, Sorted, n
  <2>3. i < n => Newer(seen[i], seen[n])
    BY <1>3, <2>2 DEF n
  <2> QED BY <1>3, <2>1, <2>3
<1>10. ASSUME NEW j \in 1..Len(rows) PROVE Newer(c, rows[j])
  <2>1. j + 1 \in 1..Len(s) /\ rows[j] = s[j + 1] /\ 1 < j + 1
    BY <1>7
  <2> QED BY <1>5, <1>6, <2>1
<1>11. \A i \in 1..n, j \in 1..Len(rows) : Newer(seen[i], rows[j])
  <2>1. /\ \A i \in 1..n : seen[i] \in records
        /\ \A j \in 1..Len(rows) : rows[j] \in records
    BY <1>3, <1>7 DEF n
  <2> QED BY <1>3, <1>9, <1>10, <2>1, NewerIsAnOrder
<1>12. /\ seen' \in Seq(records) /\ (walking' => seen' # <<>>)
       /\ \A i, j \in 1..Len(seen') : i < j => Newer(seen'[i], seen'[j])
       /\ \A d \in records : Shows(seen, d) \/ Shows(rows, d)
            => Shows(seen', d) \/ (walking' /\ Newer(Last(seen'), d))
  BY <1>1, <1>3, <1>7, <1>8, <1>11, PageStep DEF WalkInv, n, rows
<1>13. ASSUME NEW d \in start PROVE d \in records /\ (Shows(seen, d) \/ Shows(rows, d))
  <2>1. d \in records
    BY DEF WalkInv
  <2>2. CASE ~Shows(seen, d)
    <3>1. Newer(c, d)
      BY <2>2 DEF WalkInv, c
    <3>2. d \in S /\ d # c
      BY <1>3, <2>1, <3>1, NewerIsAnOrder DEF S
    <3>3. PICK i \in 1..Len(s) : s[i] = d
      BY <1>5, <3>2
    <3>4. i - 1 \in 1..Len(rows) /\ (i - 1) + 1 = i
      BY <1>6, <1>7, <3>2, <3>3
    <3> QED BY <1>7, <2>1, <3>3, <3>4 DEF Shows
  <2> QED BY <2>1, <2>2
<1>14. \A d \in start' : Shows(seen', d) \/ (walking' /\ Newer(Last(seen'), d))
  BY <1>2, <1>12, <1>13
<1>15. start' \subseteq records'
  BY <1>2 DEF WalkInv
<1> QED BY <1>2, <1>12, <1>14, <1>15 DEF WalkInv, Sorted, Shows, Newer

\* Turning pages is no step of the system: what holds of it holds of PSpec.
LEMMA PagesAreReads == PSpec => Spec
<1>1. PInit => Init
  BY DEF PInit
<1>2. [PNext]_pvars => [Next]_vars
  BY DEF PNext, FirstPage, NextPage, Show, pvars, vars
<1> QED BY <1>1, <1>2, PTL DEF PSpec, Spec

\* Steps of the system only add records.
LEMMA WalkStep == IInv /\ UniqueIds /\ WalkInv /\ [PNext]_pvars => WalkInv'
<1> SUFFICES ASSUME IInv, UniqueIds, WalkInv, [PNext]_pvars PROVE WalkInv'
  OBVIOUS
<1>1. TypeOK
  BY DEF IInv
<1>2. CASE FirstPage \/ NextPage
  BY <1>1, <1>2, FirstPageStep, NextPageStep
<1>3. CASE [Next]_vars /\ UNCHANGED <<start, seen, walking>>
  <2>1. records \subseteq records'
    BY <1>3, NextGrows
  <2>2. seen' \in Seq(records') /\ start' \subseteq records'
    BY <1>3, <2>1 DEF WalkInv
  <2> QED BY <1>3, <2>2 DEF WalkInv, Sorted, Shows, Newer
<1>4. UNCHANGED pvars => [Next]_vars /\ UNCHANGED <<start, seen, walking>>
  BY DEF pvars, vars
<1> QED BY <1>2, <1>3, <1>4 DEF PNext

\* Whatever is written while an auditor turns the pages, and however many records
\* a page has, the walk shows every record there was at its start, none twice, by
\* descending timestamps.
THEOREM WalksAreExact == PSpec => []WalkIsExact
<1>1. Init => UniqueIds
  BY DEF Init, Idle, Write, UniqueIds
<1>2. PInit => WalkInv
  BY DEF PInit, Init, WalkInv, Sorted, Shows
<1>3. TypeOK /\ UniqueIds /\ WalkInv => WalkIsExact
  <2> SUFFICES ASSUME TypeOK, UniqueIds, WalkInv PROVE WalkIsExact
    OBVIOUS
  <2>1. DOMAIN seen = 1..Len(seen) /\ \A i \in 1..Len(seen) : seen[i] \in records
    BY DEF WalkInv
  <2>2. ASSUME NEW i \in 1..Len(seen), NEW j \in 1..Len(seen), i < j
        PROVE  seen[i] # seen[j] /\ seen[i].at >= seen[j].at
    <3>1. Newer(seen[i], seen[j]) /\ seen[i] \in records /\ seen[j] \in records
      BY <2>1, <2>2 DEF WalkInv, Sorted
    <3>2. seen[i].at \in Nat /\ seen[j].at \in Nat
      BY <3>1, AuditAssumption DEF TypeOK, ChangeRecord
    <3> QED BY <3>1, <3>2, NewerIsAnOrder DEF Newer
  <2>3. IsInjective(seen)
    <3> SUFFICES ASSUME NEW i \in 1..Len(seen), NEW j \in 1..Len(seen), seen[i] = seen[j], i # j
                 PROVE  FALSE
      BY <2>1 DEF IsInjective
    <3>1. i < j \/ j < i
      OBVIOUS
    <3> QED BY <2>2, <3>1
  <2>4. ~walking => start \subseteq ToSet(seen)
    BY <2>1 DEF WalkInv, Shows, ToSet
  <2> QED BY <2>1, <2>2, <2>3, <2>4 DEF WalkIsExact
<1>4. IInv => TypeOK
  BY DEF IInv
<1> QED BY <1>1, <1>2, <1>3, <1>4, PagesAreReads, Invariance, IdsStep, WalkStep, PTL
        DEF PSpec, Spec
=============================================================================
