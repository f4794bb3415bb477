----------------------------- MODULE AuditTrail -----------------------------
(***************************************************************************)
(* Change-data capture and the access log.  The extensions of PrismaService *)
(* run in the order tenant scope, audit columns, cdc, append-only, and what *)
(* one calls on its own client runs only those before it.  cdc runs a      *)
(* create, update or delete of a model that is not tenant-scoped in a      *)
(* transaction of its own: the old row is read, the write made and a       *)
(* ChangeRecord inserted, errors of the insert logged and swallowed.  When *)
(* the answer is out, AccessLogInterceptor inserts an AccessLog.           *)
(*                                                                         *)
(* A request makes one write; its request id, and the row it leaves, are   *)
(* abstracted to the number of the request.                                *)
(***************************************************************************)
EXTENDS Integers, Sequences, SequencesExt

CONSTANTS Entity, Request,
          MaxWrites,     \* bound: requests
          MaxRecords,    \* bound: change records
          MaxClock       \* bound: milliseconds

ASSUME AuditAssumption == MaxWrites \in Nat /\ MaxRecords \in Nat /\ MaxClock \in Nat

VARIABLES
  versions,  \* the committed writes of each entity; the last is its row
  records,   \* change_records
  log,       \* access_logs
  clock,     \* Date.now() of the process
  req,       \* what each request is doing
  count,     \* history: requests begun
  answers,   \* history: writes reported as done
  overlap    \* history: two requests have been at work at once

vars == <<versions, records, log, clock, req, count, answers, overlap>>

Nothing == 0
Id == 1..MaxRecords
Values == Nothing..MaxWrites

Status == {200, 403, 500}
AccessLog == [new : Values, status : Status]
Answer == [entity : Entity, new : Values, captured : BOOLEAN, failed : BOOLEAN]

ChangeRecord == [id : Id, entity : Entity, old : Values, new : Values,
                 at : 0..MaxClock]

Idle == [pc |-> "idle"]
Write == [pc : {"begun", "read", "mutated", "recorded"}, entity : Entity,
          user : BOOLEAN, old : Values, new : Values,
          inserted : SUBSET ChangeRecord, failed : BOOLEAN]
Answered == [pc : {"answered"}, new : Values, user : BOOLEAN, status : Status]

Init == /\ versions = [e \in Entity |-> <<>>]
        /\ records = {} /\ log = {} /\ clock = 0 /\ count = 0 /\ answers = {}
        /\ req = [r \in Request |-> Idle]
        /\ overlap = FALSE

Row(e) == IF versions[e] = <<>> THEN Nothing ELSE Last(versions[e])
Busy(r) == req[r] # Idle
At(r, pc) == req[r].pc = pc
Writing(r) == Busy(r) /\ ~At(r, "answered")
Overlapping == \E r \in Request : Writing(r)
Become(r, state) == req' = [req EXCEPT ![r] = state]

\* Rows that uncommitted transactions have written.
Locked(e) == \E r \in Request : /\ At(r, "mutated") \/ At(r, "recorded")
                                /\ req[r].entity = e

-----------------------------------------------------------------------------
\* Captured writes

\* cdc opens a transaction.  user says whether the request context names a user.
\* The row a create makes has a new id.
Begin(r, e, user) ==
  /\ ~Busy(r) /\ count < MaxWrites
  /\ Row(e) = Nothing => \A q \in Request : Writing(q) => req[q].entity # e
  /\ count' = count + 1
  /\ Become(r, [pc |-> "begun", entity |-> e, user |-> user, old |-> Nothing,
                new |-> count + 1, inserted |-> {}, failed |-> FALSE])
  /\ overlap' = (overlap \/ Overlapping)
  /\ UNCHANGED <<versions, records, log, clock, answers>>

\* Faulty variant: the old value is not read.
ReadOldNever(r) ==
  /\ At(r, "begun")
  /\ Become(r, [req[r] EXCEPT !.pc = "read"])
  /\ UNCHANGED <<versions, records, log, clock, count, answers, overlap>>

\* findFirst by id, without a lock; a create has none to read.
ReadOld(r) ==
  /\ At(r, "begun")
  /\ Become(r, [req[r] EXCEPT !.pc = "read", !.old = Row(req[r].entity)])
  /\ UNCHANGED <<versions, records, log, clock, count, answers, overlap>>

\* Faulty variant: the row's lock is not held until the record is inserted.
MutateUnlocked(r) ==
  /\ At(r, "read")
  /\ Become(r, [req[r] EXCEPT !.pc = "mutated"])
  /\ UNCHANGED <<versions, records, log, clock, count, answers, overlap>>

\* The write itself waits for the row's lock and holds it to the end.
Mutate(r) ==
  /\ At(r, "read") /\ ~Locked(req[r].entity)
  /\ Become(r, [req[r] EXCEPT !.pc = "mutated"])
  /\ UNCHANGED <<versions, records, log, clock, count, answers, overlap>>

FreeIds == {i \in Id : /\ \A c \in records : c.id # i
                       /\ \A q \in Request : Writing(q) =>
                            \A c \in req[q].inserted : c.id # i}

\* Faulty variant: the fallback id is what is recorded.
RecordUnknown(r, i) ==
  [id |-> i, entity |-> "unknown", old |-> req[r].old, new |-> req[r].new, at |-> clock]

\* now() is the time of the insert, not of the commit; the uuid is random.
Record(r, i) ==
  [id |-> i, entity |-> req[r].entity, old |-> req[r].old, new |-> req[r].new, at |-> clock]

\* Faulty variant: the record is inserted on another connection.
InsertOutside(r) ==
  /\ At(r, "mutated") /\ ~req[r].user
  /\ \E i \in FreeIds : records' = records \cup {Record(r, i)}
  /\ Become(r, [req[r] EXCEPT !.pc = "recorded"])
  /\ UNCHANGED <<versions, log, clock, count, answers, overlap>>

\* changeRecord.create in the transaction.
Insert(r) ==
  /\ At(r, "mutated") /\ ~req[r].user
  /\ \E i \in FreeIds :
       Become(r, [req[r] EXCEPT !.pc = "recorded", !.inserted = {Record(r, i)}])
  /\ UNCHANGED <<versions, records, log, clock, count, answers, overlap>>

\* For a user audit columns add createdById, which ChangeRecord does not have:
\* Prisma refuses the call before it reaches the database, and cdc goes on.
InsertRefused(r) ==
  /\ At(r, "mutated") /\ req[r].user
  /\ Become(r, [req[r] EXCEPT !.pc = "recorded"])
  /\ UNCHANGED <<versions, records, log, clock, count, answers, overlap>>

\* The database fails the insert: cdc goes on, in a transaction that PostgreSQL
\* has put in the aborted state.
InsertFails(r) ==
  /\ At(r, "mutated") /\ ~req[r].user
  /\ Become(r, [req[r] EXCEPT !.pc = "recorded", !.failed = TRUE])
  /\ UNCHANGED <<versions, records, log, clock, count, answers, overlap>>

\* res.end; the listener of AccessLogInterceptor is still to run.
Answering(r, n, user, status) ==
  Become(r, [pc |-> "answered", new |-> n, user |-> user, status |-> status])

Done(r) == [entity |-> req[r].entity, new |-> req[r].new,
            captured |-> ~req[r].user, failed |-> req[r].failed]

\* COMMIT of an aborted transaction is a ROLLBACK that raises no error.
EndTransaction(r) ==
  IF req[r].failed
  THEN UNCHANGED <<versions, records>>
  ELSE /\ versions' = [versions EXCEPT ![req[r].entity] = Append(@, req[r].new)]
       /\ records' = records \cup req[r].inserted

\* Faulty variant: the answer does not wait for the transaction.
CommitUnawaited(r) ==
  /\ At(r, "recorded")
  /\ EndTransaction(r) \/ UNCHANGED <<versions, records>>
  /\ answers' = answers \cup {Done(r)}
  /\ Answering(r, req[r].new, req[r].user, 200)
  /\ UNCHANGED <<log, clock, count, overlap>>

Commit(r) ==
  /\ At(r, "recorded")
  /\ EndTransaction(r)
  /\ answers' = answers \cup {Done(r)}
  /\ Answering(r, req[r].new, req[r].user, 200)
  /\ UNCHANGED <<log, clock, count, overlap>>

\* The write is refused, or the transaction times out: it is rolled back.
Fail(r) ==
  /\ Writing(r)
  /\ Answering(r, req[r].new, req[r].user, 500)
  /\ UNCHANGED <<versions, records, log, clock, count, answers, overlap>>

\* The process stops; a COMMIT that was under way is carried out or not.
Stop(r) ==
  /\ Busy(r)
  /\ Become(r, Idle)
  /\ \/ UNCHANGED <<versions, records>>
     \/ At(r, "recorded") /\ EndTransaction(r)
  /\ UNCHANGED <<log, clock, count, answers, overlap>>

-----------------------------------------------------------------------------
\* Writes cdc lets pass or never sees, one statement each: updateMany and
\* upsert; deletes, which audit columns turn into updates of the client below
\* cdc; every write of TenantUser, which the tenant scope runs on the client
\* below all extensions.
WriteUncaptured(r, e, user) ==
  /\ ~Busy(r) /\ count < MaxWrites
  /\ Row(e) # Nothing /\ ~Locked(e)
  /\ count' = count + 1
  /\ versions' = [versions EXCEPT ![e] = Append(@, count + 1)]
  /\ answers' = answers \cup {[entity |-> e, new |-> count + 1,
                               captured |-> FALSE, failed |-> FALSE]}
  /\ Answering(r, count + 1, user, 200)
  /\ overlap' = (overlap \/ Overlapping)
  /\ UNCHANGED <<records, log, clock>>

\* Faulty variant: the access log has an is_active column for a delete to set.
AlterSoftDeletes(r, user) ==
  /\ ~Busy(r) /\ count < MaxWrites
  /\ count' = count + 1
  /\ \/ /\ Answering(r, count + 1, user, 403)
        /\ UNCHANGED log
     \/ /\ user
        /\ \E l \in log : log' = log \ {l}
        /\ Answering(r, count + 1, user, 200)
  /\ UNCHANGED <<versions, records, clock, answers, overlap>>

\* An update, upsert or delete of AccessLog or ChangeRecord, of which no service
\* has one.  append-only forbids it; but a user's delete never gets there: audit
\* columns make it an update of their own client, and Prisma refuses that
\* because the two models have no isActive.
Alter(r, user) ==
  /\ ~Busy(r) /\ count < MaxWrites
  /\ count' = count + 1
  /\ \E status \in {403} \cup (IF user THEN {500} ELSE {}) :
       Answering(r, count + 1, user, status)
  /\ UNCHANGED <<versions, records, log, clock, answers, overlap>>

-----------------------------------------------------------------------------
\* Faulty variant: the interceptor does not wait for the answer.
LogOnEntry(r) ==
  /\ Busy(r) /\ ~req[r].user
  /\ log' = log \cup {[new |-> req[r].new, status |-> 200]}
  /\ Become(r, IF At(r, "answered") THEN Idle ELSE req[r])
  /\ UNCHANGED <<versions, records, clock, count, answers, overlap>>

\* The finish listener's accessLog.create, of a request without a user.
LogAccess(r) ==
  /\ At(r, "answered") /\ ~req[r].user
  /\ log' = log \cup {[new |-> req[r].new, status |-> req[r].status]}
  /\ Become(r, Idle)
  /\ UNCHANGED <<versions, records, clock, count, answers, overlap>>

\* It fails, for a user always: AccessLog has no createdById either.  The error
\* is logged.
LogFails(r) ==
  /\ At(r, "answered")
  /\ Become(r, Idle)
  /\ UNCHANGED <<versions, records, log, clock, count, answers, overlap>>

Tick == /\ clock < MaxClock
        /\ clock' = clock + 1
        /\ UNCHANGED <<versions, records, log, req, count, answers, overlap>>

Step(r) == \/ \E user \in BOOLEAN :
                \/ \E e \in Entity : Begin(r, e, user) \/ WriteUncaptured(r, e, user)
                \/ Alter(r, user)
           \/ ReadOld(r) \/ Mutate(r)
           \/ Insert(r) \/ InsertRefused(r) \/ InsertFails(r)
           \/ Commit(r) \/ Fail(r) \/ Stop(r)
           \/ LogAccess(r) \/ LogFails(r)

Next == Tick \/ \E r \in Request : Step(r)

Spec == Init /\ [][Next]_vars

-----------------------------------------------------------------------------
\* Type invariant.
TypeOK ==
  /\ versions \in [Entity -> Seq(1..MaxWrites)]
  /\ records \subseteq ChangeRecord /\ log \subseteq AccessLog
  /\ clock \in 0..MaxClock /\ count \in 0..MaxWrites
  /\ req \in [Request -> {Idle} \cup Write \cup Answered]
  /\ answers \subseteq Answer
  /\ overlap \in BOOLEAN

Position(e, v) == CHOOSE i \in DOMAIN versions[e] : versions[e][i] = v

\* Every change record tells of a write that was committed: no abort, timeout
\* or crash leaves the record of a change that did not happen.
RecordsAreTrue ==
  \A c \in records : c.new \in ToSet(versions[c.entity])

\* The records of an entity, in the order of their timestamps, are in the order
\* of its changes, because the insert comes after the write has taken the row's
\* lock (spec 005, concurrent updates: "with accurate timestamps").
TimestampsFollowChanges ==
  \A c, d \in records :
    c.entity = d.entity /\ Position(c.entity, c.new) < Position(c.entity, d.new)
      => c.at <= d.at

\* As long as no two requests overlap, a record's old value is the one its
\* change replaced.  (Concurrent updates may both record the same old value.)
SerialOldIsPrevious ==
  ~overlap => \A c \in records :
    LET i == Position(c.entity, c.new) IN
    c.old = IF i = 1 THEN Nothing ELSE versions[c.entity][i - 1]

\* A write that was reported as done is committed, unless the database failed
\* to insert its change record.
AnsweredWritesHold ==
  \A a \in answers : a.failed \/ a.new \in ToSet(versions[a.entity])

\* Whoever follows the request id of an access log entry to the change records
\* finds what its status says (spec 005, US4): a write that was reported as done,
\* and if cdc could insert it, the record of the write.
LogFindsRecords ==
  \A l \in log : l.status = 200 =>
    \E a \in answers : /\ a.new = l.new
                       /\ a.captured /\ ~a.failed => \E c \in records : c.new = l.new

\* No step alters or removes an entry of the access log or a change record (spec
\* 005, US2 scenario 3), a user's delete included, which passes append-only by.
TrailIsAppendOnly == [][records \subseteq records' /\ log \subseteq log']_vars

\* Every write that was reported as done, and whose record the database did not
\* fail to insert, is recorded (spec 005, US2 scenarios 1 and 2).
WritesAreRecorded ==
  \A a \in answers : a.failed \/ \E c \in records : c.new = a.new
=============================================================================
