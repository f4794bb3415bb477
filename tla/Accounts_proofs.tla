--------------------------- MODULE Accounts_proofs ---------------------------
(***************************************************************************)
(* Proofs about Accounts.  The table only grows, its emails stay and no    *)
(* account is reactivated (RowsStay); so what a request has read of it, and *)
(* what an answer has said of it, remains true.                            *)
(***************************************************************************)
EXTENDS Accounts, SequenceTheorems, TLAPS

\* What the check before an insert established, for a row and for a create that
\* is hashing: none of the rows there were then has the email.
RowsChecked ==
  \A j \in DOMAIN users : /\ users[j].checked < j
                          /\ \A i \in 1..users[j].checked : users[i].email # users[j].email

CreatesChecked ==
  \A r \in Request : At(r, "hashing") =>
    /\ req[r].checked <= Len(users)
    /\ \A i \in 1..req[r].checked : users[i].email # req[r].email

\* Of the rows of one email all but the last are inactive.
OlderInactive ==
  \A i, j \in DOMAIN users :
    i < j /\ users[i].email = users[j].email => ~users[i].active

\* What a request knows of the row it has found.
RowsFound ==
  \A r \in Request :
    /\ req[r].pc \in {"update", "delete"} => req[r].id \in DOMAIN users
    /\ req[r].pc \in {"comparing", "verified"} =>
         /\ req[r].id \in req[r].live
         /\ req[r].live \subseteq Named(req[r].email)
    /\ req[r].pc = "verified" => req[r].id = req[r].typed

\* A row that is named in an answer exists.
RowsNamed ==
  /\ answer.op \in {"get", "update", "delete"} => answer.id \in {Unknown} \cup DOMAIN users
  /\ answer.op = "login" => answer.live \subseteq Named(answer.email)

IInv == /\ TypeOK /\ RowsChecked /\ CreatesChecked /\ OlderInactive /\ RowsFound
        /\ RowsNamed /\ AnswersAreTrue /\ RefusedOnlyByNamesake

\* The ways a step changes the table.
Inserts(r) == /\ At(r, "hashing") /\ Len(users) < MaxUsers /\ Live(req[r].email) = {}
              /\ users' = Append(users, NewUser(r))
SetsAdmin(i, b) == users' = [users EXCEPT ![i].admin = b]
Deactivates(i) == users' = [users EXCEPT ![i].active = FALSE]

TableStep == \/ users' = users
             \/ \E r \in Request : Inserts(r)
             \/ \E i \in DOMAIN users : Deactivates(i) \/ \E b \in BOOLEAN : SetsAdmin(i, b)

RowsStay ==
  /\ DOMAIN users \subseteq DOMAIN users'
  /\ \A i \in DOMAIN users : /\ users'[i].email = users[i].email
                             /\ users'[i].checked = users[i].checked
                             /\ users'[i].active => users[i].active

-----------------------------------------------------------------------------
LEMMA TableSteps == IInv /\ Next => TableStep
<1> SUFFICES ASSUME IInv, Next PROVE TableStep
  OBVIOUS
<1> USE DEF IInv
<1>1. PICK r \in Request : Refuse(r) \/ Manage(r) \/ Login(r) \/ Break(r)
  BY DEF Next
<1>2. CASE Refuse(r)
  BY <1>2 DEF Refuse, TableStep
<1>3. CASE Login(r)
  BY <1>3 DEF Login, LoginNone, LoginFind, LoginLocked, Compare, LoginSucceed, TableStep
<1>4. CASE Manage(r)
  <2>1. CASE \E e \in Email, admin \in BOOLEAN : CreateCheck(r, e, admin)
    BY <2>1 DEF CreateCheck, TableStep
  <2>2. CASE Create(r)
    BY <2>2 DEF Create, TableStep, Inserts
  <2>3. CASE CreateViolates(r) \/ Get(r) \/ GetNone(r)
    BY <2>3 DEF CreateViolates, Get, GetNone, TableStep
  <2>4. CASE \E i \in DOMAIN users : \/ \E admin \in BOOLEAN : UpdateGet(r, i, admin)
                                     \/ DeleteGet(r, i)
    BY <2>4 DEF UpdateGet, DeleteGet, TableStep
  <2>5. CASE Update(r)
    <3>1. req[r].id \in DOMAIN users /\ req[r].admin \in BOOLEAN
      BY <2>5 DEF Update, At, RowsFound, TypeOK, Busy, Idle
    <3> QED BY <2>5, <3>1 DEF Update, TableStep, SetsAdmin
  <2>6. CASE SoftDelete(r)
    <3>1. req[r].id \in DOMAIN users
      BY <2>6 DEF SoftDelete, At, RowsFound
    <3> QED BY <2>6, <3>1 DEF SoftDelete, TableStep, Deactivates
  <2> QED BY <1>4, <2>1, <2>2, <2>3, <2>4, <2>5, <2>6 DEF Manage
<1>5. CASE Break(r)
  <2>1. CASE At(r, "update") /\ users' = [users EXCEPT ![req[r].id].admin = req[r].admin]
    <3>1. req[r].id \in DOMAIN users /\ req[r].admin \in BOOLEAN
      BY <2>1 DEF At, RowsFound, TypeOK, Busy, Idle
    <3> QED BY <2>1, <3>1 DEF TableStep, SetsAdmin
  <2>2. CASE At(r, "delete") /\ users' = [users EXCEPT ![req[r].id].active = FALSE]
    <3>1. req[r].id \in DOMAIN users
      BY <2>2 DEF At, RowsFound
    <3> QED BY <2>2, <3>1 DEF TableStep, Deactivates
  <2> QED BY <1>5, <2>1, <2>2 DEF Break, TableStep, Inserts
<1> QED BY <1>1, <1>2, <1>3, <1>4, <1>5

\* A row inserted is typed, and put after the others.
LEMMA NewRow ==
  ASSUME TypeOK, NEW r \in Request, Inserts(r)
  PROVE  /\ NewUser(r) \in User
         /\ users' \in Seq(User) /\ Len(users') = Len(users) + 1
         /\ users'[Len(users) + 1] = NewUser(r)
         /\ \A i \in DOMAIN users : users'[i] = users[i]
<1>1. req[r] \in [pc : {"hashing"}, email : Email, admin : BOOLEAN, checked : 0..MaxUsers]
  BY DEF TypeOK, Inserts, At, Busy, Idle
<1>2. NewUser(r) \in User
  BY <1>1 DEF NewUser, User
<1> QED BY <1>2 DEF TypeOK, Inserts

LEMMA TableTyped == TypeOK /\ TableStep => users' \in Seq(User) /\ Len(users') <= MaxUsers
<1> SUFFICES ASSUME TypeOK, TableStep PROVE users' \in Seq(User) /\ Len(users') <= MaxUsers
  OBVIOUS
<1>1. CASE users' = users
  BY <1>1 DEF TypeOK
<1>2. ASSUME NEW r \in Request, Inserts(r) PROVE users' \in Seq(User) /\ Len(users') <= MaxUsers
  <2>1. Len(users) < MaxUsers /\ Len(users) \in Nat
    BY <1>2 DEF Inserts, TypeOK
  <2> QED BY <1>2, <2>1, NewRow, AccountsAssumption
<1>3. ASSUME NEW i \in DOMAIN users, Deactivates(i) \/ \E b \in BOOLEAN : SetsAdmin(i, b)
      PROVE  users' \in Seq(User) /\ Len(users') <= MaxUsers
  <2>1. users[i] \in User
    BY DEF TypeOK
  <2>2. \A b \in BOOLEAN : [users[i] EXCEPT !.admin = b] \in User
    BY <2>1 DEF User
  <2>3. [users[i] EXCEPT !.active = FALSE] \in User
    BY <2>1 DEF User
  <2>4. PICK u \in User : users' = [users EXCEPT ![i] = u]
    BY <1>3, <2>2, <2>3 DEF Deactivates, SetsAdmin
  <2> QED BY <2>4 DEF TypeOK
<1> QED BY <1>1, <1>2, <1>3 DEF TableStep

LEMMA TableGrows == TypeOK /\ TableStep => RowsStay /\ Len(users) <= Len(users')
<1> SUFFICES ASSUME TypeOK, TableStep PROVE RowsStay /\ Len(users) <= Len(users')
  OBVIOUS
<1>1. CASE users' = users
  BY <1>1 DEF TypeOK, RowsStay
<1>2. ASSUME NEW r \in Request, Inserts(r) PROVE RowsStay /\ Len(users) <= Len(users')
  <2>1. Len(users) \in Nat /\ users \in Seq(User)
    BY DEF TypeOK
  <2> QED BY <1>2, <2>1, NewRow DEF RowsStay
<1>3. ASSUME NEW i \in DOMAIN users, Deactivates(i) \/ \E b \in BOOLEAN : SetsAdmin(i, b)
      PROVE  RowsStay /\ Len(users) <= Len(users')
  <2>1. users \in Seq(User) /\ users[i] \in User
    BY DEF TypeOK
  <2>2. PICK u \in User : /\ users' = [users EXCEPT ![i] = u]
                          /\ u.email = users[i].email /\ u.checked = users[i].checked
                          /\ u.active => users[i].active
    <3>1. CASE Deactivates(i)
      <4>1. /\ [users[i] EXCEPT !.active = FALSE] \in User
            /\ [users[i] EXCEPT !.active = FALSE].email = users[i].email
            /\ [users[i] EXCEPT !.active = FALSE].checked = users[i].checked
            /\ ~[users[i] EXCEPT !.active = FALSE].active
        BY <2>1 DEF User
      <4> QED BY <3>1, <4>1 DEF Deactivates
    <3>2. CASE \E b \in BOOLEAN : SetsAdmin(i, b)
      <4>1. PICK b \in BOOLEAN : users' = [users EXCEPT ![i].admin = b]
        BY <3>2 DEF SetsAdmin
      <4>2. /\ [users[i] EXCEPT !.admin = b] \in User
            /\ [users[i] EXCEPT !.admin = b].email = users[i].email
            /\ [users[i] EXCEPT !.admin = b].checked = users[i].checked
            /\ [users[i] EXCEPT !.admin = b].active => users[i].active
        BY <2>1 DEF User
      <4> QED BY <4>1, <4>2
    <3>3. Deactivates(i) \/ \E b \in BOOLEAN : SetsAdmin(i, b)
      BY <1>3
    <3> QED BY <3>1, <3>2, <3>3
  <2>3. DOMAIN users' = DOMAIN users /\ Len(users') = Len(users) /\ Len(users) \in Nat
    BY <2>1, <2>2
  <2>4. \A j \in DOMAIN users : users'[j] = IF j = i THEN u ELSE users[j]
    BY <2>2
  <2> QED BY <2>2, <2>3, <2>4 DEF RowsStay
<1> QED BY <1>1, <1>2, <1>3 DEF TableStep

-----------------------------------------------------------------------------
LEMMA RowsCheckedKept == IInv /\ TableStep => RowsChecked' /\ OlderInactive'
<1> SUFFICES ASSUME IInv, TableStep PROVE RowsChecked' /\ OlderInactive'
  OBVIOUS
<1> USE DEF IInv
<1>1. RowsStay /\ users' \in Seq(User) /\ users \in Seq(User) /\ Len(users) \in Nat
  BY TableGrows, TableTyped DEF TypeOK
<1>2. ASSUME DOMAIN users' = DOMAIN users
      PROVE  RowsChecked' /\ OlderInactive'
  <2>1. \A j \in DOMAIN users : \A i \in 1..users[j].checked : i \in DOMAIN users
    <3> SUFFICES ASSUME NEW j \in DOMAIN users, NEW i \in 1..users[j].checked
                 PROVE  i \in DOMAIN users
      OBVIOUS
    <3>1. users[j] \in User /\ j \in 1..Len(users) /\ users[j].checked < j
      BY <1>1 DEF RowsChecked
    <3> QED BY <3>1, <1>1 DEF User
  <2> QED BY <1>1, <1>2, <2>1 DEF RowsChecked, OlderInactive, RowsStay
<1>3. ASSUME NEW r \in Request, Inserts(r)
      PROVE  RowsChecked' /\ OlderInactive'
  <2> DEFINE n == Len(users) + 1
  <2>1. /\ users'[n] = NewUser(r) /\ Len(users') = n
        /\ \A i \in DOMAIN users : users'[i] = users[i]
    BY <1>3, NewRow
  <2>2. DOMAIN users = 1..Len(users) /\ DOMAIN users' = 1..n
    BY <1>1, <2>1
  <2>3. /\ req[r].checked \in Nat /\ req[r].checked <= Len(users)
        /\ \A i \in 1..req[r].checked : users[i].email # req[r].email
    BY <1>3 DEF Inserts, CreatesChecked, TypeOK, Busy, Idle, At
  <2>4. ASSUME NEW j \in DOMAIN users'
        PROVE  /\ users'[j].checked < j
               /\ \A i \in 1..users'[j].checked : users'[i].email # users'[j].email
    <3>1. CASE j = n
      BY <3>1, <2>1, <2>2, <2>3, <1>1 DEF NewUser
    <3>2. CASE j \in DOMAIN users
      <4>1. users[j] \in User /\ users[j].checked < j
        BY <3>2, <1>1 DEF RowsChecked
      <4>2. \A i \in 1..users[j].checked : i \in DOMAIN users
        BY <4>1, <3>2, <2>2, <1>1 DEF User
      <4> QED BY <3>2, <4>1, <4>2, <2>1 DEF RowsChecked
    <3> QED BY <3>1, <3>2, <2>2, <1>1
  <2>5. ASSUME NEW i \in DOMAIN users', NEW j \in DOMAIN users', i < j,
               users'[i].email = users'[j].email
        PROVE  ~users'[i].active
    <3>1. i \in DOMAIN users
      BY <2>5, <2>2, <1>1
    <3>2. CASE j = n
      BY <3>1, <3>2, <2>1, <2>5, <1>3 DEF NewUser, Inserts, Live, Named
    <3>3. CASE j \in DOMAIN users
      BY <3>1, <3>3, <2>1, <2>5 DEF OlderInactive
    <3> QED BY <3>2, <3>3, <2>2, <1>1
  <2> QED BY <2>4, <2>5 DEF RowsChecked, OlderInactive
<1>4. CASE users' = users
  BY <1>2, <1>4
<1>5. ASSUME NEW i \in DOMAIN users, Deactivates(i) \/ \E b \in BOOLEAN : SetsAdmin(i, b)
      PROVE  DOMAIN users' = DOMAIN users
  BY <1>5 DEF Deactivates, SetsAdmin
<1> QED BY <1>2, <1>3, <1>4, <1>5 DEF TableStep

-----------------------------------------------------------------------------
\* What a request or an answer says of the table stays true as the table changes.
LEMMA FactsStay ==
  ASSUME TypeOK, RowsStay, Len(users) <= Len(users')
  PROVE  /\ \A e : Named(e) \subseteq Named(e)'
         /\ \A n \in 0..Len(users) : \A e :
              (\A i \in 1..n : users[i].email # e)
                => n <= Len(users') /\ \A i \in 1..n : users'[i].email # e
<1>1. \A e : Named(e) \subseteq Named(e)'
  BY DEF Named, RowsStay
<1>2. Len(users) \in Nat /\ DOMAIN users = 1..Len(users)
  BY DEF TypeOK
<1>3. ASSUME NEW n \in 0..Len(users), NEW e, \A i \in 1..n : users[i].email # e
      PROVE  n <= Len(users') /\ \A i \in 1..n : users'[i].email # e
  <2>1. \A i \in 1..n : i \in DOMAIN users
    BY <1>2
  <2> QED BY <2>1, <1>2, <1>3 DEF RowsStay
<1> QED BY <1>1, <1>3
-----------------------------------------------------------------------------
LEMMA StatusTyped == \A x : normalize(x) \in Statuses
BY DEF normalize, Statuses, HttpException

LEMMA StatusFacts == /\ normalize("Conflict") = 409 /\ normalize("P2002") = 409
                     /\ normalize("NotFound") = 404 /\ normalize("Unauthorized") = 401
BY DEF normalize, HttpException

\* The requests' part of the invariant, and the answer's, after a step of r that
\* leaves the other requests alone.
RequestInv(r) ==
  /\ req[r] \in {Idle} \cup Busy
  /\ At(r, "hashing") =>
       /\ req[r].checked <= Len(users)
       /\ \A i \in 1..req[r].checked : users[i].email # req[r].email
  /\ req[r].pc \in {"update", "delete"} => req[r].id \in DOMAIN users
  /\ req[r].pc \in {"comparing", "verified"} =>
       /\ req[r].id \in req[r].live
       /\ req[r].live \subseteq Named(req[r].email)
  /\ req[r].pc = "verified" => req[r].id = req[r].typed

AnswerInv == answer \in Answer /\ RowsNamed /\ AnswersAreTrue /\ RefusedOnlyByNamesake

LEMMA InvParts ==
  IInv <=> /\ users \in Seq(User) /\ Len(users) <= MaxUsers
           /\ RowsChecked /\ OlderInactive /\ AnswerInv
           /\ req = [r \in Request |-> req[r]]
           /\ \A r \in Request : RequestInv(r)
BY DEF IInv, TypeOK, CreatesChecked, RowsFound, AnswerInv, RequestInv

\* What a request knows, and an answer says, does not depend on later steps.
LEMMA RequestStays ==
  ASSUME IInv, RowsStay, Len(users) <= Len(users'), NEW q \in Request, req'[q] = req[q]
  PROVE  RequestInv(q)'
<1>1. RequestInv(q) /\ TypeOK
  BY InvParts DEF IInv
<1>2. CASE At(q, "hashing")
  <2>1. req[q].checked \in 0..Len(users)
    BY <1>1, <1>2 DEF RequestInv, TypeOK, Idle, Busy, At
  <2>2. \A i \in 1..req[q].checked : users[i].email # req[q].email
    BY <1>1, <1>2 DEF RequestInv
  <2>3. /\ req[q].checked <= Len(users')
        /\ \A i \in 1..req[q].checked : users'[i].email # req[q].email
    BY <1>1, <2>1, <2>2, FactsStay
  <2>4. req[q] \in {Idle} \cup Busy /\ req[q].pc = "hashing"
    BY <1>1, <1>2 DEF RequestInv, At
  <2> QED BY <2>3, <2>4 DEF RequestInv, At
<1>3. CASE ~At(q, "hashing")
  <2>1. \A e : Named(e) \subseteq Named(e)'
    BY <1>1, FactsStay
  <2>2. DOMAIN users \subseteq DOMAIN users'
    BY DEF RowsStay
  <2> QED BY <1>1, <1>3, <2>1, <2>2 DEF RequestInv, At
<1> QED BY <1>2, <1>3

LEMMA AnswerStays ==
  ASSUME IInv, RowsStay, Len(users) <= Len(users'), users' \in Seq(User), UNCHANGED answer
  PROVE  AnswerInv'
<1>1. AnswerInv /\ TypeOK
  BY InvParts DEF IInv
<1>2. \A e : Named(e) \subseteq Named(e)'
  BY <1>1, FactsStay
<1>3. DOMAIN users = 1..Len(users) /\ Unknown \notin DOMAIN users /\ Unknown \notin DOMAIN users'
      /\ users' \in Seq(User)
  <2> QED BY <1>1 DEF TypeOK, Unknown
<1>4. answer \in Answer /\ RowsNamed'
  BY <1>1, <1>2 DEF AnswerInv, RowsNamed, RowsStay
<1>5. AnswersAreTrue'
  BY <1>1, <1>2, <1>3 DEF AnswerInv, AnswersAreTrue, RowsNamed, RowsStay
<1>6. RefusedOnlyByNamesake'
  BY <1>1, <1>2 DEF AnswerInv, RefusedOnlyByNamesake
<1> QED BY <1>4, <1>5, <1>6 DEF AnswerInv

-----------------------------------------------------------------------------
\* One step, and what it leaves to be shown: of request r and of the answer.
LEMMA StepParts ==
  ASSUME IInv, Next, NEW r \in Request, NEW s, req' = [req EXCEPT ![r] = s],
         RequestInv(r)', AnswerInv'
  PROVE  IInv'
<1>1. TableStep /\ TypeOK
  BY TableSteps DEF IInv
<1>2. RowsStay /\ Len(users) <= Len(users') /\ users' \in Seq(User) /\ Len(users') <= MaxUsers
  BY <1>1, TableGrows, TableTyped
<1>3. RowsChecked' /\ OlderInactive'
  BY <1>1, RowsCheckedKept
<1>4. ASSUME NEW q \in Request, q # r PROVE RequestInv(q)'
  <2>1. req'[q] = req[q]
    BY <1>1, <1>4 DEF TypeOK
  <2> QED BY <1>2, <2>1, RequestStays
<1>5. req' = [q \in Request |-> req'[q]]
  BY <1>1 DEF TypeOK
<1>6. \A q \in Request : RequestInv(q)'
  BY <1>4
<1> QED BY <1>2, <1>3, <1>5, <1>6
       DEF IInv, TypeOK, CreatesChecked, RowsFound, AnswerInv, RequestInv

LEMMA IdleInv == \A r : req'[r] = Idle => RequestInv(r)'
BY DEF RequestInv, Idle, At

\* A refusal, a 500 and the answer of an id that is not known say nothing.
LEMMA RefusalInv == \A x : answer' = Refused(x) => AnswerInv'
BY StatusTyped DEF Refused, AnswerInv, Answer, RowsNamed, AnswersAreTrue, RefusedOnlyByNamesake

-----------------------------------------------------------------------------
\* What a request knows in the state it is in.
LEMMA Knows ==
  ASSUME IInv, NEW r \in Request
  PROVE  /\ At(r, "hashing") => /\ req[r].email \in Email /\ req[r].admin \in BOOLEAN
                                /\ req[r].checked \in 0..Len(users)
         /\ At(r, "update") \/ At(r, "delete") => req[r].id \in DOMAIN users
         /\ At(r, "comparing") \/ At(r, "verified") =>
              /\ req[r].email \in Email /\ req[r].typed \in {Unknown} \cup Ids
              /\ req[r].live \in SUBSET Ids
              /\ req[r].id \in req[r].live /\ req[r].live \subseteq Named(req[r].email)
              /\ req[r] = [pc |-> req[r].pc, email |-> req[r].email, id |-> req[r].id,
                           typed |-> req[r].typed, live |-> req[r].live]
         /\ At(r, "verified") => req[r].id = req[r].typed
<1>1. RequestInv(r) /\ Len(users) \in Nat
  BY InvParts DEF IInv, TypeOK
<1> QED BY <1>1 DEF RequestInv, At, Idle, Busy

LEMMA DomainIds == IInv => /\ DOMAIN users \subseteq Ids /\ Unknown \notin DOMAIN users
                           /\ \A e : Named(e) \subseteq Ids /\ Live(e) \subseteq Named(e)
<1> SUFFICES ASSUME IInv PROVE /\ DOMAIN users \subseteq Ids /\ Unknown \notin DOMAIN users
                               /\ \A e : Named(e) \subseteq Ids /\ Live(e) \subseteq Named(e)
  OBVIOUS
<1>1. DOMAIN users = 1..Len(users) /\ Len(users) \in Nat /\ Len(users) <= MaxUsers
  BY DEF IInv, TypeOK
<1>2. DOMAIN users \subseteq Ids /\ Unknown \notin DOMAIN users
  BY <1>1, AccountsAssumption DEF Ids, Unknown
<1> QED BY <1>2 DEF Named, Live

\* A step that changes no request.
LEMMA QuietParts == ASSUME IInv, Next, UNCHANGED req, AnswerInv' PROVE IInv'
<1>1. RowsStay /\ Len(users) <= Len(users') /\ users' \in Seq(User) /\ Len(users') <= MaxUsers
  BY TableSteps, TableGrows, TableTyped DEF IInv
<1>2. \A q \in Request : RequestInv(q)'
  BY <1>1, RequestStays
<1>3. RowsChecked' /\ OlderInactive'
  BY TableSteps, RowsCheckedKept
<1> QED BY <1>1, <1>2, <1>3
        DEF IInv, TypeOK, CreatesChecked, RowsFound, AnswerInv, RequestInv

\* The answers that may be given.
LEMMA CreatedInv ==
  ASSUME NEW e \in Email, NEW i \in {Unknown} \cup Ids, NEW status \in {201, 409},
         answer' = Created(e, status, i),
         IF status = 201 THEN i \in Named(e)' ELSE Named(e)' # {}
  PROVE  AnswerInv'
BY DEF Created, AnswerInv, Answer, Statuses, RowsNamed, AnswersAreTrue, RefusedOnlyByNamesake

LEMMA OfRowInv ==
  ASSUME NEW op \in {"get", "update", "delete"}, NEW i \in {Unknown} \cup Ids,
         i \in {Unknown} \cup DOMAIN users', answer' = OfRow(op, IF i \in DOMAIN users' THEN 200 ELSE 404, i),
         op = "delete" /\ i \in DOMAIN users' => ~users'[i].active
  PROVE  AnswerInv'
BY DEF OfRow, AnswerInv, Answer, Statuses, RowsNamed, AnswersAreTrue, RefusedOnlyByNamesake

LEMMA LoggedInInv ==
  ASSUME NEW e \in Email, NEW status \in {200, 401}, NEW i \in {Unknown} \cup Ids,
         NEW typed \in {Unknown} \cup Ids, NEW live \in SUBSET Ids,
         answer' = LoggedIn(e, status, i, typed, live), live \subseteq Named(e)',
         status = 200 => i = typed /\ i \in live,
         status = 401 /\ typed \in live => \E j \in Named(e)' : j # typed
  PROVE  AnswerInv'
<1>1. /\ answer' = [op |-> "login", status |-> status, email |-> e, id |-> i,
                    typed |-> typed, live |-> live]
      /\ status \in Statuses
  BY DEF LoggedIn, Statuses
<1>2. answer' \in Answer
  BY <1>1 DEF Answer
<1> QED BY <1>1, <1>2 DEF AnswerInv, RowsNamed, AnswersAreTrue, RefusedOnlyByNamesake

-----------------------------------------------------------------------------
LEMMA ReadSteps ==
  ASSUME IInv, Next, NEW r \in Request, Refuse(r) \/ Get(r) \/ GetNone(r)
  PROVE  IInv'
<1>1. CASE Refuse(r)
  <2>1. AnswerInv' /\ UNCHANGED req
    BY <1>1, RefusalInv DEF Refuse
  <2> QED BY <2>1, QuietParts
<1>2. CASE Get(r)
  <2>1. PICK i \in DOMAIN users : answer' = OfRow("get", 200, i)
    BY <1>2 DEF Get
  <2>2. UNCHANGED <<users, req>> /\ i \in Ids
    BY <1>2, DomainIds DEF Get
  <2>3. answer' = OfRow("get", IF i \in DOMAIN users' THEN 200 ELSE 404, i)
    BY <2>1, <2>2
  <2>4. AnswerInv'
    BY <2>2, <2>3, OfRowInv
  <2> QED BY <2>2, <2>4, QuietParts
<1>3. CASE GetNone(r)
  <2>1. PICK op \in {"get", "update", "delete"} : answer' = OfRow(op, 404, Unknown)
    BY <1>3, StatusFacts DEF GetNone
  <2>2. UNCHANGED <<users, req>> /\ Unknown \notin DOMAIN users'
    BY <1>3, DomainIds DEF GetNone
  <2>3. answer' = OfRow(op, IF Unknown \in DOMAIN users' THEN 200 ELSE 404, Unknown)
    BY <2>1, <2>2
  <2>4. AnswerInv'
    BY <2>2, <2>3, OfRowInv
  <2> QED BY <2>2, <2>4, QuietParts
<1> QED BY <1>1, <1>2, <1>3

LEMMA CreateSteps ==
  ASSUME IInv, Next, NEW r \in Request,
         \/ \E e \in Email, admin \in BOOLEAN : CreateCheck(r, e, admin)
         \/ Create(r) \/ CreateViolates(r)
  PROVE  IInv'
<1> USE DEF Become, Reply
<1>1. ASSUME NEW e \in Email, NEW admin \in BOOLEAN, CreateCheck(r, e, admin)
      PROVE  IInv'
  <2>1. CASE Named(e) = {}
    <3> DEFINE s == [pc |-> "hashing", email |-> e, admin |-> admin, checked |-> Len(users)]
    <3>1. req' = [req EXCEPT ![r] = s] /\ UNCHANGED <<users, answer>>
      BY <1>1, <2>1 DEF CreateCheck
    <3>2. Len(users) \in 0..MaxUsers /\ DOMAIN users = 1..Len(users) /\ req'[r] = s
      BY <3>1 DEF IInv, TypeOK
    <3>3. \A i \in 1..Len(users) : users[i].email # e
      BY <2>1, <3>2 DEF Named
    <3>4. s \in Busy
      BY <3>2 DEF Busy
    <3>5. RequestInv(r)'
      BY <3>1, <3>2, <3>3, <3>4 DEF RequestInv, At
    <3>6. AnswerInv'
      BY <3>1, TableSteps, TableGrows, TableTyped, AnswerStays DEF IInv
    <3> QED BY <3>1, <3>5, <3>6, StepParts
  <2>2. CASE Named(e) # {}
    <3>1. req' = [req EXCEPT ![r] = Idle] /\ UNCHANGED users
          /\ answer' = Created(e, 409, Unknown)
      BY <1>1, <2>2, StatusFacts DEF CreateCheck
    <3>2. Named(e)' # {}
      BY <2>2, <3>1 DEF Named
    <3>3. AnswerInv'
      BY <3>1, <3>2, CreatedInv
    <3>4. RequestInv(r)'
      BY <3>1, IdleInv DEF IInv, TypeOK
    <3> QED BY <3>1, <3>3, <3>4, StepParts
  <2> QED BY <2>1, <2>2
<1>2. CASE Create(r)
  <2>1. Inserts(r) /\ At(r, "hashing") /\ req' = [req EXCEPT ![r] = Idle]
        /\ answer' = Created(req[r].email, 201, Len(users) + 1)
    BY <1>2 DEF Create, Inserts
  <2>2. PICK e \in Email : e = req[r].email
    BY <2>1, Knows
  <2>3. /\ users' \in Seq(User) /\ Len(users') = Len(users) + 1
        /\ users'[Len(users) + 1] = NewUser(r)
        /\ Len(users) \in Nat /\ Len(users) < MaxUsers
    BY <2>1, NewRow DEF IInv, TypeOK, Inserts
  <2>4. PICK n \in Ids : n = Len(users) + 1
    BY <2>3, AccountsAssumption DEF Ids
  <2>5. n \in Named(e)'
    <3>1. n \in DOMAIN users' /\ users'[n].email = e
      BY <2>2, <2>3, <2>4 DEF NewUser
    <3> QED BY <3>1 DEF Named
  <2>6. AnswerInv'
    BY <2>1, <2>2, <2>4, <2>5, CreatedInv
  <2>7. RequestInv(r)'
    BY <2>1, IdleInv DEF IInv, TypeOK
  <2> QED BY <2>1, <2>6, <2>7, StepParts
<1>3. CASE CreateViolates(r)
  <2>1. /\ At(r, "hashing") /\ req' = [req EXCEPT ![r] = Idle] /\ UNCHANGED users
        /\ answer' = Created(req[r].email, 409, Unknown) /\ Live(req[r].email) # {}
    BY <1>3, StatusFacts DEF CreateViolates
  <2>2. PICK e \in Email : e = req[r].email
    BY <2>1, Knows
  <2>3. Named(e)' # {}
    BY <2>1, <2>2 DEF Live, Named
  <2>4. AnswerInv'
    BY <2>1, <2>2, <2>3, CreatedInv
  <2>5. RequestInv(r)'
    BY <2>1, IdleInv DEF IInv, TypeOK
  <2> QED BY <2>1, <2>4, <2>5, StepParts
<1> QED BY <1>1, <1>2, <1>3

LEMMA RowSteps ==
  ASSUME IInv, Next, NEW r \in Request,
         \/ \E i \in DOMAIN users : \/ \E admin \in BOOLEAN : UpdateGet(r, i, admin)
                                    \/ DeleteGet(r, i)
         \/ Update(r) \/ SoftDelete(r)
  PROVE  IInv'
<1> USE DEF Become, Reply
<1>1. ASSUME NEW i \in DOMAIN users, NEW admin \in BOOLEAN, UpdateGet(r, i, admin)
      PROVE  IInv'
  <2>1. /\ req' = [req EXCEPT ![r] = [pc |-> "update", id |-> i, admin |-> admin]]
        /\ UNCHANGED <<users, answer>> /\ i \in Ids /\ req \in [Request -> {Idle} \cup Busy]
    BY <1>1, DomainIds DEF UpdateGet, IInv, TypeOK
  <2>2. RequestInv(r)'
    BY <2>1 DEF RequestInv, At, Busy
  <2>3. AnswerInv'
    BY <2>1, TableSteps, TableGrows, TableTyped, AnswerStays DEF IInv
  <2> QED BY <2>1, <2>2, <2>3, StepParts
<1>2. ASSUME NEW i \in DOMAIN users, DeleteGet(r, i) PROVE IInv'
  <2>1. /\ req' = [req EXCEPT ![r] = [pc |-> "delete", id |-> i]]
        /\ UNCHANGED <<users, answer>> /\ i \in Ids /\ req \in [Request -> {Idle} \cup Busy]
    BY <1>2, DomainIds DEF DeleteGet, IInv, TypeOK
  <2>2. RequestInv(r)'
    BY <2>1 DEF RequestInv, At, Busy
  <2>3. AnswerInv'
    BY <2>1, TableSteps, TableGrows, TableTyped, AnswerStays DEF IInv
  <2> QED BY <2>1, <2>2, <2>3, StepParts
<1>3. CASE Update(r)
  <2>1. PICK i \in DOMAIN users : i = req[r].id
    BY <1>3, Knows DEF Update
  <2>2. /\ req' = [req EXCEPT ![r] = Idle] /\ DOMAIN users' = DOMAIN users
        /\ answer' = OfRow("update", 200, i) /\ i \in Ids
    BY <1>3, <2>1, DomainIds DEF Update
  <2>3. AnswerInv'
    BY <2>2, OfRowInv
  <2>4. RequestInv(r)'
    BY <2>2, IdleInv DEF IInv, TypeOK
  <2> QED BY <2>2, <2>3, <2>4, StepParts
<1>4. CASE SoftDelete(r)
  <2>1. PICK i \in DOMAIN users : i = req[r].id
    BY <1>4, Knows DEF SoftDelete
  <2>2. /\ req' = [req EXCEPT ![r] = Idle] /\ users' = [users EXCEPT ![i].active = FALSE]
        /\ answer' = OfRow("delete", 200, i) /\ i \in Ids
    BY <1>4, <2>1, DomainIds DEF SoftDelete
  <2>3. DOMAIN users' = DOMAIN users /\ ~users'[i].active
    <3>1. users[i] \in User
      BY DEF IInv, TypeOK
    <3> QED BY <2>2, <3>1 DEF User
  <2>4. AnswerInv'
    BY <2>2, <2>3, OfRowInv
  <2>5. RequestInv(r)'
    BY <2>2, IdleInv DEF IInv, TypeOK
  <2> QED BY <2>2, <2>4, <2>5, StepParts
<1> QED BY <1>1, <1>2, <1>3, <1>4

\* The fields of a login that has found its row.
LEMMA LoginKnows ==
  ASSUME IInv, NEW r \in Request, NEW pc \in {"comparing", "verified"}, At(r, pc)
  PROVE  \E e \in Email, i \in Ids, typed \in {Unknown} \cup Ids, live \in SUBSET Ids :
           /\ req[r] = [pc |-> pc, email |-> e, id |-> i, typed |-> typed, live |-> live]
           /\ i \in live /\ live \subseteq Named(e) /\ (pc = "verified" => i = typed)
<1>1. At(r, "comparing") \/ At(r, "verified")
  OBVIOUS
<1>2. /\ req[r].email \in Email /\ req[r].typed \in {Unknown} \cup Ids
      /\ req[r].live \in SUBSET Ids
      /\ req[r].id \in req[r].live /\ req[r].live \subseteq Named(req[r].email)
      /\ req[r] = [pc |-> req[r].pc, email |-> req[r].email, id |-> req[r].id,
                   typed |-> req[r].typed, live |-> req[r].live]
  BY <1>1, Knows
<1>3. req[r].pc = pc /\ (pc = "verified" => req[r].id = req[r].typed)
  BY Knows DEF At
<1>4. PICK e, i, typed, live : e = req[r].email /\ i = req[r].id /\ typed = req[r].typed /\ live = req[r].live
  OBVIOUS
<1>5. req[r] = [pc |-> pc, email |-> e, id |-> i, typed |-> typed, live |-> live]
  BY <1>2, <1>3, <1>4
<1>6. e \in Email /\ i \in Ids /\ typed \in {Unknown} \cup Ids /\ live \in SUBSET Ids
  BY <1>2, <1>4
<1>7. i \in live /\ live \subseteq Named(e) /\ (pc = "verified" => i = typed)
  BY <1>2, <1>3, <1>4
<1> QED BY <1>5, <1>6, <1>7

LEMMA LoginSteps == ASSUME IInv, Next, NEW r \in Request, Login(r) PROVE IInv'
<1> USE DEF Become, Reply
<1> DEFINE Typed == {Unknown} \cup DOMAIN users
<1>1. \A t \in Typed : t \in {Unknown} \cup Ids
  BY DomainIds
<1>2. ASSUME NEW e \in Email, NEW typed \in Typed, LoginNone(r, e, typed) PROVE IInv'
  <2>1. UNCHANGED <<users, req>> /\ answer' = LoggedIn(e, 401, Unknown, typed, {})
    BY <1>2, StatusFacts DEF LoginNone
  <2>2. PICK live \in SUBSET Ids : live = {}
    OBVIOUS
  <2>3. PICK i \in {Unknown} \cup Ids : i = Unknown
    OBVIOUS
  <2>4. AnswerInv'
    <3>1. PICK t \in {Unknown} \cup Ids : t = typed
      BY <1>1
    <3>2. PICK status \in {200, 401} : status = 401
      OBVIOUS
    <3>3. answer' = LoggedIn(e, status, i, t, live) /\ live \subseteq Named(e)'
      BY <2>1, <2>2, <2>3, <3>1, <3>2
    <3>4. status # 200 /\ t \notin live
      BY <2>2, <3>2
    <3> QED BY <3>3, <3>4, LoggedInInv
  <2> QED BY <2>1, <2>4, QuietParts
<1>3. ASSUME NEW e \in Email, NEW typed \in Typed, NEW i \in DOMAIN users,
             LoginFind(r, e, typed, i)
      PROVE  IInv'
  <2>1. PICK live \in SUBSET Ids : live = Live(e)
    BY DomainIds
  <2>2. UNCHANGED users /\ i \in Named(e) /\ i \in Ids /\ live \subseteq Named(e) /\ live \subseteq Named(e)'
    BY <1>3, <2>1, DomainIds DEF LoginFind, Named
  <2>3. CASE users[i].active
    <3> DEFINE s == [pc |-> "comparing", email |-> e, id |-> i, typed |-> typed, live |-> live]
    <3>1. req' = [req EXCEPT ![r] = s] /\ UNCHANGED answer /\ req'[r] = s
      BY <1>3, <2>1, <2>3 DEF LoginFind, IInv, TypeOK
    <3>2. i \in live
      BY <2>1, <2>2, <2>3 DEF Live
    <3>3. s \in Busy
      BY <1>1, <2>2 DEF Busy
    <3>4. RequestInv(r)'
      BY <3>1, <3>2, <3>3, <2>2 DEF RequestInv, At
    <3>5. AnswerInv'
      BY <3>1, TableSteps, TableGrows, TableTyped, AnswerStays DEF IInv
    <3> QED BY <3>1, <3>4, <3>5, StepParts
  <2>4. CASE ~users[i].active
    <3>1. req' = [req EXCEPT ![r] = Idle] /\ answer' = LoggedIn(e, 401, i, typed, live)
      BY <1>3, <2>1, <2>4, StatusFacts DEF LoginFind
    <3>2. i \in Named(e)' /\ i \notin live
      BY <2>1, <2>2, <2>4 DEF Named, Live
    <3> typed \in {Unknown} \cup Ids
      BY <1>1
    <3>3. AnswerInv'
      <4>1. typed \in live => \E j \in Named(e)' : j # typed
        BY <3>2
      <4> QED BY <2>2, <3>1, <4>1, LoggedInInv
    <3>4. RequestInv(r)'
      BY <3>1, IdleInv DEF IInv, TypeOK
    <3> QED BY <3>1, <3>3, <3>4, StepParts
  <2> QED BY <2>3, <2>4
<1>4. CASE LoginLocked(r)
  <2>1. req' = [req EXCEPT ![r] = Idle] /\ AnswerInv'
    BY <1>4, RefusalInv DEF LoginLocked
  <2>2. RequestInv(r)'
    BY <2>1, IdleInv DEF IInv, TypeOK
  <2> QED BY <2>1, <2>2, StepParts
<1>5. CASE Compare(r)
  <2>1. PICK e \in Email, i \in Ids, typed \in {Unknown} \cup Ids, live \in SUBSET Ids :
          /\ req[r] = [pc |-> "comparing", email |-> e, id |-> i, typed |-> typed, live |-> live]
          /\ i \in live /\ live \subseteq Named(e)
    <3>1. At(r, "comparing")
      BY <1>5 DEF Compare
    <3> QED BY <3>1, LoginKnows
  <2>2. UNCHANGED users /\ live \subseteq Named(e)' /\ i \in Named(e)'
    BY <1>5, <2>1 DEF Compare, Named
  <2>3. CASE typed = i
    <3> DEFINE s == [pc |-> "verified", email |-> e, id |-> i, typed |-> typed, live |-> live]
    <3>1. req' = [req EXCEPT ![r] = s] /\ UNCHANGED answer
      BY <1>5, <2>1, <2>3 DEF Compare
    <3>2. req'[r] = s /\ s \in Busy
      BY <3>1 DEF IInv, TypeOK, Busy
    <3>3. RequestInv(r)'
      BY <2>1, <2>2, <2>3, <3>2 DEF RequestInv, At
    <3>4. AnswerInv'
      BY <3>1, TableSteps, TableGrows, TableTyped, AnswerStays DEF IInv
    <3> QED BY <3>1, <3>3, <3>4, StepParts
  <2>4. CASE typed # i
    <3>1. req' = [req EXCEPT ![r] = Idle] /\ answer' = LoggedIn(e, 401, i, typed, live)
      BY <1>5, <2>1, <2>4, StatusFacts DEF Compare
    <3>2. typed \in live => \E j \in Named(e)' : j # typed
      BY <2>2, <2>4
    <3>3. /\ 401 \in {200, 401} /\ (401 = 200 => i = typed /\ i \in live)
          /\ live \subseteq Named(e)' /\ i \in {Unknown} \cup Ids
      BY <2>2
    <3>4. AnswerInv'
      BY <3>1, <3>2, <3>3, LoggedInInv
    <3>5. RequestInv(r)'
      BY <3>1, IdleInv DEF IInv, TypeOK
    <3> QED BY <3>1, <3>4, <3>5, StepParts
  <2> QED BY <2>3, <2>4
<1>6. CASE LoginSucceed(r)
  <2>1. PICK e \in Email, i \in Ids, typed \in {Unknown} \cup Ids, live \in SUBSET Ids :
          /\ req[r] = [pc |-> "verified", email |-> e, id |-> i, typed |-> typed, live |-> live]
          /\ i \in live /\ live \subseteq Named(e) /\ i = typed
    BY <1>6, LoginKnows DEF LoginSucceed
  <2>2. UNCHANGED users /\ live \subseteq Named(e)'
    BY <1>6, <2>1 DEF LoginSucceed, Named
  <2>3. req' = [req EXCEPT ![r] = Idle] /\ answer' = LoggedIn(e, 200, i, typed, live)
    BY <1>6, <2>1 DEF LoginSucceed
  <2>4. AnswerInv'
    BY <2>1, <2>2, <2>3, LoggedInInv
  <2>5. RequestInv(r)'
    BY <2>3, IdleInv DEF IInv, TypeOK
  <2> QED BY <2>3, <2>4, <2>5, StepParts
<1> QED BY <1>2, <1>3, <1>4, <1>5, <1>6 DEF Login

LEMMA BreakStep == ASSUME IInv, Next, NEW r \in Request, Break(r) PROVE IInv'
<1>1. req' = [req EXCEPT ![r] = Idle] /\ (UNCHANGED answer \/ answer' = Refused("Error"))
  BY DEF Break, Become
<1>2. AnswerInv'
  BY <1>1, RefusalInv, TableSteps, TableGrows, TableTyped, AnswerStays DEF IInv
<1>3. RequestInv(r)'
  BY <1>1, IdleInv DEF IInv, TypeOK
<1> QED BY <1>1, <1>2, <1>3, StepParts

-----------------------------------------------------------------------------
LEMMA NextInv == IInv /\ [Next]_vars => IInv'
<1> SUFFICES ASSUME IInv, [Next]_vars PROVE IInv'
  OBVIOUS
<1>1. CASE UNCHANGED vars
  BY <1>1 DEF vars, IInv, TypeOK, RowsChecked, CreatesChecked, OlderInactive, RowsFound,
              RowsNamed, AnswersAreTrue, RefusedOnlyByNamesake, Named, At
<1>2. CASE Next
  <2>1. PICK r \in Request : Refuse(r) \/ Manage(r) \/ Login(r) \/ Break(r)
    BY <1>2 DEF Next
  <2>2. CASE Refuse(r) \/ Get(r) \/ GetNone(r)
    BY <1>2, <2>2, ReadSteps
  <2>3. CASE Manage(r) /\ ~Get(r) /\ ~GetNone(r)
    BY <1>2, <2>3, CreateSteps, RowSteps DEF Manage
  <2>4. CASE Login(r)
    BY <1>2, <2>4, LoginSteps
  <2>5. CASE Break(r)
    BY <1>2, <2>5, BreakStep
  <2> QED BY <2>1, <2>2, <2>3, <2>4, <2>5
<1> QED BY <1>1, <1>2

LEMMA SeedInv == Init => IInv
<1> SUFFICES ASSUME Init PROVE IInv
  OBVIOUS
<1>1. PICK e \in Email :
        users = <<[email |-> e, active |-> TRUE, admin |-> TRUE, checked |-> 0]>>
  BY DEF Init
<1>2. [email |-> e, active |-> TRUE, admin |-> TRUE, checked |-> 0] \in User
  BY AccountsAssumption DEF User
<1>3. users \in Seq(User) /\ Len(users) = 1 /\ DOMAIN users = {1} /\ users[1].checked = 0
  BY <1>1, <1>2
<1>4. TypeOK
  BY <1>3, AccountsAssumption DEF Init, TypeOK, Answer, None
<1>5. RowsChecked /\ OlderInactive
  BY <1>3 DEF RowsChecked, OlderInactive
<1>6. \A r \in Request : req[r].pc = "idle"
  BY DEF Init, Idle
<1>7. answer.op = "none"
  BY DEF Init, None
<1> QED BY <1>4, <1>5, <1>6, <1>7 DEF IInv, CreatesChecked, RowsFound, RowsNamed,
         AnswersAreTrue, RefusedOnlyByNamesake, At

\* What the theorems below rest on, for every table, and any requests.
THEOREM Invariance == Spec => []IInv
BY SeedInv, NextInv, PTL DEF Spec

\* The state is always of the types declared, and the table within its bound.
THEOREM TypeCorrect == Spec => []TypeOK
BY Invariance, PTL DEF IInv

LEMMA SecondRow == IInv => SecondRowNeedsARace
<1> SUFFICES ASSUME IInv, NEW i \in DOMAIN users, NEW j \in DOMAIN users, i < j,
                    users[i].email = users[j].email
             PROVE  users[j].checked < i /\ ~users[i].active
  BY DEF SecondRowNeedsARace
<1>1. /\ users[j] \in User /\ i \in 1..Len(users) /\ Len(users) \in Nat
      /\ \A k \in 1..users[j].checked : users[k].email # users[j].email
  BY DEF IInv, TypeOK, RowsChecked
<1>2. users[j].checked \in Nat /\ i \in Nat /\ i >= 1
  BY <1>1, AccountsAssumption DEF User
<1>3. i \notin 1..users[j].checked
  BY <1>1
<1>4. ~users[i].active
  BY DEF IInv, OlderInactive
<1> QED BY <1>2, <1>3, <1>4

\* An email gets a second row only by the race of two creates and a deletion, and
\* never two active ones: the check and the partial index together.
THEOREM SecondRowsAreRaces == Spec => []SecondRowNeedsARace
BY Invariance, SecondRow, PTL

\* What create, get, update, delete and login answer is true when it is sent and
\* whatever is done to the table afterwards.
THEOREM AnswersStayTrue == Spec => []AnswersAreTrue
BY Invariance, PTL DEF IInv

\* Login with the password of an active account fails as unknown only where
\* findFirst had a second row of the email to choose.
THEOREM OwnersAreKnown == Spec => []RefusedOnlyByNamesake
BY Invariance, PTL DEF IInv

-----------------------------------------------------------------------------
\* The refinement: the abstract state, and how each change of the table maps.
Registered == {users[i].email : i \in DOMAIN users}
Open == {users[i].email : i \in {j \in DOMAIN users : users[j].active}}
Admins == {users[i].email : i \in {j \in DOMAIN users : users[j].admin}}

LEMMA InsertRefines ==
  ASSUME IInv, NEW r \in Request, Inserts(r), ~Namesakes'
  PROVE  Directory!Next
<1>1. PICK e \in Email : e = req[r].email
  BY Knows DEF Inserts
<1>2. PICK row \in User : row = NewUser(r)
  BY NewRow DEF IInv
<1>3. row.email = e /\ row.active /\ row.admin \in BOOLEAN
  BY <1>1, <1>2 DEF NewUser, User
<1>4. PICK n \in Nat : n = Len(users) + 1
  BY DEF IInv, TypeOK
<1>5. /\ DOMAIN users' = DOMAIN users \cup {n} /\ n \notin DOMAIN users
      /\ users'[n] = row /\ \A i \in DOMAIN users : users'[i] = users[i]
  <2>1. DOMAIN users = 1..Len(users) /\ Len(users) \in Nat
    BY DEF IInv, TypeOK
  <2>2. users' \in Seq(User) /\ Len(users') = n
    BY <1>4, NewRow DEF IInv
  <2>3. DOMAIN users' = 1..n
    BY <2>2
  <2>4. 1..n = DOMAIN users \cup {n} /\ n \notin DOMAIN users
    BY <2>1, <1>4
  <2> QED BY <2>3, <2>4, <1>2, <1>4, NewRow DEF IInv
<1>6. e \notin Registered
  BY <1>3, <1>5 DEF Registered, Namesakes
<1>7. Registered' = Registered \cup {e}
  BY <1>3, <1>5 DEF Registered
<1>8. Open' = Open \cup {e}
  BY <1>3, <1>5 DEF Open
<1>9. Admins' \in {Admins, Admins \cup {e}}
  <2>1. CASE row.admin
    BY <1>3, <1>5, <2>1 DEF Admins
  <2>2. CASE ~row.admin
    BY <1>3, <1>5, <2>2 DEF Admins
  <2> QED BY <2>1, <2>2
<1>10. Directory!Register(e)
  BY <1>6, <1>7, <1>8, <1>9 DEF Directory!Register, Registered, Open, Admins
<1> QED BY <1>10 DEF Directory!Next

LEMMA SetAdminRefines ==
  ASSUME IInv, NEW i \in DOMAIN users, NEW b \in BOOLEAN, SetsAdmin(i, b), ~Namesakes'
  PROVE  Directory!Next
<1>1. PICK e \in Email : e = users[i].email
  <2>1. users[i] \in User
    BY DEF IInv, TypeOK
  <2> QED BY <2>1 DEF User
<1>2. \A j \in DOMAIN users : users[j] \in User
  BY DEF IInv, TypeOK
<1>3. /\ DOMAIN users' = DOMAIN users
      /\ \A j \in DOMAIN users : /\ users'[j].email = users[j].email
                                 /\ users'[j].active = users[j].active
                                 /\ users'[j].admin = IF j = i THEN b ELSE users[j].admin
  BY <1>2 DEF SetsAdmin, User
<1>4. \A j \in DOMAIN users : users[j].email = e => j = i
  BY <1>1, <1>3 DEF Namesakes
<1>5. e \in Registered /\ Registered' = Registered
  BY <1>1, <1>3 DEF Registered
<1>6. Open' = Open
  BY <1>3 DEF Open
<1>7. Admins' \in {Admins \cup {e}, Admins \ {e}}
  <2>1. CASE b
    <3>1. \A x \in Admins' : x \in Admins \/ x = e
      BY <1>1, <1>3 DEF Admins
    <3>2. \A x \in Admins : x \in Admins'
      BY <1>3, <2>1 DEF Admins
    <3>3. e \in Admins'
      BY <1>1, <1>3, <2>1 DEF Admins
    <3> QED BY <3>1, <3>2, <3>3
  <2>2. CASE ~b
    BY <1>1, <1>3, <1>4, <2>2 DEF Admins
  <2> QED BY <2>1, <2>2
<1>8. Directory!SetAdmin(e)
  BY <1>5, <1>6, <1>7 DEF Directory!SetAdmin, Registered, Open, Admins
<1> QED BY <1>8 DEF Directory!Next

LEMMA DeactivateRefines ==
  ASSUME IInv, NEW i \in DOMAIN users, Deactivates(i), ~Namesakes'
  PROVE  Directory!Next
<1>1. PICK e \in Email : e = users[i].email
  <2>1. users[i] \in User
    BY DEF IInv, TypeOK
  <2> QED BY <2>1 DEF User
<1>2. \A j \in DOMAIN users : users[j] \in User
  BY DEF IInv, TypeOK
<1>3. /\ DOMAIN users' = DOMAIN users
      /\ \A j \in DOMAIN users : /\ users'[j].email = users[j].email
                                 /\ users'[j].active = IF j = i THEN FALSE ELSE users[j].active
                                 /\ users'[j].admin = users[j].admin
  BY <1>2 DEF Deactivates, User
<1>4. \A j \in DOMAIN users : users[j].email = e => j = i
  BY <1>1, <1>3 DEF Namesakes
<1>5. Registered' = Registered /\ Admins' = Admins
  BY <1>3 DEF Registered, Admins
<1>6. Open' = Open \ {e}
  <2>1. ASSUME NEW x \in Open' PROVE x \in Open /\ x # e
    <3>1. PICK j \in DOMAIN users' : users'[j].active /\ x = users'[j].email
      BY <2>1 DEF Open
    <3>2. j \in DOMAIN users /\ j # i /\ users[j].active /\ x = users[j].email
      BY <1>3, <3>1
    <3> QED BY <1>4, <3>2 DEF Open
  <2>2. ASSUME NEW x \in Open, x # e PROVE x \in Open'
    <3>1. PICK j \in DOMAIN users : users[j].active /\ x = users[j].email
      BY <2>2 DEF Open
    <3>2. j \in DOMAIN users' /\ users'[j].active /\ x = users'[j].email
      BY <1>1, <1>3, <2>2, <3>1
    <3> QED BY <3>2 DEF Open
  <2> QED BY <2>1, <2>2
<1>7. Directory!Close(e)
  BY <1>5, <1>6 DEF Directory!Close, Registered, Open, Admins
<1> QED BY <1>7 DEF Directory!Next

LEMMA SeedRefines == Init => Directory!Init
<1> SUFFICES ASSUME Init PROVE Directory!Init
  OBVIOUS
<1>1. PICK e \in Email :
        users = <<[email |-> e, active |-> TRUE, admin |-> TRUE, checked |-> 0]>>
  BY DEF Init
<1>2. /\ DOMAIN users = {1} /\ users[1].email = e /\ users[1].active /\ users[1].admin
  BY <1>1
<1> QED BY <1>2 DEF Directory!Init

LEMMA StepRefines == IInv /\ [Next]_vars => [Namesakes' \/ Directory!Next]_users
<1>1. IInv /\ Next => TableStep
  BY TableSteps
<1>2. IInv /\ TableStep /\ ~Namesakes' => Directory!Next \/ UNCHANGED users
  BY InsertRefines, SetAdminRefines, DeactivateRefines DEF TableStep
<1> QED BY <1>1, <1>2 DEF vars

\* As long as no email has two rows, the handlers of /tenancy/users, interleaved,
\* cut off or failing between their reads and writes, implement the directory.
THEOREM Refinement == Spec => ImplementsDirectory
BY Invariance, SeedRefines, StepRefines, PTL DEF Spec, ImplementsDirectory
=============================================================================
