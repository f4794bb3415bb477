------------------------------ MODULE Accounts ------------------------------
(***************************************************************************)
(* User accounts: UsersService next to login by email, cut where a handler *)
(* awaits the database or bcrypt, and what the exception filter answers.   *)
(*                                                                         *)
(* The check for a registered email looks at all rows, the partial unique  *)
(* index only at active ones, and no transaction spans check and insert.   *)
(* Nothing is deleted physically and no call reactivates an account.       *)
(* Who may call what is Access; the counters of failed logins, Lockout.    *)
(***************************************************************************)
EXTENDS Integers, Sequences

CONSTANTS Email, Request,
          MaxUsers      \* bound: rows of users

ASSUME AccountsAssumption == MaxUsers \in Nat \ {0}

VARIABLES
  users,     \* users, in the order of insertion
  req,       \* what each request is doing
  answer     \* history: the last answer sent

vars == <<users, req, answer>>

Unknown == 0        \* an id no row has; a password that is nobody's
Ids == 1..MaxUsers

\* checked is history: the rows there were when the email was checked.
User == [email : Email, active : BOOLEAN, admin : BOOLEAN, checked : 0..MaxUsers]

Idle == [pc |-> "idle"]
Busy == [pc : {"hashing"}, email : Email, admin : BOOLEAN, checked : 0..MaxUsers]
        \cup [pc : {"update"}, id : Ids, admin : BOOLEAN]
        \cup [pc : {"delete"}, id : Ids]
        \cup [pc : {"comparing", "verified"}, email : Email, id : Ids,
              typed : {Unknown} \cup Ids, live : SUBSET Ids]

-----------------------------------------------------------------------------
\* Answers

HttpException == [BadRequest |-> 400, Unauthorized |-> 401, Forbidden |-> 403,
                  NotFound |-> 404, Conflict |-> 409]

\* Faulty variant: errors of Prisma are not recognised.
normalizeHttpOnly(exception) ==
  CASE exception \in DOMAIN HttpException -> HttpException[exception]
    [] exception = "ZodError"             -> 400
    [] exception = "ThrottlerException"   -> 429
    [] OTHER                              -> 500

\* The filter's status for what a handler, pipe or guard throws.
normalize(exception) ==
  CASE exception \in DOMAIN HttpException -> HttpException[exception]
    [] exception = "ZodError"             -> 400
    [] exception = "ThrottlerException"   -> 429
    [] exception = "P2002"                -> 409
    [] exception = "P2025"                -> 404
    [] OTHER                              -> 500

Statuses == {200, 201, 400, 401, 403, 404, 409, 429, 500}

None == [op |-> "none"]
Answer == {None}
          \cup [op : {"create"}, status : Statuses, email : Email, id : {Unknown} \cup Ids]
          \cup [op : {"get", "update", "delete"}, status : Statuses, id : {Unknown} \cup Ids]
          \cup [op : {"login"}, status : Statuses, email : Email, id : {Unknown} \cup Ids,
                typed : {Unknown} \cup Ids, live : SUBSET Ids]
          \cup [op : {"refused"}, status : Statuses]

Created(e, status, i) == [op |-> "create", status |-> status, email |-> e, id |-> i]
OfRow(op, status, i) == [op |-> op, status |-> status, id |-> i]
LoggedIn(e, status, i, typed, live) ==
  [op |-> "login", status |-> status, email |-> e, id |-> i, typed |-> typed, live |-> live]
Refused(exception) == [op |-> "refused", status |-> normalize(exception)]

-----------------------------------------------------------------------------
Named(e) == {i \in DOMAIN users : users[i].email = e}
Live(e) == {i \in Named(e) : users[i].active}
At(r, pc) == req[r].pc = pc
Become(r, state) == req' = [req EXCEPT ![r] = state]
Reply(r, a) == answer' = a /\ Become(r, Idle)

\* The seed has run: it leaves one administrator.
Init == /\ \E e \in Email :
             users = <<[email |-> e, active |-> TRUE, admin |-> TRUE, checked |-> 0]>>
        /\ req = [r \in Request |-> Idle]
        /\ answer = None

\* Throttler, guards and validation refuse a request before its handler runs.
Refuse(r) ==
  /\ At(r, "idle")
  /\ \E x \in {"ThrottlerException", "Unauthorized", "Forbidden", "BadRequest", "ZodError"} :
       answer' = Refused(x)
  /\ UNCHANGED <<users, req>>

\* create: findFirst by email, then bcrypt.
CreateCheck(r, e, admin) ==
  /\ At(r, "idle")
  /\ IF Named(e) = {}
     THEN /\ Become(r, [pc |-> "hashing", email |-> e, admin |-> admin,
                        checked |-> Len(users)])
          /\ UNCHANGED answer
     ELSE Reply(r, Created(e, normalize("Conflict"), Unknown))
  /\ UNCHANGED users

NewUser(r) == [email |-> req[r].email, active |-> TRUE, admin |-> req[r].admin,
               checked |-> req[r].checked]

\* Faulty variant: the emails have no unique index.
CreateUnindexed(r) ==
  /\ At(r, "hashing") /\ Len(users) < MaxUsers
  /\ users' = Append(users, NewUser(r))
  /\ Reply(r, Created(req[r].email, 201, Len(users) + 1))

\* The insert, under the partial unique index on active emails.
Create(r) ==
  /\ At(r, "hashing") /\ Len(users) < MaxUsers /\ Live(req[r].email) = {}
  /\ users' = Append(users, NewUser(r))
  /\ Reply(r, Created(req[r].email, 201, Len(users) + 1))

CreateViolates(r) ==
  /\ At(r, "hashing") /\ Live(req[r].email) # {}
  /\ Reply(r, Created(req[r].email, normalize("P2002"), Unknown))
  /\ UNCHANGED users

-----------------------------------------------------------------------------
\* get, update and softDelete find a row by id, deactivated ones included.

Get(r) == /\ At(r, "idle")
          /\ \E i \in DOMAIN users : answer' = OfRow("get", 200, i)
          /\ UNCHANGED <<users, req>>

GetNone(r) == /\ At(r, "idle")
              /\ \E op \in {"get", "update", "delete"} :
                   answer' = OfRow(op, normalize("NotFound"), Unknown)
              /\ UNCHANGED <<users, req>>

\* An update that leaves out isPlatformAdmin is one that sets it to what it is.
UpdateGet(r, i, admin) ==
  /\ At(r, "idle")
  /\ Become(r, [pc |-> "update", id |-> i, admin |-> admin])
  /\ UNCHANGED <<users, answer>>

\* Faulty variant: an update reactivates the account.
UpdateReactivates(r) ==
  /\ At(r, "update")
  /\ users' = [users EXCEPT ![req[r].id].admin = req[r].admin, ![req[r].id].active = TRUE]
  /\ Reply(r, OfRow("update", 200, req[r].id))

Update(r) ==
  /\ At(r, "update")
  /\ users' = [users EXCEPT ![req[r].id].admin = req[r].admin]
  /\ Reply(r, OfRow("update", 200, req[r].id))

DeleteGet(r, i) ==
  /\ At(r, "idle")
  /\ Become(r, [pc |-> "delete", id |-> i])
  /\ UNCHANGED <<users, answer>>

SoftDelete(r) ==
  /\ At(r, "delete")
  /\ users' = [users EXCEPT ![req[r].id].active = FALSE]
  /\ Reply(r, OfRow("delete", 200, req[r].id))

-----------------------------------------------------------------------------
\* login.  typed is the account whose password the client has typed.

LoginNone(r, e, typed) ==
  /\ At(r, "idle") /\ Named(e) = {}
  /\ answer' = LoggedIn(e, normalize("Unauthorized"), Unknown, typed, {})
  /\ UNCHANGED <<users, req>>

\* Faulty variant: the email is matched as list's search term is, by containment.
LoginFindContains(r, e, typed, i) ==
  /\ At(r, "idle") /\ i \in DOMAIN users /\ Named(e) # {}
  /\ IF users[i].active
     THEN /\ Become(r, [pc |-> "comparing", email |-> e, id |-> i, typed |-> typed,
                        live |-> Live(e)])
          /\ UNCHANGED answer
     ELSE Reply(r, LoggedIn(e, normalize("Unauthorized"), i, typed, Live(e)))
  /\ UNCHANGED users

\* findFirst without an order: of several rows, any.
LoginFind(r, e, typed, i) ==
  /\ At(r, "idle") /\ i \in Named(e)
  /\ IF users[i].active
     THEN /\ Become(r, [pc |-> "comparing", email |-> e, id |-> i, typed |-> typed,
                        live |-> Live(e)])
          /\ UNCHANGED answer
     ELSE Reply(r, LoggedIn(e, normalize("Unauthorized"), i, typed, Live(e)))
  /\ UNCHANGED users

\* checkLockout, and the failure that locks.
LoginLocked(r) == /\ At(r, "comparing")
                  /\ Reply(r, Refused("Forbidden"))
                  /\ UNCHANGED users

Compare(r) ==
  /\ At(r, "comparing")
  /\ IF req[r].typed = req[r].id
     THEN Become(r, [req[r] EXCEPT !.pc = "verified"]) /\ UNCHANGED answer
     ELSE Reply(r, LoggedIn(req[r].email, normalize("Unauthorized"), req[r].id,
                            req[r].typed, req[r].live))
  /\ UNCHANGED users

\* The counters are reset and the tokens made; the row is not read again.
LoginSucceed(r) ==
  /\ At(r, "verified")
  /\ Reply(r, LoggedIn(req[r].email, 200, req[r].id, req[r].typed, req[r].live))
  /\ UNCHANGED users

-----------------------------------------------------------------------------
\* A call of the database fails, which is answered 500, or the process stops.
\* A write that was under way is committed or not.
Break(r) ==
  /\ ~At(r, "idle")
  /\ Become(r, Idle)
  /\ answer' \in {answer, Refused("Error")}
  /\ \/ UNCHANGED users
     \/ /\ At(r, "hashing") /\ Len(users) < MaxUsers /\ Live(req[r].email) = {}
        /\ users' = Append(users, NewUser(r))
     \/ /\ At(r, "update")
        /\ users' = [users EXCEPT ![req[r].id].admin = req[r].admin]
     \/ /\ At(r, "delete")
        /\ users' = [users EXCEPT ![req[r].id].active = FALSE]

Manage(r) == \/ \E e \in Email, admin \in BOOLEAN : CreateCheck(r, e, admin)
             \/ Create(r) \/ CreateViolates(r)
             \/ Get(r) \/ GetNone(r)
             \/ \E i \in DOMAIN users : \/ \E admin \in BOOLEAN : UpdateGet(r, i, admin)
                                        \/ DeleteGet(r, i)
             \/ Update(r) \/ SoftDelete(r)

Login(r) == \/ \E e \in Email, typed \in {Unknown} \cup DOMAIN users :
                 \/ LoginNone(r, e, typed)
                 \/ \E i \in DOMAIN users : LoginFind(r, e, typed, i)
            \/ LoginLocked(r) \/ Compare(r) \/ LoginSucceed(r)

Next == \E r \in Request : Refuse(r) \/ Manage(r) \/ Login(r) \/ Break(r)

Spec == Init /\ [][Next]_vars

-----------------------------------------------------------------------------
\* Type invariant.
TypeOK == /\ users \in Seq(User) /\ Len(users) <= MaxUsers
          /\ req \in [Request -> {Idle} \cup Busy]
          /\ answer \in Answer

\* An email has a second row only if the first was created and deactivated while
\* create was between its check and its insert for the second; so two accounts
\* of one email are never both active (the check of users.service.ts:30-35 and
\* the index unique_active_email).
SecondRowNeedsARace ==
  \A i, j \in DOMAIN users :
    i < j /\ users[i].email = users[j].email
      => users[j].checked < i /\ ~users[i].active

\* An answer is true, and stays so: a conflict names a registered email, however
\* it was noticed, and is never answered as a server error; an account said to
\* be created, found or deleted is; a login is accepted on an account that had
\* this email and password, and was active when the request read it.
AnswersAreTrue ==
  /\ answer.op = "create" =>
       /\ answer.status \in {201, 409}
       /\ IF answer.status = 201
          THEN answer.id \in Named(answer.email)
          ELSE Named(answer.email) # {}
  /\ answer.op \in {"get", "update", "delete"} =>
       answer.status = IF answer.id \in DOMAIN users THEN 200 ELSE 404
  /\ answer.op = "delete" /\ answer.status = 200 => ~users[answer.id].active
  /\ answer.op = "login" /\ answer.status = 200 =>
       answer.id = answer.typed /\ answer.id \in answer.live \cap Named(answer.email)

\* The holder of an active account who types the right password is not refused
\* as unknown, but where the email has a second row, of which login may pick the
\* wrong one (specs/003, US1: valid credentials are accepted).
RefusedOnlyByNamesake ==
  answer.op = "login" /\ answer.status = 401 /\ answer.typed \in answer.live
    => \E i \in Named(answer.email) : i # answer.typed

-----------------------------------------------------------------------------
Namesakes == \E i, j \in DOMAIN users : i # j /\ users[i].email = users[j].email

Directory == INSTANCE AccountDirectory WITH
  registered <- {users[i].email : i \in DOMAIN users},
  open       <- {users[i].email : i \in {j \in DOMAIN users : users[j].active}},
  admins     <- {users[i].email : i \in {j \in DOMAIN users : users[j].admin}}

\* As long as no email has two rows, each call, whatever interleaves or fails,
\* has the effect the contract of /tenancy/users gives it, in one step, or none.
ImplementsDirectory == Directory!Init /\ [][Namesakes' \/ Directory!Next]_users
=============================================================================
