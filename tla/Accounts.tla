------------------------------ MODULE Accounts ------------------------------
(***************************************************************************)
(* The accounts of ReportPulse: app/api/auth.py and app/api/admin.py over  *)
(* the table "user".  A request is one transaction (get_db commits after   *)
(* the route and rolls back on any exception).  get_current_user reads the *)
(* row of the caller and then updates its last_active, so every request    *)
(* with a token holds a lock from there to its end: on its row with        *)
(* PostgreSQL, on the whole file with SQLite.  LockOf says which.          *)
(*                                                                         *)
(* A statement reads what is committed.  Passwords, the age of a token and *)
(* of last_active decide whether a request is let in; that is left open,   *)
(* and so are names and groups.  Keys are UUIDs and are never used again.  *)
(* A route takes a key as text, which GUID turns into the UUID it means:   *)
(* there is the text that str gives it, and there are others (upper case,  *)
(* no hyphens).                                                            *)
(***************************************************************************)
EXTENDS Naturals, FiniteSets

CONSTANTS
    Ids,        \* keys of rows
    Requests,   \* requests the server can have in progress
    Locks,      \* what can be locked
    LockOf      \* the lock that an update of a row takes

None == "none"

ASSUME AccountsAssumption ==
    /\ LockOf \in [Ids -> Locks]
    /\ IsFiniteSet(Requests)
    /\ None \notin Ids \union Requests

VARIABLES
    users,    \* committed rows
    admins,   \* keys of rows with role "admin"; a role is never changed
    used,     \* keys taken so far
    firsts,   \* history: rows register has written since the table was last empty
    holder,   \* the request that holds each lock
    req       \* what each request does, for whom, on which row

vars == <<users, admins, used, firsts, holder, req>>

Ops == {"none", "register", "login", "reset", "use", "create", "assign", "delete"}

\* How the text of a path may spell a key: as str does, or otherwise
Spellings == {"str", "other"}

\* Next: the INSERT of register, the UPDATE of the row of me, the SELECT of the
\* row to change, its UPDATE or DELETE, the commit.
Steps == {"idle", "insert", "touch", "select", "lock", "commit"}

Request == [step : Steps, op : Ops, me : Ids \union {None}, target : Ids \union {None}]

NoRequest == [step |-> "idle", op |-> "none", me |-> None, target |-> None]

Init ==
    /\ users = {} /\ admins = {} /\ used = {} /\ firsts = {}
    /\ holder = [l \in Locks |-> None]
    /\ req = [q \in Requests |-> NoRequest]

-----------------------------------------------------------------------------

Rows == UNCHANGED <<users, admins, used, firsts>>

Goto(q, s) == req' = [req EXCEPT ![q].step = s]

Free(q, u) == holder[LockOf[u]] \in {None, q}

Acquire(q, u) == holder' = [holder EXCEPT ![LockOf[u]] = q]

Released(q) == [l \in Locks |-> IF holder[l] = q THEN None ELSE holder[l]]

\* Mutant: the session is never closed.
MutEnd(q) ==
    /\ UNCHANGED holder
    /\ req' = [req EXCEPT ![q] = NoRequest]

\* Commit or rollback: the transaction is over.
End(q) ==
    /\ holder' = Released(q)
    /\ req' = [req EXCEPT ![q] = NoRequest]

\* Mutant: the table is not looked at.
MutRegister(q) ==
    /\ req[q].step = "idle"
    /\ req' = [req EXCEPT ![q] = [NoRequest EXCEPT !.step = "insert", !.op = "register"]]
    /\ UNCHANGED holder /\ Rows

\* register: only while there is no user.
Register(q) ==
    /\ req[q].step = "idle"
    /\ users = {}
    /\ req' = [req EXCEPT ![q] = [NoRequest EXCEPT !.step = "insert", !.op = "register"]]
    /\ UNCHANGED holder /\ Rows

\* The row of a new user, as an administrator if admin is true.
Write(u, admin) ==
    /\ u \in Ids \ used
    /\ users' = users \union {u}
    /\ used' = used \union {u}
    /\ admins' = IF admin THEN admins \union {u} ELSE admins

RegisterCommit(q, u) ==
    /\ req[q].step = "insert"
    /\ Write(u, TRUE)
    /\ firsts' = firsts \union {u}
    /\ End(q)

\* login, reset_password, or get_current_user for a route: the row is read.
Authenticate(q, u, op) ==
    /\ req[q].step = "idle"
    /\ u \in users
    /\ op \in Ops \ {"none", "register"}
    /\ req' = [req EXCEPT ![q] = [step |-> "touch", op |-> op, me |-> u, target |-> None]]
    /\ UNCHANGED holder /\ Rows

\* Mutant: last_active is written after the answer, in its own transaction.
MutTouch(q) ==
    /\ req[q].step = "touch"
    /\ req[q].me \in users
    /\ Goto(q, IF req[q].op \in {"assign", "delete"} THEN "select" ELSE "commit")
    /\ UNCHANGED holder /\ Rows

\* The flush of last_active, or of the new password; with the row gone it raises, see Refuse.
Touch(q) ==
    /\ req[q].step = "touch"
    /\ Free(q, req[q].me)
    /\ req[q].me \in users
    /\ Acquire(q, req[q].me)
    /\ Goto(q, IF req[q].op \in {"assign", "delete"} THEN "select" ELSE "commit")
    /\ Rows

\* require_admin, then delete_user or assign_user_to_group find the row.  The
\* text of the path is compared with str(admin.id), the row is found by the
\* UUID: in another spelling administrators may delete themselves.
Select(q, u, spelling) ==
    /\ req[q].step = "select"
    /\ req[q].me \in admins
    /\ u \in users
    /\ req[q].op = "delete" => <<u, spelling>> # <<req[q].me, "str">>
    /\ req' = [req EXCEPT ![q].step = "lock", ![q].target = u]
    /\ UNCHANGED holder /\ Rows

\* UPDATE or DELETE of that row; to delete a row that is gone is no error.
Lock(q) ==
    LET u == req[q].target IN
    /\ req[q].step = "lock"
    /\ Free(q, u)
    /\ req[q].op = "assign" => u \in users
    /\ Acquire(q, u)
    /\ Goto(q, "commit")
    /\ Rows

\* The commit of every route but register
Commit(q) ==
    LET r == req[q] IN
    /\ r.step = "commit"
    /\ \/ /\ r.op = "create" /\ r.me \in admins
          /\ \E u \in Ids, admin \in BOOLEAN : Write(u, admin)
          /\ UNCHANGED firsts
       \/ /\ r.op = "delete"
          /\ users' = users \ {r.target}
          /\ firsts' = IF users' = {} THEN {} ELSE firsts
          /\ UNCHANGED <<admins, used>>
       \/ /\ r.op \in {"login", "reset", "use", "assign"}
          /\ Rows
    /\ End(q)

\* An HTTPException or the StaleDataError of a row that has gone.
Refuse(q) ==
    LET r == req[q] IN
    /\ \/ r.step \in {"insert", "select"}
       \/ r.step = "touch" /\ Free(q, r.me) /\ r.me \notin users
       \/ r.step = "lock" /\ Free(q, r.target) /\ r.target \notin users
       \/ r.step = "commit" /\ r.op = "create"
    /\ End(q) /\ Rows

\* What a request waits for
Wanted(q) == IF req[q].step = "touch" THEN req[q].me ELSE req[q].target

Waits(q) == req[q].step \in {"touch", "lock"} /\ ~Free(q, Wanted(q))

\* The database finds requests that wait for each other and ends one.
Deadlock(q) ==
    /\ \E S \in SUBSET Requests :
          /\ q \in S
          /\ \A p \in S : Waits(p) /\ holder[LockOf[Wanted(p)]] \in S
    /\ End(q) /\ Rows

\* The connection or the database is lost, or SQLite's wait times out.
Fail(q) ==
    /\ req[q].step # "idle"
    /\ End(q) /\ Rows

Handle(q) ==
    \/ \E u \in Ids : RegisterCommit(q, u) \/ \E s \in Spellings : Select(q, u, s)
    \/ Touch(q) \/ Lock(q) \/ Commit(q) \/ Refuse(q) \/ Deadlock(q)

Next ==
    \E q \in Requests :
        \/ Register(q)
        \/ \E u \in Ids, op \in Ops : Authenticate(q, u, op)
        \/ Handle(q) \/ Fail(q)

Spec == Init /\ [][Next]_vars

\* A request that can go on does, and those that wait for a lock queue for it.
FairSpec == Spec /\ \A q \in Requests : SF_vars(Handle(q))

-----------------------------------------------------------------------------
(* Properties *)

TypeOK ==
    /\ users \subseteq used /\ admins \subseteq used /\ firsts \subseteq used
    /\ used \subseteq Ids
    /\ holder \in [Locks -> Requests \union {None}]
    /\ req \in [Requests -> Request]

\* The account a request acts for is not deleted under it: from the update of
\* last_active to the end of the request its row stays.
ActorRemains ==
    \A q \in Requests :
        req[q].step \in {"select", "lock", "commit"} => req[q].me \in users

\* However administrators delete each other, one remains: the last one goes
\* only by its own request, with its own id in a spelling that delete_user
\* does not recognise.  (Then nobody is left to create users, and once the last
\* user is gone registration is open again.)
LastAdminGoesByItself ==
    [][users \intersect admins # {} /\ users' \intersect admins' = {}
        => \E q \in Requests :
             /\ req[q].step = "commit" /\ req[q].op = "delete"
             /\ req[q].target = req[q].me
             /\ req'[q] = NoRequest]_vars

Registering == {q \in Requests : req[q].step = "insert"}

\* register reads the table before it writes and nothing else keeps a second
\* first user out: from one time the table is empty to the next, there are at
\* most as many as requests that can race.
FirstsBounded ==
    Cardinality(firsts) + Cardinality(Registering) <= Cardinality(Requests)

\* Every request ends, also when requests lock rows in opposite orders.
RequestsEnd == \A q \in Requests : req[q].step # "idle" ~> req[q].step = "idle"
=============================================================================
