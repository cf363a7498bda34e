--------------------------- MODULE AccountsProofs ---------------------------
(***************************************************************************)
(* The accounts of ReportPulse for any number of rows and requests and for *)
(* any mapping of rows to locks, from a lock per row to one lock for all.  *)
(*                                                                         *)
(* What keeps the row of a request is the lock that the update of          *)
(* last_active takes: a request holds the lock of its own row (HoldsOwn)   *)
(* and, before it deletes a row, the lock of that one (HoldsTarget), so    *)
(* the row of a request at its commit is nobody else's target.             *)
(***************************************************************************)
EXTENDS Accounts, FiniteSetTheorems, TLAPS

\* After Touch a request has an operation with a token, its row is there and
\* locked for it.
HoldsOwn ==
    \A q \in Requests :
        req[q].step \in {"select", "lock", "commit"} =>
            /\ req[q].op \in Ops \ {"none", "register"}
            /\ req[q].me \in users
            /\ holder[LockOf[req[q].me]] = q

\* A deletion is an administrator's, of a row that is locked at the commit.
HoldsTarget ==
    \A q \in Requests :
        req[q].op = "delete" /\ req[q].step \in {"lock", "commit"} =>
            /\ req[q].me \in admins
            /\ req[q].target \in Ids
            /\ req[q].step = "commit" => holder[LockOf[req[q].target]] = q

\* A request that waits to touch or to change a row knows which.
Named ==
    \A q \in Requests :
        /\ req[q].step = "touch" => req[q].me \in Ids /\ req[q].op \notin {"none", "register"}
        /\ req[q].step = "lock" => req[q].target \in Ids

\* In an empty table nobody has registered.
EmptyFirsts == users = {} => firsts = {}

IInv ==
    /\ TypeOK /\ HoldsOwn /\ HoldsTarget /\ Named
    /\ EmptyFirsts
    /\ IsFiniteSet(firsts) /\ FirstsBounded

-----------------------------------------------------------------------------

\* The end of a request keeps the types of requests and locks.
LEMMA EndType ==
    ASSUME AccountsAssumption, TypeOK, NEW q \in Requests, End(q)
    PROVE  /\ holder' \in [Locks -> Requests \union {None}]
           /\ req' = [req EXCEPT ![q] = NoRequest]
           /\ req' \in [Requests -> Request]
BY DEF End, Released, NoRequest, Request, Ops, Steps, TypeOK

\* Every step keeps the types.
LEMMA NextType == AccountsAssumption /\ TypeOK /\ [Next]_vars => TypeOK'
<1> SUFFICES ASSUME AccountsAssumption, TypeOK, [Next]_vars PROVE TypeOK'
  OBVIOUS
<1> USE DEF TypeOK, Rows, Request, Steps, Ops, NoRequest
<1>1. ASSUME NEW q \in Requests, Register(q) PROVE TypeOK'
  BY <1>1 DEF Register
<1>2. ASSUME NEW q \in Requests, NEW u \in Ids, NEW op \in Ops, Authenticate(q, u, op)
      PROVE  TypeOK'
  BY <1>2 DEF Authenticate
<1>3. ASSUME NEW q \in Requests, NEW u \in Ids, RegisterCommit(q, u) PROVE TypeOK'
  BY <1>3, EndType DEF RegisterCommit, Write
<1>4. ASSUME NEW q \in Requests, NEW u \in Ids, NEW s \in Spellings,
             Select(q, u, s)
      PROVE  TypeOK'
  BY <1>4 DEF Select
<1>5. ASSUME NEW q \in Requests, Touch(q) PROVE TypeOK'
  BY <1>5 DEF Touch, Acquire, Goto
<1>6. ASSUME NEW q \in Requests, Lock(q) PROVE TypeOK'
  BY <1>6 DEF Lock, Acquire, Goto
<1>7. ASSUME NEW q \in Requests, Commit(q) PROVE TypeOK'
  <2>1. holder' \in [Locks -> Requests \union {None}] /\ req' \in [Requests -> Request]
    BY <1>7, EndType DEF Commit
  <2>2. /\ users' \subseteq used' /\ admins' \subseteq used' /\ firsts' \subseteq used'
        /\ used' \subseteq Ids
    BY <1>7 DEF Commit, Write, Rows
  <2> QED
    BY <2>1, <2>2
<1>8. ASSUME NEW q \in Requests, Refuse(q) \/ Deadlock(q) \/ Fail(q) PROVE TypeOK'
  BY <1>8, EndType DEF Refuse, Deadlock, Fail
<1>9. CASE UNCHANGED vars
  BY <1>9 DEF vars
<1> QED
  BY <1>1, <1>2, <1>3, <1>4, <1>5, <1>6, <1>7, <1>8, <1>9 DEF Next, Handle

-----------------------------------------------------------------------------
(* Locks *)

\* A request that ends leaves the locks of the others, and none to itself.
LEMMA OthersKeep ==
    ASSUME AccountsAssumption, TypeOK, NEW q \in Requests, End(q),
           NEW p \in Requests, p # q, NEW u \in Ids, holder[LockOf[u]] = p
    PROVE  holder'[LockOf[u]] = p /\ req'[p] = req[p] /\ req'[q] = NoRequest
BY DEF End, Released, TypeOK, AccountsAssumption

\* What the locks are held for survives a request that ends and deletes no
\* row but, perhaps, the target of its commit.
LEMMA EndHolds ==
    ASSUME AccountsAssumption, TypeOK, HoldsOwn, HoldsTarget, Named,
           NEW q \in Requests, End(q), admins \subseteq admins',
           \/ users \subseteq users'
           \/ /\ users' = users \ {req[q].target}
              /\ req[q].op = "delete" /\ req[q].step = "commit"
    PROVE  HoldsOwn' /\ HoldsTarget' /\ Named'
<1>1. req' = [req EXCEPT ![q] = NoRequest]
  BY EndType
<1>2. req'[q].step = "idle" /\ req'[q].op = "none"
  BY <1>1 DEF NoRequest, TypeOK
<1>3. ASSUME NEW p \in Requests, p # q PROVE req'[p] = req[p]
  BY <1>1, <1>3 DEF TypeOK
<1>4. ASSUME NEW p \in Requests, p # q, req[p].step \in {"select", "lock", "commit"}
      PROVE  req[p].me \in users' /\ holder'[LockOf[req[p].me]] = p
  <2>1. req[p].me \in users /\ req[p].me \in Ids /\ holder[LockOf[req[p].me]] = p
    BY <1>4 DEF HoldsOwn, TypeOK
  <2>2. ASSUME req[q].op = "delete", req[q].step = "commit" PROVE req[p].me # req[q].target
    BY <1>4, <2>1, <2>2 DEF HoldsTarget
  <2> QED
    BY <1>4, <2>1, <2>2, OthersKeep
<1>5. HoldsOwn'
  BY <1>2, <1>3, <1>4 DEF HoldsOwn
<1>6. HoldsTarget'
  <2> SUFFICES ASSUME NEW p \in Requests,
                      req'[p].op = "delete", req'[p].step \in {"lock", "commit"}
               PROVE  /\ req'[p].me \in admins'
                      /\ req'[p].target \in Ids
                      /\ req'[p].step = "commit" => holder'[LockOf[req'[p].target]] = p
    BY DEF HoldsTarget
  <2>1. p # q /\ req'[p] = req[p]
    BY <1>2, <1>3
  <2>2. /\ req[p].me \in admins
        /\ req[p].target \in Ids
        /\ req[p].step = "commit" => holder[LockOf[req[p].target]] = p
    BY <2>1 DEF HoldsTarget
  <2> QED
    BY <2>1, <2>2, OthersKeep
<1>7. Named'
  BY <1>2, <1>3 DEF Named
<1> QED
  BY <1>5, <1>6, <1>7

\* To take a lock that is free, or its own, costs no other request a lock.
LEMMA AcquireKeeps ==
    ASSUME AccountsAssumption, TypeOK, NEW q \in Requests, NEW v \in Ids,
           Free(q, v), Acquire(q, v)
    PROVE  /\ holder'[LockOf[v]] = q
           /\ \A p \in Requests, u \in Ids :
                holder[LockOf[u]] = p => holder'[LockOf[u]] = p
BY DEF Free, Acquire, TypeOK, AccountsAssumption

\* Every step keeps what the locks are held for.
LEMMA HoldsKeep ==
    AccountsAssumption /\ IInv /\ [Next]_vars => HoldsOwn' /\ HoldsTarget' /\ Named'
<1> SUFFICES ASSUME AccountsAssumption, IInv, [Next]_vars
             PROVE  HoldsOwn' /\ HoldsTarget' /\ Named'
  OBVIOUS
<1>0. TypeOK /\ HoldsOwn /\ HoldsTarget /\ Named
  BY DEF IInv
<1>1. ASSUME NEW q \in Requests, Register(q) PROVE HoldsOwn' /\ HoldsTarget' /\ Named'
  BY <1>0, <1>1 DEF Register, Rows, NoRequest, TypeOK, HoldsOwn, HoldsTarget, Named
<1>2. ASSUME NEW q \in Requests, NEW u \in Ids, NEW op \in Ops, Authenticate(q, u, op)
      PROVE  HoldsOwn' /\ HoldsTarget' /\ Named'
  BY <1>0, <1>2 DEF Authenticate, Rows, TypeOK, HoldsOwn, HoldsTarget, Named
<1>3. ASSUME NEW q \in Requests, NEW u \in Ids, RegisterCommit(q, u)
      PROVE  HoldsOwn' /\ HoldsTarget' /\ Named'
  BY <1>0, <1>3, EndHolds DEF RegisterCommit, Write
<1>4. ASSUME NEW q \in Requests, NEW u \in Ids, NEW s \in Spellings,
             Select(q, u, s)
      PROVE  HoldsOwn' /\ HoldsTarget' /\ Named'
  BY <1>0, <1>4 DEF Select, Rows, TypeOK, Request, HoldsOwn, HoldsTarget, Named
<1>5. ASSUME NEW q \in Requests, Touch(q) PROVE HoldsOwn' /\ HoldsTarget' /\ Named'
  <2>1. req[q].me \in Ids /\ req[q].op \in Ops \ {"none", "register"} /\ req[q].step = "touch"
    BY <1>0, <1>5 DEF Touch, Named, TypeOK, Request
  <2>2. /\ holder'[LockOf[req[q].me]] = q
        /\ \A p \in Requests, u \in Ids :
                holder[LockOf[u]] = p => holder'[LockOf[u]] = p
    BY <1>0, <1>5, <2>1, AcquireKeeps DEF Touch
  <2>3. UNCHANGED <<users, admins>> /\ req[q].me \in users
    BY <1>5 DEF Touch, Rows
  <2>4. PICK s \in {"select", "commit"} :
            /\ req' = [req EXCEPT ![q].step = s]
            /\ req[q].op = "delete" => s = "select"
    BY <1>5 DEF Touch, Goto
  <2>5. HoldsOwn'
    BY <1>0, <2>1, <2>2, <2>3, <2>4 DEF HoldsOwn, TypeOK
  <2>6. HoldsTarget'
    BY <1>0, <2>1, <2>2, <2>3, <2>4 DEF HoldsTarget, TypeOK
  <2>7. Named'
    BY <1>0, <2>1, <2>4 DEF Named, TypeOK
  <2> QED
    BY <2>5, <2>6, <2>7
<1>6. ASSUME NEW q \in Requests, Lock(q) PROVE HoldsOwn' /\ HoldsTarget' /\ Named'
  <2>1. req[q].target \in Ids /\ req[q].step = "lock"
    BY <1>0, <1>6 DEF Lock, Named
  <2>2. /\ holder'[LockOf[req[q].target]] = q
        /\ \A p \in Requests, u \in Ids :
                holder[LockOf[u]] = p => holder'[LockOf[u]] = p
    BY <1>0, <1>6, <2>1, AcquireKeeps DEF Lock
  <2>3. UNCHANGED <<users, admins>> /\ req' = [req EXCEPT ![q].step = "commit"]
    BY <1>6 DEF Lock, Rows, Goto
  <2>4. HoldsOwn'
    BY <1>0, <2>1, <2>2, <2>3 DEF HoldsOwn, TypeOK
  <2>5. HoldsTarget'
    BY <1>0, <2>1, <2>2, <2>3 DEF HoldsTarget, TypeOK
  <2>6. Named'
    BY <1>0, <2>3 DEF Named, TypeOK
  <2> QED
    BY <2>4, <2>5, <2>6
<1>7. ASSUME NEW q \in Requests, Commit(q) PROVE HoldsOwn' /\ HoldsTarget' /\ Named'
  BY <1>0, <1>7, EndHolds DEF Commit, Write, Rows
<1>8. ASSUME NEW q \in Requests, Refuse(q) \/ Deadlock(q) \/ Fail(q)
      PROVE  HoldsOwn' /\ HoldsTarget' /\ Named'
  BY <1>0, <1>8, EndHolds DEF Refuse, Deadlock, Fail, Rows
<1>9. CASE UNCHANGED vars
  BY <1>0, <1>9 DEF vars, HoldsOwn, HoldsTarget, Named
<1> QED
  BY <1>1, <1>2, <1>3, <1>4, <1>5, <1>6, <1>7, <1>8, <1>9 DEF Next, Handle

-----------------------------------------------------------------------------
(* Administrators *)

\* One step of LastAdminGoesByItself
GoesByItself ==
    users \intersect admins # {} /\ users' \intersect admins' = {}
        => \E q \in Requests :
             /\ req[q].step = "commit" /\ req[q].op = "delete"
             /\ req[q].target = req[q].me
             /\ req'[q] = NoRequest

\* Only the commit of a deletion takes an administrator away.  The one that
\* deletes is there, for its own row is locked; so it stays if it is not its own
\* target.
LEMMA AdminGoes == AccountsAssumption /\ IInv /\ [Next]_vars => GoesByItself
<1> SUFFICES ASSUME AccountsAssumption, IInv, [Next]_vars PROVE GoesByItself
  OBVIOUS
<1> USE DEF IInv, GoesByItself
<1>1. CASE UNCHANGED <<users, admins>>
  BY <1>1
<1>2. ASSUME NEW u \in Ids, NEW admin \in BOOLEAN, Write(u, admin) PROVE GoesByItself
  BY <1>2 DEF Write
<1>3. ASSUME NEW q \in Requests, Commit(q) PROVE GoesByItself
  <2>1. CASE req[q].op = "create"
    BY <1>2, <1>3, <2>1 DEF Commit
  <2>2. CASE req[q].op = "delete"
    <3>1. req[q].step = "commit" /\ req[q].me \in admins /\ req[q].me \in users
      BY <1>3, <2>2 DEF Commit, HoldsTarget, HoldsOwn
    <3>2. users' = users \ {req[q].target} /\ UNCHANGED admins /\ End(q)
      BY <1>3, <2>2 DEF Commit
    <3>3. req'[q] = NoRequest
      BY <3>2, EndType DEF TypeOK
    <3> QED
      BY <2>2, <3>1, <3>2, <3>3
  <2> QED
    BY <1>1, <1>3, <2>1, <2>2 DEF Commit, Rows
<1>4. ASSUME NEW q \in Requests, NEW u \in Ids, RegisterCommit(q, u) PROVE GoesByItself
  BY <1>2, <1>4 DEF RegisterCommit
<1> QED
  BY <1>1, <1>3, <1>4
  DEF Next, Handle, Register, Authenticate, Select, Touch, Lock, Refuse, Deadlock, Fail,
      Rows, vars

-----------------------------------------------------------------------------
(* First users *)

\* A set of requests is finite.
LEMMA FiniteRegistering ==
    ASSUME AccountsAssumption
    PROVE  /\ IsFiniteSet(Registering) /\ Cardinality(Registering) \in Nat
           /\ Cardinality(Requests) \in Nat
           /\ Cardinality(Registering) <= Cardinality(Requests)
<1>1. Registering \subseteq Requests
  BY DEF Registering
<1> QED
  BY <1>1, FS_Subset, FS_CardinalityType DEF AccountsAssumption

\* Rows are added, or firsts is emptied with them.
LEMMA EmptyKeeps == AccountsAssumption /\ IInv /\ [Next]_vars => EmptyFirsts'
<1> SUFFICES ASSUME AccountsAssumption, IInv, [Next]_vars PROVE EmptyFirsts'
  OBVIOUS
<1> USE DEF IInv, EmptyFirsts
<1>1. CASE UNCHANGED <<users, firsts>>
  BY <1>1
<1>2. ASSUME NEW u \in Ids, NEW admin \in BOOLEAN, Write(u, admin) PROVE EmptyFirsts'
  BY <1>2 DEF Write
<1>3. ASSUME NEW q \in Requests, Commit(q) PROVE EmptyFirsts'
  BY <1>1, <1>2, <1>3 DEF Commit, Rows
<1>4. ASSUME NEW q \in Requests, NEW u \in Ids, RegisterCommit(q, u) PROVE EmptyFirsts'
  BY <1>2, <1>4 DEF RegisterCommit
<1> QED
  BY <1>1, <1>3, <1>4
  DEF Next, Handle, Register, Authenticate, Select, Touch, Lock, Refuse, Deadlock, Fail,
      Rows, vars

\* Register is enabled only in an empty table, and then nobody has registered
\* before; a commit moves one from the requests to the rows.
LEMMA FirstsKeep ==
    AccountsAssumption /\ IInv /\ [Next]_vars => IsFiniteSet(firsts)' /\ FirstsBounded'
<1> SUFFICES ASSUME AccountsAssumption, IInv, [Next]_vars
             PROVE  IsFiniteSet(firsts)' /\ FirstsBounded'
  OBVIOUS
<1>0. /\ TypeOK /\ EmptyFirsts /\ IsFiniteSet(firsts) /\ FirstsBounded
      /\ Cardinality(firsts) \in Nat
  BY FS_CardinalityType DEF IInv
<1>1. /\ IsFiniteSet(Registering) /\ Cardinality(Registering) \in Nat
      /\ Cardinality(Requests) \in Nat
  BY FiniteRegistering
<1>2. ASSUME firsts' \in {firsts, {}}, Registering' \subseteq Registering
      PROVE  IsFiniteSet(firsts)' /\ FirstsBounded'
  <2>1. Cardinality(Registering') <= Cardinality(Registering)
        /\ Cardinality(Registering') \in Nat
    BY <1>1, <1>2, FS_Subset, FS_CardinalityType
  <2> QED
    BY <1>0, <1>1, <1>2, <2>1, FS_EmptySet DEF FirstsBounded
<1>3. ASSUME NEW q \in Requests, Register(q) PROVE IsFiniteSet(firsts)' /\ FirstsBounded'
  <2>1. firsts = {} /\ firsts' = {}
    BY <1>0, <1>3 DEF Register, Rows, EmptyFirsts
  <2>2. Registering' \subseteq Requests
    BY DEF Registering
  <2>3. Cardinality(Registering') <= Cardinality(Requests)
    BY <2>2, FS_Subset DEF AccountsAssumption
  <2>4. Cardinality(Registering') \in Nat
    BY <2>2, FS_Subset, FS_CardinalityType DEF AccountsAssumption
  <2> QED
    BY <1>0, <1>1, <2>1, <2>3, <2>4, FS_EmptySet DEF FirstsBounded
<1>4. ASSUME NEW q \in Requests, NEW u \in Ids, RegisterCommit(q, u)
      PROVE  IsFiniteSet(firsts)' /\ FirstsBounded'
  <2>1. req' = [req EXCEPT ![q] = NoRequest] /\ req[q].step = "insert"
    BY <1>0, <1>4, EndType DEF RegisterCommit
  <2>2. q \in Registering /\ Registering' = Registering \ {q}
    BY <1>0, <2>1 DEF Registering, NoRequest, TypeOK
  <2>3. Cardinality(Registering') = Cardinality(Registering) - 1
    BY <1>1, <2>2, FS_RemoveElement
  <2>4. u \notin firsts /\ firsts' = firsts \union {u}
    BY <1>0, <1>4 DEF RegisterCommit, Write, TypeOK
  <2>5. IsFiniteSet(firsts') /\ Cardinality(firsts') = Cardinality(firsts) + 1
    BY <1>0, <2>4, FS_AddElement
  <2> QED
    BY <1>0, <1>1, <2>3, <2>5 DEF FirstsBounded
<1>5. ASSUME NEW q \in Requests,
             \/ Touch(q) \/ Lock(q) \/ Commit(q) \/ Refuse(q) \/ Deadlock(q) \/ Fail(q)
             \/ \E u \in Ids, s \in Spellings : Select(q, u, s)
             \/ \E u \in Ids, op \in Ops : Authenticate(q, u, op)
      PROVE  IsFiniteSet(firsts)' /\ FirstsBounded'
  <2>1. firsts' \in {firsts, {}}
    BY <1>5 DEF Touch, Lock, Commit, Refuse, Deadlock, Fail, Select, Authenticate, Rows
  <2>2. req'[q].step # "insert" /\ \A p \in Requests \ {q} : req'[p] = req[p]
    BY <1>0, <1>5, EndType
    DEF Touch, Lock, Commit, Refuse, Deadlock, Fail, Select, Authenticate, Goto, TypeOK,
        Request, NoRequest
  <2> QED
    BY <1>2, <2>1, <2>2 DEF Registering
<1>6. CASE UNCHANGED vars
  BY <1>2, <1>6 DEF vars, Registering
<1> QED
  BY <1>3, <1>4, <1>5, <1>6 DEF Next, Handle

-----------------------------------------------------------------------------
(* The theorems *)

\* No rows, no requests.
LEMMA InitIInv == AccountsAssumption /\ Init => IInv
<1> SUFFICES ASSUME AccountsAssumption, Init PROVE IInv
  OBVIOUS
<1>1. TypeOK
  BY DEF Init, TypeOK, NoRequest, Request, Steps, Ops
<1>2. HoldsOwn /\ HoldsTarget /\ Named /\ EmptyFirsts
  BY DEF Init, NoRequest, HoldsOwn, HoldsTarget, Named, EmptyFirsts
<1>3. IsFiniteSet(firsts) /\ Cardinality(firsts) = 0
  BY FS_EmptySet DEF Init
<1> QED
  BY <1>1, <1>2, <1>3, FiniteRegistering DEF IInv, FirstsBounded

\* Every step keeps all parts of the invariant.
LEMMA NextIInv == AccountsAssumption /\ IInv /\ [Next]_vars => IInv'
<1> SUFFICES ASSUME AccountsAssumption, IInv, [Next]_vars PROVE IInv'
  OBVIOUS
<1>1. TypeOK'
  BY NextType DEF IInv
<1> QED
  BY <1>1, HoldsKeep, EmptyKeeps, FirstsKeep DEF IInv

\* The parts of the invariant hold in every reachable state.
THEOREM Inductive == Spec => []IInv
<1>1. AccountsAssumption
  BY AccountsAssumption
<1> QED
  BY <1>1, InitIInv, NextIInv, PTL DEF Spec

\* Every variable of the accounts keeps its type.
THEOREM TypeCorrect == Spec => []TypeOK
BY Inductive, PTL DEF IInv

\* The row of a request in progress is not deleted by another one.
THEOREM ActorAlwaysRemains == Spec => []ActorRemains
<1>1. IInv => ActorRemains
  BY DEF IInv, HoldsOwn, ActorRemains
<1> QED
  BY <1>1, Inductive, PTL

\* However administrators delete each other, the last one goes only by its own
\* request.
THEOREM LastAdminAlwaysGoesByItself == Spec => LastAdminGoesByItself
<1>1. AccountsAssumption
  BY AccountsAssumption
<1>2. AccountsAssumption /\ IInv /\ [Next]_vars => [GoesByItself]_vars
  BY AdminGoes
<1>3. [][GoesByItself]_vars => LastAdminGoesByItself
  BY PTL DEF GoesByItself, LastAdminGoesByItself
<1> QED
  BY <1>1, <1>2, <1>3, Inductive, PTL DEF Spec

\* From an empty table, registration makes at most as many administrators as
\* requests can race.
THEOREM FirstsStayBounded == Spec => []FirstsBounded
BY Inductive, PTL DEF IInv
=============================================================================
