--------------------- MODULE LimiterAndMonitoringProofs ---------------------
(***************************************************************************)
(* Two parts of the AIOps backend whose requests overlap: the login        *)
(* limiter, and the monitoring of instances with its recommendations. Each *)
(* is specified alone; here are the theorems about both.                   *)
(***************************************************************************)
EXTENDS LoginLimiter, Monitoring, FiniteSetTheorems, TLAPS

-----------------------------------------------------------------------------
(***************************************************************************)
(* The login limiter                                                       *)
(*                                                                         *)
(* A window never overruns by more than the requests the server can hold,  *)
(* for every number of users, requests and attempts. OverrunBounded is     *)
(* inductive together with TypeOK: a request enters InFlight only while    *)
(* the window has room (Admit), what it adds to the window it takes from   *)
(* InFlight (RecordFailure), and a window only loses rows by the clock or  *)
(* by a reset.                                                             *)
(***************************************************************************)

\* The state is well typed from the start and every handler keeps it so.
THEOREM LimiterTypeCorrect == Spec => []TypeOK
<1>1. Init => TypeOK
  BY LimiterAssumption DEF Init, TypeOK, Steps
<1>2. TypeOK /\ [Next]_vars => TypeOK'
  <2> SUFFICES ASSUME TypeOK, [Next]_vars PROVE TypeOK'
    OBVIOUS
  <2> USE DEF TypeOK, Steps, Goto
  <2>1. CASE Tick
    BY <2>1 DEF Tick
  <2>2. ASSUME NEW q \in Requests, NEW u \in Users, Submit(q, u)
        PROVE  TypeOK'
    BY <2>2 DEF Submit
  <2>3. ASSUME NEW q \in Requests, Refuse(q) \/ Admit(q) \/ Verify(q)
        PROVE  TypeOK'
    BY <2>3 DEF Refuse, Admit, Verify
  <2>4. ASSUME NEW q \in Requests, RecordFailure(q)
        PROVE  TypeOK'
    <3>1. Append(failures[user[q]], now) \in Seq(Nat)
      OBVIOUS
    <3> QED
      BY <2>4, <3>1 DEF RecordFailure
  <2>5. ASSUME NEW q \in Requests, Reset(q)
        PROVE  TypeOK'
    BY <2>5 DEF Reset
  <2>6. CASE UNCHANGED vars
    BY <2>6 DEF vars
  <2> QED
    BY <2>1, <2>2, <2>3, <2>4, <2>5, <2>6 DEF Next, Handle
<1> QED
  BY <1>1, <1>2, PTL DEF Spec

-----------------------------------------------------------------------------

\* The two sets the bound adds up are finite, so their sizes are numbers.
LEMMA FiniteParts ==
    ASSUME TypeOK, NEW u \in Users
    PROVE  /\ IsFiniteSet(Recent(u)) /\ Cardinality(Recent(u)) \in Nat
           /\ IsFiniteSet(InFlight(u)) /\ Cardinality(InFlight(u)) \in Nat
           /\ Cardinality(InFlight(u)) <= Cardinality(Requests)
           /\ Cardinality(Requests) \in Nat
           /\ Recent(u) \subseteq 1 .. Len(failures[u])
<1>1. Recent(u) \subseteq 1 .. Len(failures[u])
  BY DEF TypeOK, Recent
<1>2. IsFiniteSet(1 .. Len(failures[u]))
  BY FS_Interval DEF TypeOK
<1>3. InFlight(u) \subseteq Requests
  BY DEF InFlight
<1> QED
  BY <1>1, <1>2, <1>3, LimiterAssumption, FS_Subset, FS_CardinalityType

\* A smaller window and fewer requests in flight keep the sum within the bound.
LEMMA FewerIsWithin ==
    ASSUME TypeOK, TypeOK', NEW u \in Users,
           Cardinality(Recent(u)) + Cardinality(InFlight(u))
               <= (MaxAttempts - 1) + Cardinality(Requests),
           Recent(u)' \subseteq Recent(u), InFlight(u)' \subseteq InFlight(u)
    PROVE  Cardinality(Recent(u)') + Cardinality(InFlight(u)')
               <= (MaxAttempts - 1) + Cardinality(Requests)
<1>1. Cardinality(Recent(u)') <= Cardinality(Recent(u))
  BY FiniteParts, FS_Subset
<1>2. Cardinality(InFlight(u)') <= Cardinality(InFlight(u))
  BY FiniteParts, FS_Subset
<1>3. Cardinality(Recent(u)') \in Nat /\ Cardinality(InFlight(u)') \in Nat
  BY FiniteParts, FS_Subset, FS_CardinalityType
<1> QED
  BY <1>1, <1>2, <1>3, FiniteParts, LimiterAssumption

\* One more failure in the window of the user, one request less in flight.
LEMMA RecordMovesOne ==
    ASSUME TypeOK, TypeOK', OverrunBounded, NEW q \in Requests,
           RecordFailure(q), NEW u \in Users
    PROVE  Cardinality(Recent(u)') + Cardinality(InFlight(u)')
               <= (MaxAttempts - 1) + Cardinality(Requests)
<1>1. CASE u # user[q]
  <2>1. Recent(u)' = Recent(u) /\ InFlight(u)' \subseteq InFlight(u)
    BY <1>1 DEF TypeOK, RecordFailure, Recent, InFlight, Goto
  <2> QED
    BY <2>1, FewerIsWithin DEF OverrunBounded
<1>2. CASE u = user[q]
  <2> DEFINE new == Len(failures[u]) + 1
  <2>1. InFlight(u)' = InFlight(u) \ {q} /\ q \in InFlight(u)
    BY <1>2 DEF TypeOK, RecordFailure, InFlight, Goto
  <2>2. Recent(u)' \subseteq Recent(u) \union {new} /\ new \notin Recent(u)
    <3>1. failures'[u] = Append(failures[u], now) /\ now' = now
      BY <1>2 DEF TypeOK, RecordFailure
    <3> QED
      BY <3>1 DEF TypeOK, Recent
  <2>3. /\ Cardinality(Recent(u) \union {new}) = Cardinality(Recent(u)) + 1
        /\ IsFiniteSet(Recent(u) \union {new})
    BY <2>2, FiniteParts, FS_AddElement
  <2>4. /\ Cardinality(Recent(u)') <= Cardinality(Recent(u)) + 1
        /\ Cardinality(Recent(u)') \in Nat
    BY <2>2, <2>3, FS_Subset, FS_CardinalityType
  <2>5. Cardinality(InFlight(u)') = Cardinality(InFlight(u)) - 1
    BY <2>1, FiniteParts, FS_RemoveElement
  <2> QED
    BY <2>4, <2>5, FiniteParts, LimiterAssumption DEF OverrunBounded
<1> QED
  BY <1>1, <1>2

\* A request is let through only while the window has room for a failure more.
LEMMA AdmitFindsRoom ==
    ASSUME TypeOK, TypeOK', OverrunBounded, NEW q \in Requests,
           Admit(q), NEW u \in Users
    PROVE  Cardinality(Recent(u)') + Cardinality(InFlight(u)')
               <= (MaxAttempts - 1) + Cardinality(Requests)
<1>1. Recent(u)' = Recent(u)
  BY DEF Admit, Recent
<1>2. CASE u # user[q]
  <2>1. InFlight(u)' \subseteq InFlight(u)
    BY <1>2 DEF TypeOK, Admit, InFlight, Goto
  <2> QED
    BY <1>1, <2>1, FewerIsWithin DEF OverrunBounded
<1>3. CASE u = user[q]
  <2>1. Cardinality(Recent(u)) <= MaxAttempts - 1
    BY <1>3, FiniteParts, LimiterAssumption DEF Admit, IsLocked
  <2>2. InFlight(u)' \subseteq Requests
    BY DEF InFlight
  <2>3. /\ Cardinality(InFlight(u)') <= Cardinality(Requests)
        /\ Cardinality(InFlight(u)') \in Nat
    BY <2>2, LimiterAssumption, FS_Subset, FS_CardinalityType
  <2> QED
    BY <1>1, <2>1, <2>3, FiniteParts, LimiterAssumption
<1> QED
  BY <1>2, <1>3

\* A new user has no window, a reset empties it and the clock only shortens it.
LEMMA NextOverrunBounded ==
    TypeOK /\ TypeOK' /\ OverrunBounded /\ [Next]_vars => OverrunBounded'
<1> SUFFICES ASSUME TypeOK, TypeOK', OverrunBounded, [Next]_vars, NEW u \in Users
             PROVE  Cardinality(Recent(u)') + Cardinality(InFlight(u)')
                        <= (MaxAttempts - 1) + Cardinality(Requests)
  BY DEF OverrunBounded
<1>0. Cardinality(Recent(u)) + Cardinality(InFlight(u))
          <= (MaxAttempts - 1) + Cardinality(Requests)
  BY DEF OverrunBounded
<1>1. CASE Tick
  <2>1. Recent(u)' \subseteq Recent(u)
    BY <1>1, LimiterAssumption DEF TypeOK, Tick, Recent
  <2>2. InFlight(u)' \subseteq InFlight(u)
    BY <1>1 DEF Tick, InFlight
  <2> QED
    BY <1>0, <2>1, <2>2, FewerIsWithin
<1>2. ASSUME NEW q \in Requests, NEW n \in Users, Submit(q, n)
      PROVE  Recent(u)' \subseteq Recent(u) /\ InFlight(u)' \subseteq InFlight(u)
  BY <1>2 DEF TypeOK, Submit, Recent, InFlight, Goto
<1>3. ASSUME NEW q \in Requests, Refuse(q) \/ Verify(q) \/ Reset(q)
      PROVE  Recent(u)' \subseteq Recent(u) /\ InFlight(u)' \subseteq InFlight(u)
  <2>0. InFlight(u)' \subseteq InFlight(u)
    BY <1>3 DEF TypeOK, Refuse, Verify, Reset, InFlight, Goto
  <2>1. CASE Refuse(q) \/ Verify(q) \/ (Reset(q) /\ u # user[q])
    <3>1. failures'[u] = failures[u] /\ now' = now
      BY <2>1 DEF TypeOK, Refuse, Verify, Reset
    <3> QED
      BY <3>1, <2>0 DEF Recent
  <2>2. CASE Reset(q) /\ u = user[q]
    <3>1. failures'[u] = <<>>
      BY <2>2 DEF TypeOK, Reset
    <3> QED
      BY <3>1, <2>0 DEF Recent
  <2> QED
    BY <1>3, <2>1, <2>2
<1>4. CASE UNCHANGED vars
  <2>1. Recent(u)' \subseteq Recent(u) /\ InFlight(u)' \subseteq InFlight(u)
    BY <1>4 DEF vars, Recent, InFlight
  <2> QED
    BY <1>0, <2>1, FewerIsWithin
<1> QED
  BY <1>0, <1>1, <1>2, <1>3, <1>4, FewerIsWithin, RecordMovesOne, AdmitFindsRoom
     DEF Next, Handle

\* However logins interleave between the check and the record, a window never
\* holds more failures than the limit plus the requests past the check.
THEOREM OverrunStaysBounded == Spec => []OverrunBounded
<1>1. Init => OverrunBounded
  <2> SUFFICES ASSUME Init, NEW u \in Users
               PROVE  Cardinality(Recent(u)) + Cardinality(InFlight(u))
                          <= (MaxAttempts - 1) + Cardinality(Requests)
    BY DEF OverrunBounded
  <2>1. Recent(u) = {} /\ InFlight(u) = {}
    BY DEF Init, Recent, InFlight
  <2> QED
    BY <2>1, FS_EmptySet, LimiterAssumption, FS_CardinalityType
<1>2. TypeOK /\ TypeOK' /\ OverrunBounded /\ [Next]_vars => OverrunBounded'
  BY NextOverrunBounded
<1> QED
  BY <1>1, <1>2, LimiterTypeCorrect, PTL DEF Spec

-----------------------------------------------------------------------------
(***************************************************************************)
(* Monitoring                                                              *)
(*                                                                         *)
(* For any instances, states and number of requests: the errors counted    *)
(* for a cloud, what a page shows of an instance that was left alone, and  *)
(* why a recommendation is refused. What a request has yet to say of an    *)
(* instance that did not change while it ran is what the instance is now   *)
(* (MonitorInv, one conjunct per stage of a request): the snapshots it     *)
(* works from are those of clouds that answered, and an instance leaves    *)
(* the set it is steady in with its first change. A cloud that counts as   *)
(* wrong was hit by a failure of this request.                             *)
(***************************************************************************)

\* Every state of a cloud is shown as one of three, also one no map knows.
LEMMA ShownIsState == \A c, s : Shown(c, s) \in States
BY DEF Shown, States

\* After the last day of a month comes the first.
LEMMA NextDay == ASSUME Days \in Nat \ {0}, day \in 1..Days PROVE (day % Days) + 1 \in 1..Days
OBVIOUS

\* Every variable starts with its type.
LEMMA MonitorInitType == MonitoringAssumption /\ MonitorInit => MonitorTypeOK
<1> SUFFICES ASSUME MonitoringAssumption, MonitorInit PROVE MonitorTypeOK
  OBVIOUS
<1>1. Idle \in Request
  BY DEF Idle, Request, Nothing, Answers, Ops
<1>2. /\ \A i \in Instances : vm[i] \in RawStates[CloudOf[i]] \union {"none"}
      /\ day \in 1..Days
      /\ errors \in [Clouds -> Nat]
  BY DEF MonitorInit, NoErrors
<1> QED
  BY <1>1, <1>2 DEF MonitorInit, MonitorTypeOK, MonitoringAssumption

\* A call that fails is counted and noted with its cloud.
LEMMA FaultType ==
    ASSUME MonitoringAssumption, MonitorTypeOK, NEW q \in Queries,
           NoFault \/ \E c \in Clouds : Fault(q, c)
    PROVE  faults' \in 0..MaxFaults /\ hit' \in [Queries -> SUBSET Clouds]
BY DEF MonitoringAssumption, MonitorTypeOK, NoFault, Fault

\* A step of a call or of its caller: what it does to its request, and nothing to others.
Calls(q) ==
    \/ \E c \in Clouds : NoClient(q, c) \/ Costs(q, c) \/ ListRest(q, c)
    \/ \E i \in Instances : Cpu(q, i)
    \/ ListAws(q)
    \/ CostsReturn(q) \/ RecommendOn(q) \/ RecommendReturn(q)
    \/ StatusReturn(q) \/ CheckOn(q) \/ Types(q)

Only(q) == req' = [req EXCEPT ![q] = req'[q]]

LEMMA CallsOnly == ASSUME MonitorTypeOK, NEW q \in Queries, Calls(q) PROVE Only(q)
<1> USE DEF MonitorTypeOK, Only
<1>1. CASE \E c \in Clouds : NoClient(q, c) \/ Costs(q, c)
  BY <1>1 DEF NoClient, Costs
<1>2. CASE \E c \in Clouds : ListRest(q, c)
  BY <1>2 DEF ListRest, ListPart, ListUnknown
<1>3. CASE ListAws(q)
  BY <1>3 DEF ListAws
<1>4. CASE \E i \in Instances : Cpu(q, i)
  BY <1>4 DEF Cpu
<1>5. CASE CostsReturn(q) \/ RecommendReturn(q) \/ StatusReturn(q) \/ Types(q)
  BY <1>5 DEF CostsReturn, RecommendReturn, StatusReturn, Types, Finish
<1>6. CASE RecommendOn(q) \/ CheckOn(q)
  BY <1>6 DEF RecommendOn, CheckOn
<1> QED
  BY <1>1, <1>2, <1>3, <1>4, <1>5, <1>6 DEF Calls

LEMMA NoClientDoes ==
    ASSUME MonitorTypeOK, NEW q \in Queries, NEW c \in Clouds, NoClient(q, c)
    PROVE  req'[q] = [req[q] EXCEPT !.wait = @ \ {c}, !.failed = @ \union {c}]
BY DEF NoClient, MonitorTypeOK

LEMMA CostsDoes ==
    ASSUME MonitorTypeOK, NEW q \in Queries, NEW c \in Clouds, Costs(q, c)
    PROVE  \E paid \in {{}, {c}} :
             req'[q] = [req[q] EXCEPT !.wait = @ \ {c}, !.paid = @ \union paid]
BY DEF Costs, MonitorTypeOK

LEMMA ListAwsDoes ==
    ASSUME MonitorTypeOK, NEW q \in Queries, ListAws(q)
    PROVE  \/ /\ req'[q] = [req[q] EXCEPT
                              !.found = Found(q, Existing("AWS"), {}),
                              !.cpu = Existing("AWS"),
                              !.wait = IF Existing("AWS") = {} THEN @ \ {"AWS"} ELSE @]
              /\ NoFault
           \/ /\ req'[q] = [req[q] EXCEPT !.wait = @ \ {"AWS"}, !.failed = @ \union {"AWS"}]
              /\ Fault(q, "AWS")
BY DEF ListAws, MonitorTypeOK

LEMMA CpuDoes ==
    ASSUME MonitorTypeOK, NEW q \in Queries, NEW i \in Instances, Cpu(q, i)
    PROVE  req'[q] = [req[q] EXCEPT !.cpu = @ \ {i},
                                    !.wait = IF req[q].cpu = {i} THEN @ \ {"AWS"} ELSE @]
BY DEF Cpu, MonitorTypeOK

LEMMA ListRestDoes ==
    ASSUME MonitorTypeOK, NEW q \in Queries, NEW c \in Clouds, ListRest(q, c)
    PROVE  \/ \E seen \in SUBSET Existing(c) :
                /\ req'[q] = [req[q] EXCEPT !.wait = @ \ {c}, !.found = Found(q, seen, {})]
                /\ IF seen = Existing(c) THEN NoFault ELSE Fault(q, c)
           \/ \E i \in Existing(c) :
                /\ req'[q] = [req[q] EXCEPT !.wait = @ \ {c},
                                            !.found = Found(q, Existing(c), {i})]
                /\ Fault(q, c)
<1>1. CASE \E seen \in SUBSET Existing(c) : ListPart(q, c, seen)
  BY <1>1 DEF ListPart, MonitorTypeOK
<1>2. CASE c = "Azure" /\ \E i \in Existing(c) : ListUnknown(q, i)
  BY <1>2 DEF ListUnknown, MonitorTypeOK
<1> QED
  BY <1>1, <1>2 DEF ListRest

LEMMA FinishDoes ==
    ASSUME MonitorTypeOK, NEW q \in Queries, NEW answer, Finish(q, answer)
    PROVE  req'[q] = [req[q] EXCEPT !.step = "done", !.answer = answer, !.paid = {},
                                    !.failed = {}]
BY DEF Finish, MonitorTypeOK

LEMMA OnDoes ==
    ASSUME MonitorTypeOK, NEW q \in Queries
    PROVE  /\ RecommendOn(q) =>
                req'[q] = [req[q] EXCEPT !.step = "status", !.wait = Clouds, !.failed = {}]
           /\ CheckOn(q) => req'[q] = [req[q] EXCEPT !.step = "types"]
BY DEF RecommendOn, CheckOn, MonitorTypeOK

\* What a listing finds is of its type.
LEMMA FoundType ==
    ASSUME MonitorTypeOK, NEW q \in Queries, NEW seen, NEW unknown
    PROVE  Found(q, seen, unknown) \in [Instances -> States \union {"-"}]
<1>1. req[q].found \in [Instances -> States \union {"-"}]
  BY DEF MonitorTypeOK, Request
<1> QED
  BY <1>1, ShownIsState DEF Found, States

\* A call keeps its request one.
LEMMA CallsType ==
    ASSUME MonitoringAssumption, MonitorTypeOK, NEW q \in Queries, Calls(q)
    PROVE  /\ req' \in [Queries -> Request]
           /\ faults' \in 0..MaxFaults /\ hit' \in [Queries -> SUBSET Clouds]
<1>1. req[q] \in Request
  BY DEF MonitorTypeOK
<1>2. "AWS" \in Clouds /\ "Azure" \in Clouds
  BY DEF Clouds
<1>3. \A c : Existing(c) \in SUBSET Instances
  BY DEF Existing
<1>4. ASSUME req'[q] \in Request PROVE req' \in [Queries -> Request]
  BY <1>4, CallsOnly DEF Only, MonitorTypeOK
<1>5. ASSUME NEW c \in Clouds, NoClient(q, c)
      PROVE  req'[q] \in Request /\ faults' = faults /\ hit' \in [Queries -> SUBSET Clouds]
  <2>1. req'[q] \in Request
    <3>1. [req[q] EXCEPT !.wait = @ \ {c}, !.failed = @ \union {c}] \in Request
      BY <1>1 DEF Request
    <3> QED
      BY <1>5, <3>1, NoClientDoes
  <2> QED
    BY <1>5, <2>1 DEF NoClient, MonitorTypeOK
<1>6. ASSUME NEW c \in Clouds, Costs(q, c) PROVE req'[q] \in Request /\ NoFault
  <2>1. PICK paid \in {{}, {c}} :
          req'[q] = [req[q] EXCEPT !.wait = @ \ {c}, !.paid = @ \union paid]
    BY <1>6, CostsDoes
  <2>2. /\ req[q].wait \ {c} \in SUBSET Clouds
        /\ req[q].paid \union paid \in SUBSET Clouds
    BY <1>1 DEF Request
  <2>3. req'[q] \in Request
    BY <1>1, <2>1, <2>2 DEF Request
  <2> QED
    BY <1>6, <2>3 DEF Costs
<1>7. ASSUME NEW c \in Clouds, ListRest(q, c)
      PROVE  req'[q] \in Request /\ (NoFault \/ Fault(q, c))
  <2>1. PICK f \in [Instances -> States \union {"-"}] :
           req'[q] = [req[q] EXCEPT !.wait = @ \ {c}, !.found = f]
    BY <1>7, ListRestDoes, FoundType
  <2>2. req'[q] \in Request
    <3>1. req[q].wait \ {c} \in SUBSET Clouds
      BY <1>1 DEF Request
    <3> QED
      BY <1>1, <2>1, <3>1 DEF Request
  <2> QED
    BY <1>7, <2>2, ListRestDoes
<1>8. ASSUME ListAws(q) PROVE req'[q] \in Request /\ (NoFault \/ Fault(q, "AWS"))
  <2>1. CASE /\ req'[q] = [req[q] EXCEPT
                              !.found = Found(q, Existing("AWS"), {}),
                              !.cpu = Existing("AWS"),
                              !.wait = IF Existing("AWS") = {} THEN @ \ {"AWS"} ELSE @]
             /\ NoFault
    <3>1. /\ Found(q, Existing("AWS"), {}) \in [Instances -> States \union {"-"}]
          /\ Existing("AWS") \in SUBSET Instances
      BY <1>3, FoundType
    <3>2. (IF Existing("AWS") = {} THEN req[q].wait \ {"AWS"} ELSE req[q].wait) \in SUBSET Clouds
      BY <1>1 DEF Request
    <3> QED
      BY <1>1, <2>1, <3>1, <3>2 DEF Request
  <2>2. CASE /\ req'[q] = [req[q] EXCEPT !.wait = @ \ {"AWS"}, !.failed = @ \union {"AWS"}]
             /\ Fault(q, "AWS")
    BY <1>1, <1>2, <2>2 DEF Request
  <2> QED
    BY <1>8, <2>1, <2>2, ListAwsDoes
<1>9. ASSUME NEW i \in Instances, Cpu(q, i) PROVE req'[q] \in Request /\ NoFault
  <2>1. [req[q] EXCEPT !.cpu = @ \ {i},
                       !.wait = IF req[q].cpu = {i} THEN @ \ {"AWS"} ELSE @] \in Request
    BY <1>1 DEF Request
  <2>2. req'[q] \in Request
    BY <1>9, <2>1, CpuDoes
  <2> QED
    BY <1>9, <2>2 DEF Cpu
<1>10. ASSUME CostsReturn(q) \/ RecommendReturn(q) \/ StatusReturn(q) \/ Types(q)
       PROVE  req'[q] \in Request /\ (NoFault \/ Fault(q, "AWS"))
  <2>1. PICK answer \in Answers : Finish(q, answer)
    BY <1>10 DEF CostsReturn, RecommendReturn, StatusReturn, Types, Answers
  <2>2. req'[q] \in Request
    <3>1. [req[q] EXCEPT !.step = "done", !.answer = answer, !.paid = {},
                         !.failed = {}] \in Request
      BY <1>1 DEF Request
    <3> QED
      BY <2>1, <3>1, FinishDoes
  <2> QED
    BY <1>10, <2>2 DEF CostsReturn, RecommendReturn, StatusReturn, Types
<1>11. ASSUME RecommendOn(q) \/ CheckOn(q) PROVE req'[q] \in Request /\ NoFault
  <2>1. CASE RecommendOn(q)
    <3>1. req'[q] = [req[q] EXCEPT !.step = "status", !.wait = Clouds, !.failed = {}]
      BY <2>1, OnDoes
    <3>2. [req[q] EXCEPT !.step = "status", !.wait = Clouds, !.failed = {}] \in Request
      BY <1>1 DEF Request
    <3> QED
      BY <2>1, <3>1, <3>2 DEF RecommendOn
  <2>2. CASE CheckOn(q)
    <3>1. req'[q] = [req[q] EXCEPT !.step = "types"]
      BY <2>2, OnDoes
    <3> QED
      BY <1>1, <2>2, <3>1 DEF CheckOn, Request
  <2> QED
    BY <1>11, <2>1, <2>2
<1> QED
  <2>1. /\ req'[q] \in Request
        /\ \/ NoFault \/ \E c \in Clouds : Fault(q, c)
           \/ faults' = faults /\ hit' \in [Queries -> SUBSET Clouds]
    BY <1>2, <1>5, <1>6, <1>7, <1>8, <1>9, <1>10, <1>11 DEF Calls
  <2>2. faults \in 0..MaxFaults
    BY DEF MonitorTypeOK
  <2> QED
    BY <1>4, <2>1, <2>2, FaultType

\* Every step keeps the types.
LEMMA MonitorNextType == MonitoringAssumption /\ MonitorTypeOK /\ [MonitorNext]_monitorVars => MonitorTypeOK'
<1> SUFFICES ASSUME MonitoringAssumption, MonitorTypeOK, [MonitorNext]_monitorVars PROVE MonitorTypeOK'
  OBVIOUS
<1>1. Idle \in Request
  BY DEF Idle, Request, Nothing, Answers, Ops
<1>2. NoErrors \in [Clouds -> Nat]
  BY DEF NoErrors
<1>3. CASE Midnight
  BY <1>3, NextDay DEF Midnight, MonitorTypeOK, MonitoringAssumption
<1>4. ASSUME NEW i \in Instances, Change(i) PROVE MonitorTypeOK'
  BY <1>4 DEF Change, MonitorTypeOK, MonitoringAssumption
<1>5. ASSUME NEW q \in Queries, NEW op \in Ops, NEW target \in Targets(op),
             Start(q, op, target)
      PROVE  MonitorTypeOK'
  <2>1. target \subseteq Clouds /\ FirstStep(op) \in {"costs", "status"}
    BY DEF Targets, FirstStep
  <2>2. [Idle EXCEPT !.op = op, !.step = FirstStep(op), !.target = target,
                     !.wait = target] \in Request
    BY <2>1 DEF Idle, Request, Nothing, Answers
  <2> QED
    BY <1>2, <1>5, <2>2 DEF Start, MonitorTypeOK
<1>6. ASSUME NEW q \in Queries, Calls(q) PROVE MonitorTypeOK'
  <2>1. /\ req' \in [Queries -> Request]
        /\ faults' \in 0..MaxFaults /\ hit' \in [Queries -> SUBSET Clouds]
    BY <1>6, CallsType
  <2>2. World
    BY <1>6 DEF Calls, NoClient, Costs, ListRest, Cpu, ListAws, CostsReturn, RecommendOn,
       RecommendReturn, StatusReturn, CheckOn, Types
  <2>3. errors' \in [Clouds -> Nat]
    <3>1. errors' = errors \/ errors' = Noted(q) \/ errors' = NoErrors
      BY <1>6 DEF Calls, NoClient, Costs, ListRest, Cpu, ListAws, CostsReturn, RecommendOn,
         RecommendReturn, StatusReturn, CheckOn, Types
    <3> QED
      BY <1>2, <3>1 DEF MonitorTypeOK, Noted
  <2> QED
    BY <2>1, <2>2, <2>3 DEF World, MonitorTypeOK
<1>7. ASSUME NEW q \in Queries, Leave(q) PROVE MonitorTypeOK'
  BY <1>1, <1>7 DEF Leave, MonitorTypeOK
<1>8. CASE UNCHANGED monitorVars
  BY <1>8 DEF monitorVars, MonitorTypeOK
<1> QED
  BY <1>3, <1>4, <1>5, <1>6, <1>7, <1>8 DEF MonitorNext, Calls

\* Every reachable state is well typed.
THEOREM MonitorTypeCorrect == MonitorSpec => []MonitorTypeOK
<1> USE MonitoringAssumption
<1>1. MonitorInit => MonitorTypeOK
  BY MonitorInitType
<1>2. MonitorTypeOK /\ [MonitorNext]_monitorVars => MonitorTypeOK'
  BY MonitorNextType
<1> QED
  BY <1>1, <1>2, PTL DEF MonitorSpec

-----------------------------------------------------------------------------
(* What a step of a call changes *)

\* The fields each step of a call changes and leaves alone.
Fetch(q) ==
    \/ \E c \in Clouds : NoClient(q, c) \/ Costs(q, c) \/ ListRest(q, c)
    \/ \E i \in Instances : Cpu(q, i)
    \/ ListAws(q)

LEMMA FetchKeeps ==
    ASSUME MonitorTypeOK, NEW q \in Queries, Fetch(q)
    PROVE  /\ req'[q].op = req[q].op /\ req'[q].target = req[q].target
           /\ req'[q].step = req[q].step /\ req'[q].answer = req[q].answer
           /\ errors' = errors
<1> USE DEF MonitorTypeOK, Request
<1>1. CASE \E c \in Clouds : NoClient(q, c)
  BY <1>1 DEF NoClient
<1>2. CASE \E c \in Clouds : Costs(q, c)
  BY <1>2 DEF Costs
<1>3. ASSUME NEW c \in Clouds, ListRest(q, c)
      PROVE  /\ req'[q].op = req[q].op /\ req'[q].target = req[q].target
             /\ req'[q].step = req[q].step /\ req'[q].answer = req[q].answer
             /\ errors' = errors
  <2>1. errors' = errors
    BY <1>3 DEF ListRest
  <2>2. CASE \E seen \in SUBSET Existing(c) : ListPart(q, c, seen)
    BY <2>1, <2>2 DEF ListPart
  <2>3. CASE c = "Azure" /\ \E i \in Existing(c) : ListUnknown(q, i)
    BY <2>1, <2>3 DEF ListUnknown
  <2> QED
    BY <1>3, <2>2, <2>3 DEF ListRest
<1>4. CASE \E i \in Instances : Cpu(q, i)
  BY <1>4 DEF Cpu
<1>5. CASE ListAws(q)
  BY <1>5 DEF ListAws
<1> QED
  BY <1>1, <1>2, <1>3, <1>4, <1>5 DEF Fetch

LEMMA FinishKeeps ==
    ASSUME MonitorTypeOK, NEW q \in Queries, NEW answer, Finish(q, answer)
    PROVE  /\ req'[q].op = req[q].op /\ req'[q].target = req[q].target
           /\ req'[q].step = "done" /\ req'[q].answer = answer
           /\ req'[q].wait = req[q].wait /\ req'[q].cpu = req[q].cpu
           /\ req'[q].found = req[q].found
BY DEF MonitorTypeOK, Request, Finish

LEMMA OnKeeps ==
    ASSUME MonitorTypeOK, NEW q \in Queries, RecommendOn(q) \/ CheckOn(q)
    PROVE  /\ req'[q].op = req[q].op /\ req'[q].target = req[q].target
           /\ req'[q].step = IF RecommendOn(q) THEN "status" ELSE "types"
           /\ req'[q].wait = IF RecommendOn(q) THEN Clouds ELSE req[q].wait
           /\ req'[q].cpu = req[q].cpu /\ req'[q].found = req[q].found
<1>1. CASE RecommendOn(q)
  BY <1>1 DEF MonitorTypeOK, Request, RecommendOn
<1>2. CASE ~RecommendOn(q) /\ CheckOn(q)
  BY <1>2 DEF MonitorTypeOK, Request, CheckOn
<1> QED
  BY <1>1, <1>2

LEMMA ListRestFields ==
    ASSUME MonitorTypeOK, NEW q \in Queries, NEW c \in Clouds, ListRest(q, c)
    PROVE  /\ req'[q].wait = req[q].wait \ {c} /\ req'[q].cpu = req[q].cpu
           /\ \/ /\ req'[q].found = Found(q, Existing(c), {}) 
                 /\ NoFault
              \/ /\ \E seen \in SUBSET Existing(c), unknown \in SUBSET Existing(c) : 
                   req'[q].found = Found(q, seen, unknown)
                 /\ Fault(q, c)
<1> USE DEF MonitorTypeOK, Request
<1>1. CASE \E seen \in SUBSET Existing(c) : ListPart(q, c, seen)
  BY <1>1, SMTT(30) DEF ListPart
<1>2. CASE c = "Azure" /\ \E i \in Existing(c) : ListUnknown(q, i)
  BY <1>2 DEF ListUnknown
<1> QED
  BY <1>1, <1>2 DEF ListRest

LEMMA ListAwsFields ==
    ASSUME MonitorTypeOK, NEW q \in Queries, ListAws(q)
    PROVE  \/ /\ req'[q].found = Found(q, Existing("AWS"), {})
              /\ req'[q].cpu = Existing("AWS")
              /\ req'[q].wait = IF Existing("AWS") = {} THEN req[q].wait \ {"AWS"} ELSE req[q].wait
              /\ NoFault
           \/ /\ req'[q].wait = req[q].wait \ {"AWS"}
              /\ req'[q].cpu = req[q].cpu /\ req'[q].found = req[q].found
              /\ Fault(q, "AWS")
BY DEF ListAws, MonitorTypeOK, Request

LEMMA CpuFields ==
    ASSUME MonitorTypeOK, NEW q \in Queries, NEW i \in Instances, Cpu(q, i)
    PROVE  /\ req'[q].cpu = req[q].cpu \ {i} /\ req'[q].found = req[q].found
           /\ req'[q].wait = IF req[q].cpu = {i} THEN req[q].wait \ {"AWS"} ELSE req[q].wait
BY DEF Cpu, MonitorTypeOK, Request

LEMMA NoClientFields ==
    ASSUME MonitorTypeOK, NEW q \in Queries, NEW c \in Clouds, NoClient(q, c) \/ Costs(q, c)
    PROVE  /\ req'[q].cpu = req[q].cpu /\ req'[q].found = req[q].found
           /\ req'[q].wait = req[q].wait \ {c}
BY DEF NoClient, Costs, MonitorTypeOK, Request

-----------------------------------------------------------------------------
(* The list of errors *)

\* The requests that have added to the list what they will add, if it was not
\* emptied since: a request empties the list when it begins.
Quiet == {q \in Queries : req[q].step \notin {"costs", "status"}}

ErrorsPaid == \A c \in Clouds : errors[c] <= Cardinality(Quiet)

LEMMA NextErrors ==
    ASSUME MonitoringAssumption, MonitorTypeOK, MonitorTypeOK', ErrorsPaid, [MonitorNext]_monitorVars
    PROVE  ErrorsPaid'
<1>1. IsFiniteSet(Quiet) /\ IsFiniteSet(Quiet')
  BY FS_Subset DEF MonitoringAssumption, Quiet
<1>2. Cardinality(Quiet) \in Nat /\ Cardinality(Quiet') \in Nat
  BY <1>1, FS_CardinalityType
<1>3. errors \in [Clouds -> Nat] /\ errors' \in [Clouds -> Nat]
  BY DEF MonitorTypeOK
<1>4. CASE errors' = NoErrors
  BY <1>2, <1>4 DEF ErrorsPaid, NoErrors
<1>5. CASE errors' = errors /\ Quiet \subseteq Quiet'
  BY <1>1, <1>2, <1>3, <1>5, FS_Subset DEF ErrorsPaid
<1>6. ASSUME NEW q \in Queries, errors' = Noted(q), q \notin Quiet, Quiet' = Quiet \union {q}
      PROVE  ErrorsPaid'
  <2>1. Cardinality(Quiet') = Cardinality(Quiet) + 1
    BY <1>1, <1>6, FS_AddElement
  <2>2. \A c \in Clouds : errors'[c] <= errors[c] + 1
    BY <1>3, <1>6 DEF Noted
  <2> QED
    BY <1>2, <1>3, <2>1, <2>2 DEF ErrorsPaid
<1>7. CASE UNCHANGED monitorVars \/ Midnight \/ \E i \in Instances : Change(i)
  BY <1>5, <1>7 DEF monitorVars, Midnight, Change, Quiet
<1>8. ASSUME NEW q \in Queries, NEW op \in Ops, NEW target \in Targets(op),
             Start(q, op, target)
      PROVE  ErrorsPaid'
  BY <1>4, <1>8 DEF Start
<1>9. ASSUME NEW q \in Queries, Leave(q) PROVE ErrorsPaid'
  BY <1>5, <1>9 DEF Leave, Quiet, Idle, MonitorTypeOK
<1>10. ASSUME NEW q \in Queries, Calls(q) PROVE ErrorsPaid'
  <2>1. \A p \in Queries \ {q} : req'[p] = req[p]
    BY <1>10, CallsOnly DEF Only, MonitorTypeOK
  <2>2. CASE RecommendOn(q)
    BY <1>4, <2>2 DEF RecommendOn
  <2>3. CASE CostsReturn(q) \/ RecommendReturn(q) \/ StatusReturn(q) \/ CheckOn(q)
    <3>1. req'[q].step \in {"types", "done"}
      <4>1. CASE CheckOn(q)
        BY <2>3, <4>1, OnKeeps DEF CheckOn, RecommendOn, Gathered
      <4>2. CASE ~CheckOn(q)
        BY <2>3, <4>2, FinishKeeps DEF CostsReturn, RecommendReturn, StatusReturn
      <4> QED
        BY <4>1, <4>2
    <3>2. req[q].step \in {"costs", "status"} /\ errors' = Noted(q)
      BY <2>3 DEF CostsReturn, RecommendReturn, StatusReturn, CheckOn, Gathered
    <3> QED
      BY <1>6, <2>1, <3>1, <3>2 DEF Quiet
  <2>4. CASE Types(q)
    <3>1. req[q].step = "types" /\ req'[q].step = "done" /\ errors' = errors
      BY <2>4, FinishKeeps DEF Types
    <3> QED
      BY <1>5, <2>1, <3>1 DEF Quiet
  <2>5. CASE Fetch(q)
    BY <1>5, <2>1, <2>5, FetchKeeps DEF Quiet
  <2> QED
    BY <1>10, <2>2, <2>3, <2>4, <2>5 DEF Calls, Fetch
<1> QED
  BY <1>7, <1>8, <1>9, <1>10 DEF MonitorNext, Calls

\* The list of errors, shared by every operation and emptied by each when it
\* begins, never names a cloud more often than there are requests.
THEOREM ErrorsAreBounded == MonitorSpec => []ErrorsBounded
<1> USE MonitoringAssumption
<1>1. MonitorInit => ErrorsPaid
  <2> SUFFICES ASSUME MonitorInit PROVE ErrorsPaid
    OBVIOUS
  <2>1. IsFiniteSet(Quiet)
    BY FS_Subset DEF MonitoringAssumption, Quiet
  <2> QED
    BY <2>1, FS_CardinalityType DEF MonitorInit, ErrorsPaid, NoErrors
<1>2. MonitorTypeOK /\ MonitorTypeOK' /\ ErrorsPaid /\ [MonitorNext]_monitorVars => ErrorsPaid'
  BY NextErrors
<1>3. MonitorTypeOK /\ ErrorsPaid => ErrorsBounded
  <2> SUFFICES ASSUME MonitorTypeOK, ErrorsPaid PROVE ErrorsBounded
    OBVIOUS
  <2>1. /\ Quiet \subseteq Queries /\ IsFiniteSet(Queries)
        /\ errors \in [Clouds -> Nat]
    BY DEF MonitoringAssumption, Quiet, MonitorTypeOK
  <2>2. /\ Cardinality(Quiet) <= Cardinality(Queries)
        /\ Cardinality(Quiet) \in Nat /\ Cardinality(Queries) \in Nat
    BY <2>1, FS_Subset, FS_CardinalityType
  <2> QED
    BY <2>1, <2>2 DEF ErrorsPaid, ErrorsBounded
<1> QED
  BY <1>1, <1>2, <1>3, MonitorTypeCorrect, PTL DEF MonitorSpec

-----------------------------------------------------------------------------
(* What an answer shows *)

Listed(q, i) == req[q].found[i] = Shown(CloudOf[i], vm[i])

\* An instance of a cloud that was asked by this request, answered without a
\* fault and is not awaited any more, or only for CPU metrics.
Due(q, i) ==
    /\ Asked(q, i) /\ CloudOf[i] \notin hit[q]
    /\ \/ req[q].step \in {"types", "done"}
       \/ /\ req[q].step = "status"
          /\ CloudOf[i] \notin req[q].wait \/ (CloudOf[i] = "AWS" /\ req[q].cpu # {})

\* AWS is awaited as long as CPU metrics are.
CpuAwaited(q) ==
    req[q].cpu # {} => /\ req[q].step = "status"
                       /\ "AWS" \in req[q].wait \intersect StatusClients

SteadyListed(q) ==
    \A i \in steady[q] : vm[i] # "none" /\ (Due(q, i) => Listed(q, i))

\* Who has seen the first of a month is known.
FirstSeen(q) == day = 1 /\ req[q].step # "idle" => q \in first

RefusedRightly(q) ==
    req[q].step = "done" /\ req[q].answer = "insufficient" =>
        q \in first \/ \A i \in steady[q] : CloudOf[i] \in hit[q]

RequestInv(q) ==
    CpuAwaited(q) /\ SteadyListed(q) /\ FirstSeen(q) /\ RefusedRightly(q)

MonitorInv == \A q \in Queries : RequestInv(q)

\* Every other request is left as it is by a call.
LEMMA OthersKept ==
    ASSUME MonitorTypeOK, NEW q \in Queries, Calls(q), NEW p \in Queries \ {q}, RequestInv(p)
    PROVE  RequestInv(p)'
<1>1. req'[p] = req[p]
  BY CallsOnly DEF Only, MonitorTypeOK
<1>2. World
  BY DEF Calls, NoClient, Costs, ListRest, Cpu, ListAws, CostsReturn, RecommendOn,
     RecommendReturn, StatusReturn, CheckOn, Types
<1>3. hit'[p] = hit[p]
  BY DEF Calls, NoClient, Costs, ListRest, ListPart, ListUnknown, Cpu, ListAws, CostsReturn,
     RecommendOn, RecommendReturn, StatusReturn, CheckOn, Types, NoFault, Fault, MonitorTypeOK
<1> QED
  BY <1>1, <1>2, <1>3 DEF World, RequestInv, CpuAwaited, SteadyListed, FirstSeen,
     RefusedRightly, Due, Listed, Asked

\* A fetch loses no instance that was there all the time.
LEMMA FetchInv ==
    ASSUME MonitoringAssumption, MonitorTypeOK, NEW q \in Queries, Fetch(q), RequestInv(q)
    PROVE  RequestInv(q)'
<1>1. World
  BY DEF Fetch, NoClient, Costs, ListRest, Cpu, ListAws
<1>2. /\ req'[q].op = req[q].op /\ req'[q].target = req[q].target
      /\ req'[q].step = req[q].step /\ req'[q].answer = req[q].answer
  BY FetchKeeps
<1>3. /\ hit[q] \subseteq hit'[q]
      /\ \A c : Fault(q, c) => c \in hit'[q]
  <2>1. hit \in [Queries -> SUBSET Clouds]
    BY DEF MonitorTypeOK
  <2>2. ASSUME NEW c, Fault(q, c) PROVE hit[q] \subseteq hit'[q] /\ c \in hit'[q]
    BY <2>1, <2>2 DEF Fault
  <2>3. \/ NoFault
        \/ \E c : Fault(q, c)
        \/ \E c : hit' = [hit EXCEPT ![q] = IF req[q].step = "status" THEN @ \union {c} ELSE @]
    BY DEF Fetch, NoClient, Costs, ListRest, ListPart, ListUnknown, Cpu, ListAws
  <2> QED
    BY <2>1, <2>2, <2>3 DEF NoFault
<1>4. FirstSeen(q)' /\ RefusedRightly(q)'
  BY <1>1, <1>2, <1>3 DEF World, RequestInv, FirstSeen, RefusedRightly
<1>5. /\ \A i \in Instances : CloudOf[i] \in Clouds
      /\ \A i \in steady[q] : i \in Instances /\ vm[i] # "none" /\ vm'[i] = vm[i]
      /\ steady'[q] = steady[q]
      /\ "AWS" \in Clouds
  BY <1>1 DEF MonitoringAssumption, MonitorTypeOK, World, RequestInv, SteadyListed, Clouds
<1>6. \A i \in steady[q] : i \in Existing(CloudOf[i])
  BY <1>5 DEF Existing
<1>7. /\ \A i \in steady[q] : Due(q, i) => Listed(q, i)
      /\ CpuAwaited(q)
  BY DEF RequestInv, SteadyListed
<1>8. SUFFICES /\ CpuAwaited(q)'
               /\ \A i \in steady[q] : Due(q, i)' => req'[q].found[i] = Shown(CloudOf[i], vm[i])
  BY <1>4, <1>5 DEF RequestInv, SteadyListed, Listed
<1>9. \A i \in steady[q] : Asked(q, i)' <=> Asked(q, i)
  BY <1>2 DEF Asked
<1>10. ASSUME NEW c \in Clouds, NEW seen \in SUBSET Existing(c),
              NEW unknown \in SUBSET Existing(c), NEW i \in steady[q], CloudOf[i] # c
       PROVE  Found(q, seen, unknown)[i] = req[q].found[i]
  BY <1>5, <1>10 DEF Found, Existing
<1>11. ASSUME NEW c \in Clouds, NEW i \in steady[q], CloudOf[i] = c
       PROVE  Found(q, Existing(c), {})[i] = Shown(CloudOf[i], vm[i])
  BY <1>5, <1>6, <1>11 DEF Found
<1>12. ASSUME NEW c \in Clouds, NoClient(q, c) \/ Costs(q, c)
       PROVE  /\ CpuAwaited(q)'
              /\ \A i \in steady[q] : Due(q, i)' => req'[q].found[i] = Shown(CloudOf[i], vm[i])
  <2>1. /\ req'[q].cpu = req[q].cpu /\ req'[q].found = req[q].found
        /\ req'[q].wait = req[q].wait \ {c}
    BY <1>12, NoClientFields
  <2>2. req[q].step = "costs" \/ (req[q].step = "status" /\ c \in hit'[q] /\ c \notin StatusClients)
    BY <1>12 DEF NoClient, Costs, MonitorTypeOK
  <2> QED
    BY <1>2, <1>3, <1>7, <1>9, <2>1, <2>2 DEF CpuAwaited, Due, Listed
<1>13. ASSUME NEW c \in Clouds, ListRest(q, c)
       PROVE  /\ CpuAwaited(q)'
              /\ \A i \in steady[q] : Due(q, i)' => req'[q].found[i] = Shown(CloudOf[i], vm[i])
  <2>1. req'[q].wait = req[q].wait \ {c} /\ req'[q].cpu = req[q].cpu /\ c # "AWS"
    BY <1>13, ListRestFields DEF ListRest
  <2>2. CpuAwaited(q)'
    BY <1>2, <1>7, <2>1 DEF CpuAwaited
  <2>3. ASSUME NEW i \in steady[q], Due(q, i)'
        PROVE  req'[q].found[i] = Shown(CloudOf[i], vm[i])
    <3>1. CASE CloudOf[i] = c
      <4>1. c \notin hit'[q]
        BY <2>3, <3>1 DEF Due
      <4>2. req'[q].found = Found(q, Existing(c), {})
        BY <1>3, <1>13, <4>1, ListRestFields
      <4> QED
        BY <1>11, <3>1, <4>2
    <3>2. CASE CloudOf[i] # c
      <4>1. req'[q].found[i] = req[q].found[i]
        BY <1>10, <1>13, <3>2, ListRestFields
      <4>2. Due(q, i)
        BY <1>2, <1>3, <1>9, <2>1, <2>3, <3>2 DEF Due
      <4> QED
        BY <1>7, <4>1, <4>2 DEF Listed
    <3> QED
      BY <3>1, <3>2
  <2> QED
    BY <2>2, <2>3
<1>14. ASSUME ListAws(q)
       PROVE  /\ CpuAwaited(q)'
              /\ \A i \in steady[q] : Due(q, i)' => req'[q].found[i] = Shown(CloudOf[i], vm[i])
  <2>1. req[q].step = "status" /\ "AWS" \in req[q].wait \intersect StatusClients /\ req[q].cpu = {}
    BY <1>14 DEF ListAws
  <2>2. CASE /\ req'[q].found = Found(q, Existing("AWS"), {})
             /\ req'[q].cpu = Existing("AWS")
             /\ req'[q].wait = IF Existing("AWS") = {} THEN req[q].wait \ {"AWS"} ELSE req[q].wait
    <3>1. CpuAwaited(q)'
      BY <1>2, <2>1, <2>2 DEF CpuAwaited
    <3>2. ASSUME NEW i \in steady[q], Due(q, i)'
          PROVE  req'[q].found[i] = Shown(CloudOf[i], vm[i])
      <4>1. CASE CloudOf[i] = "AWS"
        BY <1>5, <1>11, <2>2, <4>1
      <4>2. CASE CloudOf[i] # "AWS"
        <5>1. req'[q].found[i] = req[q].found[i]
          BY <1>5, <1>10, <2>2, <4>2
        <5>2. Due(q, i)
          BY <1>2, <1>3, <1>9, <2>2, <3>2, <4>2 DEF Due
        <5> QED
          BY <1>7, <5>1, <5>2 DEF Listed
      <4> QED
        BY <4>1, <4>2
    <3> QED
      BY <3>1, <3>2
  <2>3. CASE /\ req'[q].wait = req[q].wait \ {"AWS"}
             /\ req'[q].cpu = req[q].cpu /\ req'[q].found = req[q].found
             /\ Fault(q, "AWS")
    <3>1. "AWS" \in hit'[q]
      BY <1>3, <2>3
    <3> QED
      BY <1>2, <1>3, <1>7, <1>9, <2>1, <2>3, <3>1 DEF CpuAwaited, Due, Listed
  <2> QED
    BY <1>14, <2>2, <2>3, ListAwsFields
<1>15. ASSUME NEW i \in Instances, Cpu(q, i)
       PROVE  /\ CpuAwaited(q)'
              /\ \A j \in steady[q] : Due(q, j)' => req'[q].found[j] = Shown(CloudOf[j], vm[j])
  <2>1. /\ req'[q].cpu = req[q].cpu \ {i} /\ req'[q].found = req[q].found
        /\ req'[q].wait = IF req[q].cpu = {i} THEN req[q].wait \ {"AWS"} ELSE req[q].wait
        /\ i \in req[q].cpu
    BY <1>15, CpuFields DEF Cpu
  <2>2. req[q].step = "status" /\ "AWS" \in req[q].wait \intersect StatusClients
    BY <1>7, <2>1 DEF CpuAwaited
  <2>3. CpuAwaited(q)'
    BY <1>2, <2>1, <2>2 DEF CpuAwaited
  <2>4. \A j \in steady[q] : Due(q, j)' => Due(q, j)
    BY <1>2, <1>3, <1>9, <2>1, <2>2 DEF Due
  <2> QED
    BY <1>7, <2>1, <2>3, <2>4 DEF Listed
<1> QED
  BY <1>12, <1>13, <1>14, <1>15 DEF Fetch

\* Neither do the callers, who go on or answer when nothing is awaited.
LEMMA CallerInv ==
    ASSUME MonitoringAssumption, MonitorTypeOK, NEW q \in Queries, Calls(q), ~Fetch(q),
           RequestInv(q)
    PROVE  RequestInv(q)'
<1>1. World
  BY DEF Calls, Fetch, CostsReturn, RecommendOn, RecommendReturn, StatusReturn, CheckOn, Types
<1>2. hit[q] \subseteq hit'[q]
  <2>1. hit' = hit \/ Fault(q, "AWS")
    BY DEF Calls, Fetch, CostsReturn, RecommendOn, RecommendReturn, StatusReturn, CheckOn,
       Types, NoFault
  <2> QED
    BY <2>1 DEF Fault, MonitorTypeOK
<1>3. /\ \A i \in Instances : CloudOf[i] \in Clouds
      /\ \A i \in steady[q] : i \in Instances /\ vm[i] # "none" /\ vm'[i] = vm[i]
      /\ steady'[q] = steady[q] /\ day' = day /\ first' = first
      /\ day = 1 /\ req[q].step # "idle" => q \in first
  BY <1>1 DEF MonitoringAssumption, MonitorTypeOK, World, RequestInv, SteadyListed, FirstSeen
<1>4. /\ \A i \in steady[q] : Due(q, i) => Listed(q, i)
      /\ CpuAwaited(q)
  BY DEF RequestInv, SteadyListed
<1>5. req'[q].op = req[q].op /\ req'[q].target = req[q].target
      /\ req'[q].found = req[q].found /\ req'[q].cpu = req[q].cpu /\ req[q].step # "idle"
  <2>1. CASE RecommendOn(q) \/ CheckOn(q)
    BY <2>1, OnKeeps DEF RecommendOn, CheckOn, Gathered
  <2>2. CASE CostsReturn(q) \/ RecommendReturn(q) \/ StatusReturn(q) \/ Types(q)
    BY <2>2, FinishKeeps DEF CostsReturn, RecommendReturn, StatusReturn, Types, Gathered
  <2> QED
    BY <2>1, <2>2 DEF Calls, Fetch
<1>6. ASSUME CpuAwaited(q)', RefusedRightly(q)', \A i \in steady[q] : Due(q, i)' => Due(q, i)
      PROVE  RequestInv(q)'
  BY <1>3, <1>4, <1>5, <1>6 DEF RequestInv, SteadyListed, FirstSeen, Listed
<1>7. CASE CostsReturn(q)
  <2>1. /\ req'[q].step = "done" /\ req'[q].answer = "success"
        /\ req[q].op = "costs" /\ req[q].cpu = {}
    BY <1>4, <1>7, FinishKeeps DEF CostsReturn, Gathered, CpuAwaited
  <2> QED
    BY <1>5, <1>6, <2>1 DEF CpuAwaited, RefusedRightly, Due, Asked
<1>8. CASE RecommendOn(q)
  <2>1. /\ req'[q].step = "status" /\ req'[q].wait = Clouds /\ req[q].cpu = {}
    BY <1>4, <1>8, OnKeeps DEF RecommendOn, Gathered, CpuAwaited
  <2> QED
    BY <1>3, <1>5, <1>6, <2>1 DEF CpuAwaited, RefusedRightly, Due
<1>9. CASE StatusReturn(q) \/ RecommendReturn(q)
  <2>1. /\ req[q].step = "status" /\ req[q].wait = {} /\ req[q].cpu = {}
        /\ req'[q].step = "done"
    BY <1>4, <1>9, FinishKeeps DEF StatusReturn, RecommendReturn, Gathered, CpuAwaited
  <2>2. \A i \in steady[q] : Due(q, i)' => Due(q, i)
    BY <1>2, <1>3, <1>5, <2>1 DEF Due, Asked
  <2>3. RefusedRightly(q)'
    <3>1. CASE StatusReturn(q)
      <4>1. req'[q].answer = "success"
        BY <3>1, FinishKeeps DEF StatusReturn
      <4> QED
        BY <4>1 DEF RefusedRightly
    <3>2. CASE RecommendReturn(q) /\ ~Refused(q)
      <4>1. req'[q].answer = "success"
        BY <3>2, FinishKeeps DEF RecommendReturn
      <4> QED
        BY <4>1 DEF RefusedRightly
    <3>3. CASE RecommendReturn(q) /\ Refused(q)
      <4>1. CASE day = 1
        BY <1>3, <1>5, <4>1 DEF RefusedRightly
      <4>2. CASE req[q].found = Nothing
        <5>1. ASSUME NEW i \in steady[q], CloudOf[i] \notin hit'[q] PROVE FALSE
          <6>1. Due(q, i)
            BY <1>2, <1>3, <2>1, <3>3, <5>1 DEF Due, Asked, RecommendReturn
          <6>2. req[q].found[i] \in States
            BY <1>4, <6>1, ShownIsState DEF Listed
          <6> QED
            BY <1>3, <4>2, <6>2 DEF Nothing, States
        <5> QED
          BY <1>3, <5>1 DEF RefusedRightly
      <4> QED
        BY <3>3, <4>1, <4>2 DEF Refused
    <3> QED
      BY <1>9, <3>1, <3>2, <3>3
  <2> QED
    BY <1>5, <1>6, <2>1, <2>2, <2>3 DEF CpuAwaited
<1>10. CASE CheckOn(q) /\ ~RecommendOn(q)
  <2>1. /\ req[q].step = "status" /\ req[q].wait = {} /\ req[q].cpu = {}
        /\ req'[q].step = "types"
    BY <1>4, <1>10, OnKeeps DEF CheckOn, Gathered, CpuAwaited
  <2>2. \A i \in steady[q] : Due(q, i)' => Due(q, i)
    BY <1>2, <1>3, <1>5, <2>1 DEF Due, Asked
  <2> QED
    BY <1>5, <1>6, <2>1, <2>2 DEF CpuAwaited, RefusedRightly
<1>11. CASE Types(q)
  <2>1. /\ req[q].step = "types" /\ req[q].cpu = {}
        /\ req'[q].step = "done" /\ req'[q].answer # "insufficient"
    BY <1>4, <1>11, FinishKeeps DEF Types, CpuAwaited
  <2>2. \A i \in steady[q] : Due(q, i)' => Due(q, i)
    BY <1>2, <1>3, <1>5, <2>1 DEF Due, Asked
  <2> QED
    BY <1>5, <1>6, <2>1, <2>2 DEF CpuAwaited, RefusedRightly
<1> QED
  BY <1>7, <1>8, <1>9, <1>10, <1>11 DEF Calls, Fetch

\* Requests, clouds and days keep what an answer is to show.
LEMMA NextMonitorInv ==
    ASSUME MonitoringAssumption, MonitorTypeOK, MonitorTypeOK', MonitorInv, [MonitorNext]_monitorVars
    PROVE  MonitorInv'
<1> SUFFICES ASSUME NEW p \in Queries, RequestInv(p) PROVE RequestInv(p)'
  BY DEF MonitorInv
<1> USE DEF RequestInv, CpuAwaited, SteadyListed, FirstSeen, RefusedRightly, Due, Listed, Asked
<1>1. CASE Midnight
  <2>1. /\ vm' = vm /\ req' = req /\ steady' = steady /\ hit' = hit /\ first \subseteq first'
        /\ day' = 1 /\ req[p].step # "idle" => p \in first'
    BY <1>1 DEF Midnight
  <2> QED
    BY <2>1
<1>2. ASSUME NEW i \in Instances, Change(i) PROVE RequestInv(p)'
  <2>1. /\ day' = day /\ req' = req /\ hit' = hit /\ first' = first
        /\ steady'[p] = steady[p] \ {i}
        /\ \A j \in steady[p] \ {i} : vm'[j] = vm[j]
    BY <1>2 DEF Change, MonitorTypeOK
  <2> QED
    BY <2>1
<1>3. ASSUME NEW q \in Queries, NEW op \in Ops, NEW target \in Targets(op),
             Start(q, op, target)
      PROVE  RequestInv(p)'
  <2>1. vm' = vm /\ day' = day
    BY <1>3 DEF Start
  <2>2. CASE p = q
    <3>1. /\ req'[p].step \in {"costs", "status"} /\ req'[p].cpu = {}
          /\ req'[p].wait = target /\ req'[p].target = target /\ req'[p].op = op
          /\ req'[p].step = FirstStep(op)
          /\ steady'[p] = {i \in Instances : vm[i] # "none"}
          /\ day = 1 => p \in first'
      BY <1>3, <2>2 DEF Start, Idle, FirstStep, MonitorTypeOK
    <3>2. \A i \in steady'[p] : vm'[i] # "none" /\ ~Due(p, i)'
      BY <2>1, <3>1 DEF FirstStep
    <3> QED
      BY <2>1, <3>1, <3>2
  <2>3. CASE p # q
    <3>1. /\ req'[p] = req[p] /\ steady'[p] = steady[p] /\ hit'[p] = hit[p]
          /\ p \in first => p \in first'
      BY <1>3, <2>3 DEF Start, MonitorTypeOK
    <3> QED
      BY <2>1, <3>1
  <2> QED
    BY <2>2, <2>3
<1>4. ASSUME NEW q \in Queries, Leave(q) PROVE RequestInv(p)'
  <2>1. vm' = vm /\ day' = day
    BY <1>4 DEF Leave
  <2>2. CASE p = q
    <3>1. req'[p].step = "idle" /\ req'[p].cpu = {} /\ steady'[p] = {}
      BY <1>4, <2>2 DEF Leave, Idle, MonitorTypeOK
    <3> QED
      BY <3>1
  <2>3. CASE p # q
    <3>1. /\ req'[p] = req[p] /\ steady'[p] = steady[p] /\ hit'[p] = hit[p]
          /\ p \in first => p \in first'
      BY <1>4, <2>3 DEF Leave, MonitorTypeOK
    <3> QED
      BY <2>1, <3>1
  <2> QED
    BY <2>2, <2>3
<1>5. CASE UNCHANGED monitorVars
  BY <1>5 DEF monitorVars
<1> HIDE DEF RequestInv
<1>6. ASSUME NEW q \in Queries, Calls(q) PROVE RequestInv(p)'
  BY <1>6, FetchInv, CallerInv, OthersKept
<1> QED
  BY <1>1, <1>2, <1>3, <1>4, <1>5, <1>6 DEF MonitorNext, Calls

THEOREM MonitorInductive == MonitorSpec => []MonitorInv
<1> USE MonitoringAssumption
<1>1. MonitorInit => MonitorInv
  BY DEF MonitorInit, Idle, MonitorInv, RequestInv, CpuAwaited, SteadyListed, FirstSeen, RefusedRightly
<1>2. MonitorTypeOK /\ MonitorTypeOK' /\ MonitorInv /\ [MonitorNext]_monitorVars => MonitorInv'
  BY NextMonitorInv
<1> QED
  BY <1>1, <1>2, MonitorTypeCorrect, PTL DEF MonitorSpec

\* Whatever machines, clouds and other requests do meanwhile, an answer shows
\* every instance that was there all the time and whose cloud failed no call of
\* this very request.
THEOREM SteadyAreShown == MonitorSpec => []SteadyIsShown
<1>1. MonitorInv => SteadyIsShown
  BY DEF MonitorInv, RequestInv, SteadyListed, SteadyIsShown, Due, Listed
<1> QED
  BY <1>1, MonitorInductive, PTL

\* Recommendations are refused only when no instance could be seen all the
\* time, or on the first of a month.
THEOREM RefusalsHaveReasons == MonitorSpec => []RefusedForAReason
<1>1. MonitorInv => RefusedForAReason
  BY DEF MonitorInv, RequestInv, RefusedRightly, RefusedForAReason
<1> QED
  BY <1>1, MonitorInductive, PTL
=============================================================================
