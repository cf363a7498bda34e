----------------------------- MODULE Monitoring -----------------------------
(***************************************************************************)
(* The monitoring layer of the AIOps backend and those who call it: the    *)
(* routes /api/costs, /api/status and /api/recommendations and the         *)
(* handlers check_status and get_costs of a query.  One MonitoringLayer    *)
(* serves all of them; it asks the clouds concurrently and gathers what    *)
(* they return or raise, while other requests do the same.                 *)
(*                                                                         *)
(* The clouds are external: instances appear, change and vanish as they    *)
(* like.  AWS lists states at once and is asked for the CPU of each        *)
(* instance after that; the Azure and GCP clients do all their reading in  *)
(* one thread, which is one step here.  The day matters because the        *)
(* default period runs from the first of the month to today.               *)
(***************************************************************************)
EXTENDS Naturals, FiniteSets

CONSTANTS
    Queries,       \* requests the server can have in progress
    Instances,      \* virtual machines there may ever be
    CloudOf,        \* the cloud of each
    RawStates,      \* the states of a cloud that are looked at
    StatusClients,  \* clouds with a client for instances
    CostClients,    \* clouds with a client for costs
    Days,           \* days of a month
    MaxChanges,     \* bound on changes of instances
    MaxFaults       \* bound on calls to a cloud that fail

Clouds == {"AWS", "Azure", "GCP"}

ASSUME MonitoringAssumption ==
    /\ CloudOf \in [Instances -> Clouds]
    /\ StatusClients \subseteq Clouds /\ CostClients \subseteq Clouds
    /\ IsFiniteSet(Queries)
    /\ Days \in Nat \ {0}
    /\ MaxChanges \in Nat /\ MaxFaults \in Nat

States == {"running", "stopped", "terminated"}

\* _AWS_STATE_MAP, _AZURE_STATE_MAP, _GCP_STATE_MAP: what each state stands for
StateMap ==
    [AWS |-> [running |-> {"running", "pending"}, stopped |-> {"stopped", "stopping"},
              terminated |-> {"terminated", "shutting-down"}],
     Azure |-> [running |-> {"VM running", "VM starting"},
                stopped |-> {"VM deallocated", "VM stopped", "VM deallocating"},
                terminated |-> {"VM deleted"}],
     GCP |-> [running |-> {"RUNNING", "STAGING"}, stopped |-> {"STOPPED", "SUSPENDED"},
              terminated |-> {"TERMINATED"}]]

\* Whatever a map does not know counts as terminated.
Shown(c, s) ==
    IF \E t \in States : s \in StateMap[c][t]
    THEN CHOOSE t \in States : s \in StateMap[c][t]
    ELSE "terminated"

VARIABLES
    vm,       \* the state of each instance in its cloud, or "none"
    day,      \* day of the month
    errors,   \* _last_errors: how many entries name each cloud
    req,      \* the requests
    changes,  \* changes of instances so far
    faults,   \* failed calls so far
    steady,   \* history: instances a request found and that have not changed since
    hit,      \* history: clouds without a client, or with a failed call, for a request
    first     \* history: requests that have seen the first day of a month

monitorVars == <<vm, day, errors, req, changes, faults, steady, hit, first>>

Ops == {"costs", "status", "check", "recommend"}

Answers == {"none", "success", "failed", "insufficient"}

\* wait: clouds whose fetch has not finished; cpu: instances of AWS listed and
\* not yet asked for their CPU; paid, found, failed: what the fetches returned.
Request ==
    [op : Ops \union {"none"}, step : {"idle", "costs", "status", "types", "done"},
     target : SUBSET Clouds, wait : SUBSET Clouds, cpu : SUBSET Instances,
     paid : SUBSET Clouds, found : [Instances -> States \union {"-"}],
     failed : SUBSET Clouds, answer : Answers]

Nothing == [i \in Instances |-> "-"]

Idle == [op |-> "none", step |-> "idle", target |-> {}, wait |-> {}, cpu |-> {},
         paid |-> {}, found |-> Nothing, failed |-> {}, answer |-> "none"]

NoErrors == [c \in Clouds |-> 0]

MonitorInit ==
    /\ vm \in {f \in [Instances -> UNION {RawStates[c] : c \in Clouds} \union {"none"}] :
                \A i \in Instances : f[i] \in RawStates[CloudOf[i]] \union {"none"}}
    /\ day \in 1..Days
    /\ errors = NoErrors
    /\ req = [q \in Queries |-> Idle]
    /\ changes = 0 /\ faults = 0
    /\ steady = [q \in Queries |-> {}]
    /\ hit = [q \in Queries |-> {}]
    /\ first = {}

-----------------------------------------------------------------------------
(* Around the requests *)

Existing(c) == {i \in Instances : CloudOf[i] = c /\ vm[i] # "none"}

Change(i) ==
    /\ changes < MaxChanges
    /\ changes' = changes + 1
    /\ \E s \in (RawStates[CloudOf[i]] \union {"none"}) \ {vm[i]} :
            vm' = [vm EXCEPT ![i] = s]
    /\ steady' = [q \in Queries |-> steady[q] \ {i}]
    /\ UNCHANGED <<day, errors, req, faults, hit, first>>

Midnight ==
    /\ day' = (day % Days) + 1
    /\ first' = IF day' = 1 THEN {q \in Queries : req[q].step # "idle"} \union first
                ELSE first
    /\ UNCHANGED <<vm, errors, req, changes, faults, steady, hit>>

-----------------------------------------------------------------------------
(* A call of the layer *)

World == UNCHANGED <<vm, day, changes, steady, first>>

\* A call to a cloud fails.
Fault(q, c) ==
    /\ faults < MaxFaults
    /\ faults' = faults + 1
    /\ hit' = [hit EXCEPT ![q] = @ \union {c}]

NoFault == UNCHANGED <<faults, hit>>

\* Whom each operation asks, and for what first
Targets(op) ==
    IF op = "check" THEN {{c} : c \in Clouds}
    ELSE IF op = "status" THEN {{c} : c \in Clouds} \union {Clouds, {}}
    ELSE {Clouds}

FirstStep(op) == IF op \in {"costs", "recommend"} THEN "costs" ELSE "status"

\* Mutant: the errors of earlier operations are kept.
MutStart(q, op, target) ==
    /\ req[q].step = "idle"
    /\ req' = [req EXCEPT ![q] = [Idle EXCEPT !.op = op, !.step = FirstStep(op),
                                              !.target = target, !.wait = target]]
    /\ steady' = [steady EXCEPT ![q] = {i \in Instances : vm[i] # "none"}]
    /\ hit' = [hit EXCEPT ![q] = {}]
    /\ first' = IF day = 1 THEN first \union {q} ELSE first \ {q}
    /\ UNCHANGED <<vm, day, errors, changes, faults>>

\* A request comes in and calls get_costs or get_resource_status, which forget
\* the errors of whatever was before and ask the clouds.
Start(q, op, target) ==
    /\ req[q].step = "idle"
    /\ errors' = NoErrors
    /\ req' = [req EXCEPT ![q] = [Idle EXCEPT !.op = op, !.step = FirstStep(op),
                                              !.target = target, !.wait = target]]
    /\ steady' = [steady EXCEPT ![q] = {i \in Instances : vm[i] # "none"}]
    /\ hit' = [hit EXCEPT ![q] = {}]
    /\ first' = IF day = 1 THEN first \union {q} ELSE first \ {q}
    /\ UNCHANGED <<vm, day, changes, faults>>

\* The fetch of a cloud without a client raises.
NoClient(q, c) ==
    /\ \/ req[q].step = "costs" /\ c \notin CostClients
       \/ req[q].step = "status" /\ c \notin StatusClients
    /\ c \in req[q].wait
    /\ req' = [req EXCEPT ![q].wait = @ \ {c}, ![q].failed = @ \union {c}]
    /\ hit' = [hit EXCEPT ![q] = IF req[q].step = "status" THEN @ \union {c} ELSE @]
    /\ UNCHANGED <<errors, faults>> /\ World

\* get_cost_and_usage swallows its errors: it returns costs or nothing.
Costs(q, c) ==
    /\ req[q].step = "costs"
    /\ c \in req[q].wait \intersect CostClients
    /\ \E paid \in {{}, {c}} :
            req' = [req EXCEPT ![q].wait = @ \ {c}, ![q].paid = @ \union paid]
    /\ UNCHANGED errors /\ NoFault /\ World

\* What a listing adds to found: the instances seen, those in unknown with a
\* state nobody could read
Found(q, seen, unknown) ==
    [i \in Instances |->
        IF i \in unknown THEN "terminated"
        ELSE IF i \in seen THEN Shown(CloudOf[i], vm[i])
        ELSE req[q].found[i]]

\* describe_instances of EC2 lists all or raises.
ListAws(q) ==
    /\ req[q].step = "status"
    /\ "AWS" \in req[q].wait \intersect StatusClients
    /\ req[q].cpu = {}
    /\ \/ /\ req' = [req EXCEPT ![q].found = Found(q, Existing("AWS"), {}),
                                ![q].cpu = Existing("AWS"),
                                ![q].wait = IF Existing("AWS") = {} THEN @ \ {"AWS"} ELSE @]
          /\ NoFault
       \/ /\ req' = [req EXCEPT ![q].wait = @ \ {"AWS"}, ![q].failed = @ \union {"AWS"}]
          /\ Fault(q, "AWS")
    /\ UNCHANGED errors /\ World

\* Mutant: an instance whose CPU is not to be had is left out.
MutCpu(q, i) ==
    /\ i \in req[q].cpu
    /\ \E f \in {req[q].found[i], "-"} :
            req' = [req EXCEPT ![q].cpu = @ \ {i}, ![q].found[i] = f,
                               ![q].wait = IF req[q].cpu = {i} THEN @ \ {"AWS"} ELSE @]
    /\ UNCHANGED errors /\ NoFault /\ World

\* get_cpu_utilization; without an answer the instance is shown without CPU.
Cpu(q, i) ==
    /\ i \in req[q].cpu
    /\ req' = [req EXCEPT ![q].cpu = @ \ {i},
                          ![q].wait = IF req[q].cpu = {i} THEN @ \ {"AWS"} ELSE @]
    /\ UNCHANGED errors /\ NoFault /\ World

\* The clients of Azure and GCP swallow an error in the middle of the listing
\* and return what they have.
ListPart(q, c, seen) ==
    /\ req' = [req EXCEPT ![q].wait = @ \ {c}, ![q].found = Found(q, seen, {})]
    /\ IF seen = Existing(c) THEN NoFault ELSE Fault(q, c)

\* The client of Azure also swallows that the state of a machine cannot be read.
ListUnknown(q, i) ==
    /\ req' = [req EXCEPT ![q].wait = @ \ {"Azure"},
                          ![q].found = Found(q, Existing("Azure"), {i})]
    /\ Fault(q, "Azure")

ListRest(q, c) ==
    /\ req[q].step = "status"
    /\ c \in (req[q].wait \intersect StatusClients) \ {"AWS"}
    /\ \/ \E seen \in SUBSET Existing(c) : ListPart(q, c, seen)
       \/ c = "Azure" /\ \E i \in Existing(c) : ListUnknown(q, i)
    /\ UNCHANGED errors /\ World

\* gather is over: the fetches that raised are noted.
Noted(q) == [c \in Clouds |-> errors[c] + (IF c \in req[q].failed THEN 1 ELSE 0)]

-----------------------------------------------------------------------------
(* The callers *)

Gathered(q, step) == req[q].step = step /\ req[q].wait = {}

Finish(q, answer) ==
    req' = [req EXCEPT ![q].step = "done", ![q].answer = answer, ![q].paid = {},
                       ![q].failed = {}]

\* The route of the costs and the handlers get_costs
CostsReturn(q) ==
    /\ Gathered(q, "costs") /\ req[q].op = "costs"
    /\ errors' = Noted(q)
    /\ Finish(q, "success")
    /\ NoFault /\ World

\* get_recommendations goes on to the states, and the errors of the costs are
\* forgotten.
RecommendOn(q) ==
    /\ Gathered(q, "costs") /\ req[q].op = "recommend"
    /\ errors' = NoErrors
    /\ req' = [req EXCEPT ![q].step = "status", ![q].wait = Clouds, ![q].failed = {}]
    /\ NoFault /\ World

\* Mutant: costs alone, or states alone, are not enough.
MutRefused(q) == req[q].paid = {} \/ req[q].found = Nothing \/ day = 1

\* Without any data, and on the first day of a month, when the default period
\* is shorter than 24 hours, there are no recommendations.
Refused(q) == (req[q].paid = {} /\ req[q].found = Nothing) \/ day = 1

RecommendReturn(q) ==
    /\ Gathered(q, "status") /\ req[q].op = "recommend"
    /\ errors' = Noted(q)
    /\ Finish(q, IF Refused(q) THEN "insufficient" ELSE "success")
    /\ NoFault /\ World

\* The route of the states, and the handlers check_status of Azure and GCP and,
\* when it has no client, of AWS
StatusReturn(q) ==
    /\ Gathered(q, "status")
    /\ \/ req[q].op = "status"
       \/ req[q].op = "check" /\ req[q].target \intersect StatusClients # {"AWS"}
    /\ errors' = Noted(q)
    /\ Finish(q, "success")
    /\ NoFault /\ World

\* The handler of AWS lists once more, for the types.
CheckOn(q) ==
    /\ Gathered(q, "status") /\ req[q].op = "check"
    /\ req[q].target = {"AWS"} /\ "AWS" \in StatusClients
    /\ errors' = Noted(q)
    /\ req' = [req EXCEPT ![q].step = "types"]
    /\ NoFault /\ World

Types(q) ==
    /\ req[q].step = "types"
    /\ \/ Finish(q, "success") /\ NoFault
       \/ Finish(q, "failed") /\ Fault(q, "AWS")
    /\ UNCHANGED errors /\ World

\* The caller has the answer.
Leave(q) ==
    /\ req[q].step = "done"
    /\ req' = [req EXCEPT ![q] = Idle]
    /\ steady' = [steady EXCEPT ![q] = {}]
    /\ hit' = [hit EXCEPT ![q] = {}]
    /\ first' = first \ {q}
    /\ UNCHANGED <<vm, day, errors, changes, faults>>

MonitorNext ==
    \/ Midnight
    \/ \E i \in Instances : Change(i)
    \/ \E q \in Queries :
        \/ \E op \in Ops : \E target \in Targets(op) : Start(q, op, target)
        \/ \E c \in Clouds : NoClient(q, c) \/ Costs(q, c) \/ ListRest(q, c)
        \/ \E i \in Instances : Cpu(q, i)
        \/ ListAws(q)
        \/ CostsReturn(q) \/ RecommendOn(q) \/ RecommendReturn(q)
        \/ StatusReturn(q) \/ CheckOn(q) \/ Types(q)
        \/ Leave(q)

MonitorSpec == MonitorInit /\ [][MonitorNext]_monitorVars

-----------------------------------------------------------------------------
(* Properties *)

\* Every variable is of its type.
MonitorTypeOK ==
    /\ \A i \in Instances : vm[i] \in RawStates[CloudOf[i]] \union {"none"}
    /\ day \in 1..Days
    /\ errors \in [Clouds -> Nat]
    /\ req \in [Queries -> Request]
    /\ changes \in 0..MaxChanges /\ faults \in 0..MaxFaults
    /\ steady \in [Queries -> SUBSET Instances]
    /\ hit \in [Queries -> SUBSET Clouds]
    /\ first \subseteq Queries

\* The errors of operations that overlap add up in the one list, but no cloud is
\* named more often than operations can be under way at a time, however many
\* there were before.
ErrorsBounded ==
    \A c \in Clouds : errors[c] <= Cardinality(Queries)

\* Whether a request looked at the state of an instance
Asked(q, i) == req[q].op \in {"status", "check", "recommend"} /\ CloudOf[i] \in
                    (IF req[q].op = "recommend" THEN Clouds ELSE req[q].target)

\* An answer shows every instance that was there all the time, in the state it
\* was in all the time, unless its cloud has no client or failed a call of this
\* very request; what CPU metrics and other requests do does not matter.
SteadyIsShown ==
    \A q \in Queries : req[q].step = "done" =>
        \A i \in steady[q] : Asked(q, i) /\ CloudOf[i] \notin hit[q] =>
            req[q].found[i] = Shown(CloudOf[i], vm[i])

\* Recommendations are refused for want of data only when no instance was to
\* be seen all the time, or else the first of a month came up meanwhile.
RefusedForAReason ==
    \A q \in Queries : req[q].step = "done" /\ req[q].answer = "insufficient" =>
        \/ q \in first
        \/ \A i \in steady[q] : CloudOf[i] \in hit[q]
=============================================================================
