----------------------------- MODULE CloudQuery -----------------------------
(***************************************************************************)
(* POST /api/query of the AIOps backend: a query in natural language is    *)
(* parsed into an intent, routed by the orchestrator to the handler of its *)
(* (cloud, action) pair, and answered.  Requests overlap at every await;   *)
(* creating an instance runs in a thread of its own.                       *)
(*                                                                         *)
(* EC2 is external: its instances are created here, and booted, stopped,   *)
(* started and terminated by others.  What the language model returns is   *)
(* left open within what the parser lets pass.  An intent is reduced to    *)
(* its pair and to what its conditions are worth to the handler.           *)
(***************************************************************************)
EXTENDS Naturals, FiniteSets

CONSTANTS
    Clouds,         \* SUPPORTED_PROVIDERS
    Queries,       \* requests the server can have in progress
    Instances,      \* EC2 instances there may ever be
    MaxInstances,   \* MAX_INSTANCES_ALLOWED
    MaxStops        \* bound on instances stopped by others

ASSUME QueryAssumption ==
    /\ Clouds \subseteq {"AWS", "Azure", "GCP"}
    /\ IsFiniteSet(Queries)
    /\ IsFiniteSet(Instances)
    /\ MaxInstances \in Nat \ {0}
    /\ MaxStops \in Nat

PowerActions == {"start_instance", "stop_instance"}
ReadActions == {"check_status", "get_costs"}

\* orchestrator.register: what the application registers at start-up
Registry ==
    (Clouds \X (PowerActions \union ReadActions)) \union {<<"AWS", "create_instance">>}

\* What the handlers make of the conditions of an intent: a target named
\* completely, incompletely, or nothing they can parse
Conditions == {"complete", "incomplete", "odd"}

\* The language model may name any action; the patterns that stand in for it
\* without a key return fewer of these intents.
Intent ==
    [cloud : Clouds, action : PowerActions, conditions : Conditions]
    \union
    [cloud : Clouds, action : ReadActions \union {"create_instance", "other"},
     conditions : {"ignored"}]

NoIntent == [cloud |-> "none"]

Steps == {"idle", "parse", "chat", "route", "power", "read", "count", "run"}

\* 502 of a service; a conversation; an ExecutionResult that reports success
\* or failure.
Answers == {"none", "ai_layer", "orchestrator", "chat", "done", "failed"}

VARIABLES
    ec2,       \* the state of each instance, "none" before and after its life
    step,      \* what each request does next
    intent,    \* the intent it carries
    answer,    \* the answer of each request, until the next one begins
    stops      \* instances others have stopped so far

queryVars == <<ec2, step, intent, answer, stops>>

Ec2States == {"none", "pending", "running", "stopping", "stopped"}

QueryInit ==
    /\ ec2 = [i \in Instances |-> "none"]
    /\ step = [q \in Queries |-> "idle"]
    /\ intent = [q \in Queries |-> NoIntent]
    /\ answer = [q \in Queries |-> "none"]
    /\ stops = 0

-----------------------------------------------------------------------------
(* The route *)

Move(q, s) == step' = [step EXCEPT ![q] = s] /\ UNCHANGED <<intent, answer>>

Answer(q, a) ==
    /\ step' = [step EXCEPT ![q] = "idle"]
    /\ intent' = [intent EXCEPT ![q] = NoIntent]
    /\ answer' = [answer EXCEPT ![q] = a]

\* A query arrives; a blank one is answered 422 and leaves no trace.
Submit(q) ==
    /\ step[q] = "idle"
    /\ step' = [step EXCEPT ![q] = "parse"]
    /\ answer' = [answer EXCEPT ![q] = "none"]
    /\ UNCHANGED <<ec2, intent, stops>>

\* parse_intent returns.
Parse(q) ==
    /\ step[q] = "parse"
    /\ \E i \in Intent : intent' = [intent EXCEPT ![q] = i]
    /\ step' = [step EXCEPT ![q] = "route"]
    /\ UNCHANGED <<ec2, answer, stops>>

\* parse_intent raises: no command (also when it timed out or OpenAI failed,
\* which _parse_with_openai turns into a ParseError), too long a query or a
\* provider that is not supported.
ParseError(q) ==
    /\ step[q] = "parse"
    /\ Move(q, "chat") \/ Answer(q, "ai_layer")
    /\ UNCHANGED <<ec2, stops>>

\* get_conversational_response, which needs the key
Chat(q) ==
    /\ step[q] = "chat"
    /\ Answer(q, "ai_layer") \/ Answer(q, "chat")
    /\ UNCHANGED <<ec2, stops>>

\* The first step of the handler an action is registered with
Handler(a) ==
    IF a \in PowerActions THEN "power" ELSE IF a \in ReadActions THEN "read" ELSE "count"

\* Orchestrator.route: a pair nobody registered raises.
Route(q) ==
    /\ step[q] = "route"
    /\ IF <<intent[q].cloud, intent[q].action>> \in Registry
       THEN Move(q, Handler(intent[q].action))
       ELSE Answer(q, "orchestrator")
    /\ UNCHANGED <<ec2, stops>>

-----------------------------------------------------------------------------
(* The handlers *)

\* start_instance, stop_instance of the three providers: conditions that are no
\* string raise, an incomplete target is refused, and a complete one reaches the
\* placeholder client, whose RuntimeError the Azure provider alone catches.
AwsPower(conditions) == IF conditions = "incomplete" THEN "failed" ELSE "orchestrator"

AzurePower(conditions) ==
    IF conditions \in {"incomplete", "complete"} THEN "failed" ELSE "orchestrator"

GcpPower(conditions) == IF conditions = "incomplete" THEN "failed" ELSE "orchestrator"

Power(q) ==
    /\ step[q] = "power"
    /\ \/ intent[q].cloud = "AWS" /\ Answer(q, AwsPower(intent[q].conditions))
       \/ intent[q].cloud = "Azure" /\ Answer(q, AzurePower(intent[q].conditions))
       \/ intent[q].cloud = "GCP" /\ Answer(q, GcpPower(intent[q].conditions))
    /\ UNCHANGED <<ec2, stops>>

\* check_status, get_costs: the failure of a provider is kept aside, and only
\* the second look at EC2 can fail the answer.
Read(q) ==
    /\ step[q] = "read"
    /\ \/ Answer(q, "done")
       \/ /\ intent[q].cloud = "AWS"
          /\ intent[q].action = "check_status"
          /\ Answer(q, "failed")
    /\ UNCHANGED <<ec2, stops>>

InState(S) == {i \in Instances : ec2[i] \in S}

\* Mutant: the limit itself is let through.
MutCount(q) ==
    /\ step[q] = "count"
    /\ IF Cardinality(InState({"running", "stopped", "pending"})) > MaxInstances
       THEN Answer(q, "failed")
       ELSE Move(q, "run") \/ Answer(q, "failed")
    /\ UNCHANGED <<ec2, stops>>

\* create_instance counts what is running, stopped or pending; the call may
\* also fail.
Count(q) ==
    /\ step[q] = "count"
    /\ IF Cardinality(InState({"running", "stopped", "pending"})) >= MaxInstances
       THEN Answer(q, "failed")
       ELSE Move(q, "run") \/ Answer(q, "failed")
    /\ UNCHANGED <<ec2, stops>>

\* describe_images may fail; run_instances may fail, or create the instance
\* and lose the answer.
Run(q) ==
    /\ step[q] = "run"
    /\ \/ /\ Answer(q, "failed")
          /\ UNCHANGED ec2
       \/ \E i \in InState({"none"}) :
            /\ ec2' = [ec2 EXCEPT ![i] = "pending"]
            /\ Answer(q, "done") \/ Answer(q, "failed")
    /\ UNCHANGED stops

-----------------------------------------------------------------------------
(* What others do to the instances *)

Change(i, from, to) ==
    /\ ec2[i] \in from
    /\ ec2' = [ec2 EXCEPT ![i] = to]
    /\ UNCHANGED <<step, intent, answer>>

Stop(i) ==
    /\ stops < MaxStops
    /\ stops' = stops + 1
    /\ Change(i, {"running"}, "stopping")

Evolve(i) ==
    /\ \/ Change(i, {"pending"}, "running")
       \/ Change(i, {"stopping"}, "stopped")
       \/ Change(i, {"stopped"}, "pending")
       \/ Change(i, {"pending", "running", "stopping", "stopped"}, "none")
    /\ UNCHANGED stops

-----------------------------------------------------------------------------

Serve(q) ==
    \/ Parse(q) \/ ParseError(q) \/ Chat(q) \/ Route(q)
    \/ Power(q) \/ Read(q) \/ Count(q) \/ Run(q)

QueryNext ==
    \/ \E q \in Queries : Submit(q) \/ Serve(q)
    \/ \E i \in Instances : Stop(i) \/ Evolve(i)

QuerySpec == QueryInit /\ [][QueryNext]_queryVars

-----------------------------------------------------------------------------
(* Properties *)

QueryTypeOK ==
    /\ ec2 \in [Instances -> Ec2States]
    /\ step \in [Queries -> Steps]
    /\ intent \in [Queries -> Intent \union {NoIntent}]
    /\ answer \in [Queries -> Answers]
    /\ stops \in Nat
    /\ \A q \in Queries :
            step[q] \in {"idle", "parse", "chat"} <=> intent[q] = NoIntent

Existing == {i \in Instances : ec2[i] # "none"}
Creating == {q \in Queries : step[q] = "run"}

\* How far count-then-run can carry the platform beyond the limit: by one
\* instance per request that has counted, and by the instances that were
\* stopping, and so not counted, at the time.
OverrunBounded ==
    Cardinality(Existing) + Cardinality(Creating)
        <= (MaxInstances - 1) + Cardinality(Queries) + stops
=============================================================================
