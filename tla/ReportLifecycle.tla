--------------------------- MODULE ReportLifecycle ---------------------------
(***************************************************************************)
(* What the analysis pipeline promises about each report, without broker,  *)
(* messages, workers, retries and crashes: which rows there are, and which *)
(* tasks of the report are due.  A due task is dropped only when it has    *)
(* handed the report on, when its own stage ends the chain, when the       *)
(* report is gone, or when it failed for all to see.                       *)
(***************************************************************************)
EXTENDS FiniteSets

CONSTANTS
    Reports,      \* report rows that may be ingested
    NameOf        \* the name of each report: one name is one series

VARIABLES
    status,       \* report.status, and "absent" or "deleted" without a row
    stored,       \* reports whose data points are stored
    trend,        \* "none", or what analyze() has committed
    detected,     \* detect() has committed
    alarm,        \* reports with a medium or high deviation recorded
    alerted,      \* messages went out for it
    logged,       \* the notification task has committed
    due,          \* the tasks of a report that will still run
    failed        \* tasks that ended for good without their result

rows == <<status, stored, trend, detected, alarm, alerted, logged>>
vars == <<rows, due, failed>>

Stages == {"parse", "trend", "deviation", "notify"}

After == [parse |-> "trend", trend |-> "deviation", deviation |-> "notify"]

Gone(r) == status[r] = "deleted"
Exists(r) == status[r] \notin {"absent", "deleted"}

\* The series of r has stored points.
SeriesKnown(r) == \E s \in Reports : NameOf[s] = NameOf[r] /\ s \in stored

\* The rows that the task before t leaves, or the report is gone.
Ready(r, t) ==
    /\ status[r] # "absent"
    /\ t = "deviation" => trend[r] # "none" \/ Gone(r)
    /\ t = "notify" => r \in alarm \/ Gone(r)

Init ==
    /\ status = [r \in Reports |-> "absent"]
    /\ stored = {}
    /\ trend = [r \in Reports |-> "none"]
    /\ detected = [r \in Reports |-> FALSE]
    /\ alarm = {}
    /\ alerted = [r \in Reports |-> FALSE]
    /\ logged = [r \in Reports |-> FALSE]
    /\ due = [r \in Reports |-> {}]
    /\ failed = {}

-----------------------------------------------------------------------------

Arrive(r) ==
    /\ status[r] = "absent"
    /\ status' = [status EXCEPT ![r] = "received"]
    /\ UNCHANGED <<stored, trend, detected, alarm, alerted, logged, due, failed>>

\* Deletion is final, and takes every row with it.
Remove(r) ==
    /\ Exists(r)
    /\ status' = [status EXCEPT ![r] = "deleted"]
    /\ stored' = stored \ {r}
    /\ trend' = [trend EXCEPT ![r] = "none"]
    /\ alarm' = alarm \ {r}
    /\ logged' = [logged EXCEPT ![r] = FALSE]
    /\ UNCHANGED <<detected, alerted, due, failed>>

\* A task becomes due: asked for from outside, or once more because a worker
\* was lost.  Either way what it works on is there.
FallDue(r, t) ==
    /\ Ready(r, t)
    /\ due' = [due EXCEPT ![r] = @ \union {t}]
    /\ UNCHANGED <<rows, failed>>

\* Task t of r is over, unless another copy of it is still to run.
Over(r, t) == \E d \in {due[r], due[r] \ {t}} : due' = [due EXCEPT ![r] = d]

\* The next task falls due no later than this one ends.
HandOn(r, t) ==
    /\ t \in due[r] \ {"notify"}
    /\ Ready(r, After[t])
    /\ t = "parse" => r \in stored \/ Gone(r)
    /\ \E d \in {due[r], due[r] \ {t}} :
           due' = [due EXCEPT ![r] = d \union {After[t]}]
    /\ UNCHANGED <<rows, failed>>

GiveUp(r, t) ==
    /\ t \in due[r]
    /\ failed' = failed \union {<<t, r>>}
    /\ Over(r, t)
    /\ UNCHANGED rows

\* The report is gone when its task looks for it.
Drop(r, t) ==
    /\ t \in due[r] \intersect {"parse", "notify"}
    /\ Gone(r)
    /\ Over(r, t)
    /\ UNCHANGED <<rows, failed>>

Parse(r) ==
    /\ Exists(r)
    /\ status' = [status EXCEPT ![r] = "parsed"]
    /\ stored' = stored \union {r}
    /\ UNCHANGED <<trend, detected, alarm, alerted, logged, due, failed>>
    /\ "parse" \in due[r]

Refuse(r) ==
    /\ Exists(r)
    /\ status' = [status EXCEPT ![r] = "parse_failed"]
    /\ UNCHANGED <<stored, trend, detected, alarm, alerted, logged, failed>>
    /\ "parse" \in due[r]
    /\ Over(r, "parse")

\* A trend, once stored, stays; without any points none is stored.
Analyze(r) ==
    /\ Exists(r)
    /\ \/ trend' = [trend EXCEPT ![r] = IF @ = "none" THEN "empty" ELSE @]
       \/ SeriesKnown(r) /\ trend' = [trend EXCEPT ![r] = "stored"]
    /\ UNCHANGED <<status, stored, detected, alarm, alerted, logged, due, failed>>
    /\ "trend" \in due[r]

\* Nothing to alert about: the chain ends.
Calm(r) ==
    /\ detected' = [detected EXCEPT ![r] = TRUE]
    /\ UNCHANGED <<status, stored, trend, alarm, alerted, logged, failed>>
    /\ "deviation" \in due[r]
    /\ Over(r, "deviation")

\* A medium or high deviation is recorded, and the task is not over with that.
Alarm(r) ==
    /\ Exists(r)
    /\ SeriesKnown(r)
    /\ detected' = [detected EXCEPT ![r] = TRUE]
    /\ alarm' = alarm \union {r}
    /\ UNCHANGED <<status, stored, trend, alerted, logged, due, failed>>
    /\ "deviation" \in due[r]

Alert(r) ==
    /\ Exists(r) /\ r \in alarm
    /\ alerted' = [alerted EXCEPT ![r] = TRUE]
    /\ UNCHANGED <<status, stored, trend, detected, alarm, logged, due, failed>>
    /\ "notify" \in due[r]

Log(r) ==
    /\ Exists(r) /\ r \in alarm
    /\ logged' = [logged EXCEPT ![r] = TRUE]
    /\ UNCHANGED <<status, stored, trend, detected, alarm, alerted, failed>>
    /\ "notify" \in due[r]
    /\ Over(r, "notify")

Next ==
    \E r \in Reports :
        \/ Arrive(r) \/ Remove(r)
        \/ Parse(r) \/ Refuse(r) \/ Analyze(r) \/ Calm(r) \/ Alarm(r)
        \/ Alert(r) \/ Log(r)
        \/ \E t \in Stages :
               FallDue(r, t) \/ HandOn(r, t) \/ GiveUp(r, t) \/ Drop(r, t)

Spec == Init /\ [][Next]_vars
=============================================================================
