---------------------------- MODULE Notifications ----------------------------
(***************************************************************************)
(* The WhatsApp numbers of one user and the Celery task that alerts them.  *)
(* Adding a number checks its uniqueness and the limit in statements of    *)
(* their own and commits at the end of the request; nothing in the schema  *)
(* repeats the checks.  What keeps requests apart is get_current_user: it  *)
(* writes last_active into the user's row, which is locked from there to   *)
(* the end of the request (see Accounts).  A task, which reads no user,    *)
(* takes no part in this.  It reads the verified numbers once, sends each  *)
(* deviation to each of them with a few attempts, and commits one log row  *)
(* per deviation and number at its very end.                               *)
(*                                                                         *)
(* WhatsApp is external: it may accept the text, refuse it and accept the  *)
(* template, refuse both, or accept either and fail to say so.  A message  *)
(* is the text or the template in its place.  A number is stored as        *)
(* verified at once, so the verification route, which looks for a pending  *)
(* one, never finds any and is left out.                                   *)
(***************************************************************************)
EXTENDS Naturals, FiniteSets

CONSTANTS
    Numbers,        \* numbers in E.164 format; any other is answered 400
    Copies,         \* rows there may be of one number in the table phone_number
    Limit,          \* MAX_PHONE_NUMBERS_PER_USER
    Requests,       \* slots for the requests to add a number in progress
    Tasks,          \* notification tasks, each for one report
    Deviations,     \* how many deviations a task announces
    MaxAttempts,    \* MAX_RETRIES of send_with_retry, which counts attempts
    MaxRetries,     \* max_retries of the task
    MaxCrashes,     \* bound on workers lost
    MaxLost         \* bound on lost answers to accepted messages of one alert

None == "none"

ASSUME NotificationAssumption ==
    /\ None \notin Numbers
    /\ Copies \subseteq Nat
    /\ Requests \subseteq Nat
    /\ Limit \in Nat \ {0}
    /\ Deviations \in Nat \ {0}
    /\ MaxAttempts \in Nat \ {0}
    /\ MaxRetries \in Nat
    /\ MaxCrashes \in Nat
    /\ MaxLost \in Nat

VARIABLES
    book,       \* the committed rows of phone_number
    adding,     \* what each request to add a number does next, and the number
    phase,      \* how far each task is
    run,        \* what a task has read and done since it began last
    begun,      \* how often a worker has begun each task
    retries,    \* how often each task has been retried
    reports,    \* the tasks whose report has not been deleted
    logs,       \* the committed rows of notification_log
    crashes,    \* workers lost so far
    accepted,   \* history: how many messages of each alert WhatsApp has accepted
    lost        \* history: how many of those without the task hearing of it

book_vars == <<book, adding>>
task_vars == <<phase, run, begun, retries>>
sent_vars == <<accepted, lost>>
vars == <<book, adding, phase, run, begun, retries, reports, logs, crashes,
          accepted, lost>>

Phases == {"none", "queued", "report", "numbers", "send", "commit", "done", "failed"}
Running == {"report", "numbers", "send", "commit"}
Statuses == {"sent", "failed"}

Alerts == Tasks \X (1..Deviations) \X Numbers

\* A row is its number and which of the rows of that number it is: rows differ in
\* nothing else.
Rows == Numbers \X Copies
Draft == (1..Deviations) \X Numbers \X Statuses

\* One pass over the numbers: the rows read, the deviation in hand, the rows
\* not served yet, the row tried before, if any, and the attempt on it, whether a number of
\* this deviation has failed, and the log rows added to the session.
Run ==
    [list : SUBSET Rows, at : 1..Deviations, todo : SUBSET Rows, tried : SUBSET Rows,
     attempt : 1..MaxAttempts, bad : BOOLEAN, drafts : SUBSET Draft]

Reading(b) ==
    [list |-> b, at |-> 1, todo |-> b, tried |-> {}, attempt |-> 1,
     bad |-> FALSE, drafts |-> {}]

\* Nothing is left of a run that has ended, failed or been lost.
NoRun == Reading({})

Init ==
    /\ book = {}
    /\ adding = [q \in Requests |-> [step |-> "idle", number |-> None]]
    /\ phase = [t \in Tasks |-> "none"]
    /\ run = [t \in Tasks |-> NoRun]
    /\ begun = [t \in Tasks |-> 0]
    /\ retries = [t \in Tasks |-> 0]
    /\ reports = Tasks
    /\ logs = {}
    /\ crashes = 0
    /\ accepted = [a \in Alerts |-> 0] /\ lost = [a \in Alerts |-> 0]

-----------------------------------------------------------------------------
(* The numbers *)

RowsOf(n) == {r \in book : r[1] = n}

Become(q, s, n) == adding' = [adding EXCEPT ![q] = [step |-> s, number |-> n]]

NumbersOnly == UNCHANGED <<task_vars, reports, logs, crashes, sent_vars>>

\* The slot of the next request; slots differ in nothing but their number.
Slot(q) ==
    /\ adding[q].step = "idle"
    /\ \A p \in Requests : adding[p].step = "idle" => q <= p

\* No request of the user holds the lock on the user's row.
Unlocked == \A q \in Requests : adding[q].step = "idle"

\* Mutant: last_active is not written in the transaction of the request.
MutCheckUnique(q, n) ==
    /\ Slot(q)
    /\ RowsOf(n) = {}
    /\ Become(q, "count", n)
    /\ UNCHANGED book /\ NumbersOnly

\* get_current_user takes the lock, add_phone_number looks for the number.
CheckUnique(q, n) ==
    /\ Unlocked /\ Slot(q)
    /\ RowsOf(n) = {}
    /\ Become(q, "count", n)
    /\ UNCHANGED book /\ NumbersOnly

CountRows(q) ==
    /\ adding[q].step = "count"
    /\ IF Cardinality(book) >= Limit
       THEN Become(q, "idle", None)
       ELSE Become(q, "insert", adding[q].number)
    /\ UNCHANGED book /\ NumbersOnly

Free(n) == {k \in Copies : <<n, k>> \notin book}

\* The row is flushed, the code sent as best it can be, and get_db commits,
\* unless something has raised.
Insert(q) ==
    /\ adding[q].step = "insert"
    /\ \/ \E k \in Free(adding[q].number) :
            /\ \A j \in Free(adding[q].number) : k <= j
            /\ book' = book \union {<<adding[q].number, k>>}
       \/ UNCHANGED book
    /\ Become(q, "idle", None)
    /\ NumbersOnly

\* remove_phone_number, behind the same lock
Remove(r) ==
    /\ Unlocked
    /\ r \in book
    /\ book' = book \ {r}
    /\ UNCHANGED adding /\ NumbersOnly

-----------------------------------------------------------------------------
(* The task *)

TaskOnly == UNCHANGED <<book_vars, reports, crashes>>

\* detect_deviations queues the task.
Queue(t) ==
    /\ phase[t] = "none"
    /\ phase' = [phase EXCEPT ![t] = "queued"]
    /\ UNCHANGED <<run, begun, retries, logs, sent_vars>> /\ TaskOnly

Begin(t) ==
    /\ phase[t] = "queued"
    /\ phase' = [phase EXCEPT ![t] = "report"]
    /\ begun' = [begun EXCEPT ![t] = @ + 1]
    /\ UNCHANGED <<run, retries, logs, sent_vars>> /\ TaskOnly

FetchReport(t) ==
    /\ phase[t] = "report"
    /\ phase' = [phase EXCEPT ![t] = IF t \in reports THEN "numbers" ELSE "done"]
    /\ UNCHANGED <<run, begun, retries, logs, sent_vars>> /\ TaskOnly

FetchNumbers(t) ==
    /\ phase[t] = "numbers"
    /\ phase' = [phase EXCEPT ![t] = "send"]
    /\ run' = [run EXCEPT ![t] = Reading(book)]
    /\ UNCHANGED <<begun, retries, logs, sent_vars>> /\ TaskOnly

\* The row send_with_retry tries again, or one of those still to be served
Current(t) == IF run[t].tried = {} THEN run[t].todo ELSE run[t].tried

InHand(t, r) == <<t, run[t].at, r[1]>>

Served(t, r, bad) ==
    run' = [run EXCEPT ![t].todo = @ \ {r}, ![t].tried = {}, ![t].attempt = 1,
                       ![t].bad = bad]

\* Mutant: a success does not end the loop of attempts.
MutSucceed(t, r) ==
    IF run[t].attempt < MaxAttempts
    THEN run' = [run EXCEPT ![t].tried = {r}, ![t].attempt = @ + 1]
    ELSE Served(t, r, run[t].bad)

Succeed(t, r) == Served(t, r, run[t].bad)

FailAttempt(t, r) ==
    IF run[t].attempt < MaxAttempts
    THEN run' = [run EXCEPT ![t].tried = {r}, ![t].attempt = @ + 1]
    ELSE Served(t, r, TRUE)

Accept(a) == accepted' = [accepted EXCEPT ![a] = @ + 1]

\* WhatsApp has accepted a message, and the answer times out or breaks off.
AcceptUnheard(a) ==
    /\ lost[a] < MaxLost
    /\ Accept(a)
    /\ lost' = [lost EXCEPT ![a] = @ + 1]

\* _send_message: the text, then the template if the text was refused; an
\* error or a timeout fails the attempt, also when what was sent has arrived.
Attempt(t, r) ==
    /\ phase[t] = "send"
    /\ r \in Current(t)
    /\ \/ /\ Succeed(t, r)
          /\ Accept(InHand(t, r)) /\ UNCHANGED lost
       \/ /\ FailAttempt(t, r)
          /\ AcceptUnheard(InHand(t, r)) \/ UNCHANGED sent_vars
    /\ UNCHANGED <<phase, begun, retries, logs>> /\ TaskOnly

\* Mutant: a deviation counts as sent once some number was served.
MutVerdict(t) == IF \E n \in Numbers : accepted[<<t, run[t].at, n>>] > 0
                 THEN "sent" ELSE "failed"

\* NotificationResult.success, the status of all the numbers of a deviation
Verdict(t) == IF run[t].bad THEN "failed" ELSE "sent"

LogDeviation(t) ==
    /\ phase[t] = "send"
    /\ run[t].todo = {}
    /\ LET drafts == run[t].drafts \union
                        {<<run[t].at, r[1], Verdict(t)>> : r \in run[t].list}
       IN  IF run[t].at < Deviations
           THEN /\ run' = [run EXCEPT ![t].drafts = drafts, ![t].at = @ + 1,
                                      ![t].todo = run[t].list, ![t].bad = FALSE]
                /\ UNCHANGED phase
           ELSE /\ run' = [run EXCEPT ![t] = [NoRun EXCEPT !.drafts = drafts]]
                /\ phase' = [phase EXCEPT ![t] = "commit"]
    /\ UNCHANGED <<begun, retries, logs, sent_vars>> /\ TaskOnly

\* The log rows refer to the deviations, which go with their report.
CommitLogs(t) ==
    /\ phase[t] = "commit"
    /\ t \in reports
    /\ logs' = logs \union {<<t, x[1], x[2], x[3]>> : x \in run[t].drafts}
    /\ phase' = [phase EXCEPT ![t] = "done"]
    /\ run' = [run EXCEPT ![t] = NoRun]
    /\ UNCHANGED <<begun, retries, sent_vars>> /\ TaskOnly

\* A statement or the commit raises: once the task is retried, from the start.
Fail(t) ==
    /\ phase[t] \in {"report", "numbers", "commit"}
    /\ IF retries[t] < MaxRetries
       THEN /\ retries' = [retries EXCEPT ![t] = @ + 1]
            /\ phase' = [phase EXCEPT ![t] = "queued"]
       ELSE /\ phase' = [phase EXCEPT ![t] = "failed"]
            /\ UNCHANGED retries
    /\ run' = [run EXCEPT ![t] = NoRun]
    /\ UNCHANGED <<begun, logs, sent_vars>> /\ TaskOnly

-----------------------------------------------------------------------------

\* Mutant: task_acks_late off, the message of a lost worker is lost too.
MutCrash(t) ==
    /\ phase[t] \in Running
    /\ crashes < MaxCrashes
    /\ crashes' = crashes + 1
    /\ phase' = [phase EXCEPT ![t] = "done"]
    /\ run' = [run EXCEPT ![t] = NoRun]
    /\ UNCHANGED <<book_vars, begun, retries, reports, logs, sent_vars>>

\* A lost worker's task is delivered to another one.
Crash(t) ==
    /\ phase[t] \in Running
    /\ crashes < MaxCrashes
    /\ crashes' = crashes + 1
    /\ phase' = [phase EXCEPT ![t] = "queued"]
    /\ run' = [run EXCEPT ![t] = NoRun]
    /\ UNCHANGED <<book_vars, begun, retries, reports, logs, sent_vars>>

\* delete_report takes the deviations and their log rows with it.
DeleteReport(t) ==
    /\ t \in reports
    /\ phase[t] # "none"
    /\ reports' = reports \ {t}
    /\ logs' = {l \in logs : l[1] # t}
    /\ UNCHANGED <<book_vars, task_vars, crashes, sent_vars>>

Work(t) ==
    \/ Begin(t) \/ FetchReport(t) \/ FetchNumbers(t)
    \/ \E r \in Rows : Attempt(t, r)
    \/ LogDeviation(t) \/ CommitLogs(t) \/ Fail(t)

Next ==
    \/ \E q \in Requests : (\E n \in Numbers : CheckUnique(q, n)) \/ CountRows(q) \/ Insert(q)
    \/ \E r \in Rows : Remove(r)
    \/ \E t \in Tasks : Queue(t) \/ Work(t) \/ Crash(t) \/ DeleteReport(t)

Spec == Init /\ [][Next]_vars

\* The worker goes on with its task; every call it makes returns or times out.
FairSpec == Spec /\ \A t \in Tasks : WF_vars(Work(t))

-----------------------------------------------------------------------------
(* Properties *)

TypeOK ==
    /\ book \subseteq Rows
    /\ adding \in [Requests -> [step : {"idle", "count", "insert"},
                                number : Numbers \union {None}]]
    /\ \A q \in Requests : adding[q].step = "idle" <=> adding[q].number = None
    /\ phase \in [Tasks -> Phases]
    /\ run \in [Tasks -> Run]
    /\ begun \in [Tasks -> Nat] /\ retries \in [Tasks -> 0..MaxRetries]
    /\ reports \subseteq Tasks
    /\ logs \subseteq Tasks \X (1..Deviations) \X Numbers \X Statuses
    /\ crashes \in 0..MaxCrashes
    /\ accepted \in [Alerts -> Nat] /\ lost \in [Alerts -> Nat]

Distinct(b) == \A r, s \in b : r[1] = s[1] => r = s

\* The limit and the uniqueness of numbers are checked before the insert and not
\* in it, each in a statement of its own; they hold all the same, because no
\* other request of the user is between its checks and its commit.
BookKept == Cardinality(book) <= Limit /\ Distinct(book)

\* A log row says "sent" only if WhatsApp accepted a message for that number
\* and deviation, whatever happened to the other numbers and in other runs.
SentWasAccepted ==
    \A t \in Tasks, d \in 1..Deviations, n \in Numbers :
        <<t, d, n, "sent">> \in logs => accepted[<<t, d, n>>] > 0

\* Attempts, retries and redelivered messages nest, and yet an alert is sent once
\* more only for a reason: a worker has begun the task again, or the answer to an
\* accepted message was lost.
RepeatedOnlyForAReason ==
    \A a \in Alerts : accepted[a] <= begun[a[1]] + lost[a]

\* A number configured while a task waits is removed, or is logged for every
\* deviation, unless the report goes or the task fails for good.
ConfiguredIsServed ==
    \A t \in Tasks, n \in Numbers :
        phase[t] = "queued" /\ RowsOf(n) # {}
            ~> \/ RowsOf(n) = {}
               \/ t \notin reports
               \/ phase[t] = "failed"
               \/ \A d \in 1..Deviations : \E s \in Statuses : <<t, d, n, s>> \in logs
=============================================================================
