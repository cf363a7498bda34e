--------------------------- MODULE ReportPipeline ---------------------------
(***************************************************************************)
(* The Celery analysis pipeline of ReportPulse (backend/app/workers):      *)
(* parse_report -> analyze_trends -> detect_deviations ->                  *)
(* send_notifications.  Every task runs one database transaction, then     *)
(* sends the message that starts the next task, then returns and is        *)
(* acknowledged.  The broker keeps a message until it is acknowledged      *)
(* (task_acks_late, task_reject_on_worker_lost), so a worker that dies     *)
(* gives its message back; an exception ends in self.retry, which sends a  *)
(* new message, until max_retries is reached.                              *)
(*                                                                         *)
(* A message names its task, its report and the retries already made.      *)
(* Parsed values are abstracted to whether a report has stored points and  *)
(* to the verdict the detector would give on the series of that name; the  *)
(* verdict can change only when points of the series come or go.           *)
(***************************************************************************)
EXTENDS Naturals, FiniteSets

CONSTANTS
    Reports,      \* report rows that may be ingested
    Names,        \* report names: reports of one name share one history
    NameOf,       \* the name of each report
    Workers,      \* Celery worker processes
    MaxRetries,   \* max_retries of each task's self.retry
    RetryCap,     \* bound: the largest of them
    MaxQueued,    \* bound on messages sent from outside the chain
    MaxCrashes    \* bound on worker losses

Tasks == {"parse", "trend", "deviation", "notify"}

ASSUME PipelineAssumption ==
    /\ NameOf \in [Reports -> Names]
    /\ RetryCap \in Nat
    /\ MaxRetries \in [Tasks -> 0..RetryCap]
    /\ MaxQueued \in Nat
    /\ MaxCrashes \in Nat

Messages == [task : Tasks, report : Reports, retries : 0..RetryCap]

NoMessage == [task |-> "none"]

\* Where a worker stands in its task: about to run the transaction, about
\* to send the next message, about to mark the report failed, about to call
\* self.retry, about to commit the notification log, or about to return.
Steps == {"idle", "run", "send", "mark", "retry", "log", "done"}

Statuses == {"absent", "received", "parsed", "parse_failed", "deleted"}

NoRow == {"absent", "deleted"}

\* What detect() finds on a series: nothing, only low severities, or a
\* medium or high one.
Verdicts == {"quiet", "low", "alert"}

VARIABLES
    queue,     \* copies of each message waiting at the broker
    held,      \* the unacknowledged message of each worker
    pc,        \* the step of each worker
    status,    \* report.status
    points,    \* how many times the rows of the report were stored
    verdict,   \* what detect() finds on the series of a name
    trend,     \* "none": analyze() never committed for this report;
               \* "empty": it stored nothing; "stored": it stored a TrendResult
    detected,  \* detect() committed for this report
    devs,      \* severities recorded as DeviationRecord rows
    alerted,   \* messages went out for a deviation of this report
    logged,    \* the notification task committed, with its log rows
    gaveUp,    \* <<task, report>> of tasks that ended without retry
    queued,    \* messages sent from outside the chain so far
    crashes,   \* workers lost so far
    excuses,   \* history: sends and faults after commit, per report
    unsent     \* history: reports whose detection was cut off, by a failure or
               \* a lost worker, between its commit and the next message

broker  == <<queue, held, pc>>
tables  == <<status, points, verdict, trend, detected, devs, logged>>
outside == <<alerted, queued, crashes>>
history == <<excuses, unsent>>
vars    == <<broker, tables, outside, gaveUp, history>>

Init ==
    /\ queue = [m \in Messages |-> 0]
    /\ held = [w \in Workers |-> NoMessage]
    /\ pc = [w \in Workers |-> "idle"]
    /\ status = [r \in Reports |-> "absent"]
    /\ points = [r \in Reports |-> 0]
    /\ verdict = [n \in Names |-> "quiet"]
    /\ trend = [r \in Reports |-> "none"]
    /\ detected = [r \in Reports |-> FALSE]
    /\ devs = [r \in Reports |-> {}]
    /\ alerted = [r \in Reports |-> FALSE]
    /\ logged = [r \in Reports |-> FALSE]
    /\ gaveUp = {}
    /\ queued = 0
    /\ crashes = 0
    /\ excuses = [r \in Reports |-> 0]
    /\ unsent = {}

-----------------------------------------------------------------------------
(* Helpers *)

Message(t, r) == [task |-> t, report |-> r, retries |-> 0]

\* celery_app.send_task, or the broker taking a message back.
Send(m) == queue' = [queue EXCEPT ![m] = @ + 1]

\* Stored points of the series a report belongs to (same user and name).
History(r) == {s \in Reports : NameOf[s] = NameOf[r] /\ points[s] > 0}

Running(w, t, s) == pc[w] = s /\ held[w].task = t

Goto(w, s) == pc' = [pc EXCEPT ![w] = s] /\ UNCHANGED held

\* The report of a worker that has recorded an alert but not sent it on.
CutOff(w) == {r \in Reports : Running(w, "deviation", "send") /\ held[w].report = r}

\* The exception handler of a task: parse_report first marks the report.
Handler(t) == IF t = "parse" THEN "mark" ELSE "retry"

-----------------------------------------------------------------------------
(* Messages from outside the chain *)

\* The mail poller commits a new row; its message is a later, separate step.
Ingest(r) ==
    /\ status[r] = "absent"
    /\ status' = [status EXCEPT ![r] = "received"]
    /\ UNCHANGED <<broker, points, verdict, trend, detected, devs, logged,
                   outside, gaveUp, history>>

\* The poller queues the rows it selected as received, a list that may be
\* stale by now; trigger_full_pipeline sends the same message.
QueueParse(r) ==
    /\ status[r] # "absent"
    /\ queued < MaxQueued
    /\ queued' = queued + 1
    /\ Send(Message("parse", r))
    /\ excuses' = [excuses EXCEPT ![r] = @ + 1]
    /\ UNCHANGED <<held, pc, tables, alerted, crashes, gaveUp, unsent>>

\* Mutant: reanalysis starts at the deviation stage, without a trend.
MutTriggerReanalysis(r) ==
    /\ status[r] # "absent"
    /\ queued < MaxQueued
    /\ queued' = queued + 1
    /\ Send(Message("deviation", r))
    /\ UNCHANGED <<held, pc, tables, alerted, crashes, gaveUp, history>>

\* trigger_reanalysis starts at the trend stage, whatever the status is.
TriggerReanalysis(r) ==
    /\ status[r] # "absent"
    /\ queued < MaxQueued
    /\ queued' = queued + 1
    /\ Send(Message("trend", r))
    /\ UNCHANGED <<held, pc, tables, alerted, crashes, gaveUp, history>>

\* delete_report of the dashboard: the row goes with everything that refers to
\* it (cascades), at any moment, also while a task of the report runs.
DeleteReport(r) ==
    /\ status[r] \notin NoRow
    /\ status' = [status EXCEPT ![r] = "deleted"]
    /\ points' = [points EXCEPT ![r] = 0]
    /\ \E v \in Verdicts : verdict' = [verdict EXCEPT ![NameOf[r]] = v]
    /\ trend' = [trend EXCEPT ![r] = "none"]
    /\ devs' = [devs EXCEPT ![r] = {}]
    /\ logged' = [logged EXCEPT ![r] = FALSE]
    /\ UNCHANGED <<broker, detected, outside, gaveUp, history>>

-----------------------------------------------------------------------------
(* The worker *)

Take(w, m) ==
    /\ pc[w] = "idle"
    /\ queue[m] > 0
    /\ queue' = [queue EXCEPT ![m] = @ - 1]
    /\ held' = [held EXCEPT ![w] = m]
    /\ pc' = [pc EXCEPT ![w] = "run"]
    /\ UNCHANGED <<tables, outside, gaveUp, history>>

\* The task returned, failed for good or was replaced by a retry.
Ack(w) ==
    /\ pc[w] = "done"
    /\ held' = [held EXCEPT ![w] = NoMessage]
    /\ pc' = [pc EXCEPT ![w] = "idle"]
    /\ UNCHANGED <<queue, tables, outside, gaveUp, history>>

\* Mutant: task_acks_late off, the message of a lost worker is lost too.
MutCrash(w) ==
    /\ pc[w] # "idle"
    /\ crashes < MaxCrashes
    /\ crashes' = crashes + 1
    /\ held' = [held EXCEPT ![w] = NoMessage]
    /\ pc' = [pc EXCEPT ![w] = "idle"]
    /\ UNCHANGED <<queue, tables, alerted, queued, gaveUp, history>>

\* The worker process is lost: its unacknowledged message is redelivered.
\* When it was past the parse commit, the next run stores the rows again.
Crash(w) ==
    /\ pc[w] # "idle"
    /\ crashes < MaxCrashes
    /\ crashes' = crashes + 1
    /\ Send(held[w])
    /\ held' = [held EXCEPT ![w] = NoMessage]
    /\ pc' = [pc EXCEPT ![w] = "idle"]
    /\ excuses' = IF held[w].task = "parse" /\ pc[w] \in {"send", "done"}
                  THEN [excuses EXCEPT ![held[w].report] = @ + 1]
                  ELSE excuses
    /\ unsent' = unsent \union CutOff(w)
    /\ UNCHANGED <<tables, alerted, queued, gaveUp>>

\* An exception in a step that can raise: database or broker unavailable.
Raise(w) ==
    /\ pc[w] \in {"run", "send", "log"}
    /\ Goto(w, Handler(held[w].task))
    /\ excuses' = IF held[w].task = "parse" /\ pc[w] = "send"
                  THEN [excuses EXCEPT ![held[w].report] = @ + 1]
                  ELSE excuses
    /\ unsent' = unsent \union CutOff(w)
    /\ UNCHANGED <<queue, tables, outside, gaveUp>>

\* Mutant: the task is sent again as new, its retries never counted.
MutRetry(w) ==
    /\ pc[w] = "retry"
    /\ Send(held[w])
    /\ Goto(w, "done")
    /\ UNCHANGED <<tables, outside, gaveUp, history>>

\* self.retry sends the message again, one retry older.
Retry(w) ==
    LET m == held[w] IN
    /\ pc[w] = "retry"
    /\ m.retries < MaxRetries[m.task]
    /\ Send([m EXCEPT !.retries = @ + 1])
    /\ Goto(w, "done")
    /\ UNCHANGED <<tables, outside, gaveUp, history>>

\* Retries are used up, self.retry cannot reach the broker, or marking the
\* report raised: the task fails and its message is not delivered again.
GiveUp(w) ==
    /\ pc[w] \in {"mark", "retry"}
    /\ gaveUp' = gaveUp \union {<<held[w].task, held[w].report>>}
    /\ Goto(w, "done")
    /\ UNCHANGED <<queue, tables, outside, history>>

\* "Report not found": these two tasks return an error result and stop.
NotFound(w) ==
    /\ pc[w] = "run"
    /\ held[w].task \in {"parse", "notify"}
    /\ status[held[w].report] = "deleted"
    /\ Goto(w, "done")
    /\ UNCHANGED <<queue, tables, outside, gaveUp, history>>

-----------------------------------------------------------------------------
(* parse_report *)

\* The file parsed: its values are stored and the status set in one commit.
\* A report deleted meanwhile makes the commit fail (foreign key), see Raise.
ParseStore(w) ==
    LET r == held[w].report IN
    /\ Running(w, "parse", "run")
    /\ status[r] # "deleted"
    /\ points' = [points EXCEPT ![r] = @ + 1]
    /\ status' = [status EXCEPT ![r] = "parsed"]
    /\ \E v \in Verdicts : verdict' = [verdict EXCEPT ![NameOf[r]] = v]
    /\ Goto(w, "send")
    /\ UNCHANGED <<queue, trend, detected, devs, logged, outside, gaveUp,
                   history>>

\* No file on disk, or a file the parser refuses: the task returns an error.
ParseReject(w) ==
    /\ Running(w, "parse", "run")
    /\ status[held[w].report] # "deleted"
    /\ status' = [status EXCEPT ![held[w].report] = "parse_failed"]
    /\ Goto(w, "done")
    /\ UNCHANGED <<queue, points, verdict, trend, detected, devs, logged,
                   outside, gaveUp, history>>

\* Mutant: the wrong task name, the report is parsed again.
MutSendTrend(w) ==
    /\ Running(w, "parse", "send")
    /\ Send(Message("parse", held[w].report))
    /\ Goto(w, "done")
    /\ UNCHANGED <<tables, outside, gaveUp, history>>

\* _queue_trend_task
SendTrend(w) ==
    /\ Running(w, "parse", "send")
    /\ Send(Message("trend", held[w].report))
    /\ Goto(w, "done")
    /\ UNCHANGED <<tables, outside, gaveUp, history>>

\* _mark_report_failed, a transaction of its own; it looks the row up again.
MarkFailed(w) ==
    LET r == held[w].report IN
    /\ pc[w] = "mark"
    /\ status' = [status EXCEPT ![r] = IF @ = "deleted" THEN @
                                       ELSE "parse_failed"]
    /\ Goto(w, "retry")
    /\ UNCHANGED <<queue, points, verdict, trend, detected, devs, logged,
                   outside, gaveUp, history>>

-----------------------------------------------------------------------------
(* analyze_trends *)

\* analyze() stores nothing for a deleted report, without history, or with
\* fewer than two values of every metric; the commit and the next message
\* follow all the same.
Analyze(w) ==
    LET r == held[w].report IN
    /\ Running(w, "trend", "run")
    /\ \/ /\ status[r] = "deleted"
          /\ UNCHANGED trend
       \/ /\ status[r] # "deleted"
          /\ trend' = [trend EXCEPT ![r] = IF @ = "none" THEN "empty" ELSE @]
       \/ /\ status[r] # "deleted"
          /\ History(r) # {}
          /\ trend' = [trend EXCEPT ![r] = "stored"]
    /\ Goto(w, "send")
    /\ UNCHANGED <<queue, status, points, verdict, detected, devs, logged,
                   outside, gaveUp, history>>

\* Mutant: the next stage is not queued.
MutSendDeviation(w) ==
    /\ Running(w, "trend", "send")
    /\ Goto(w, "done")
    /\ UNCHANGED <<queue, tables, outside, gaveUp, history>>

\* _queue_deviation_task
SendDeviation(w) ==
    /\ Running(w, "trend", "send")
    /\ Send(Message("deviation", held[w].report))
    /\ Goto(w, "done")
    /\ UNCHANGED <<tables, outside, gaveUp, history>>

-----------------------------------------------------------------------------
(* detect_deviations *)

\* Mutant: low severities are notified as well.
MutDetect(w) ==
    LET r == held[w].report
        v == IF status[r] = "deleted" \/ History(r) = {}
             THEN "quiet" ELSE verdict[NameOf[r]]
    IN
    /\ Running(w, "deviation", "run")
    /\ detected' = [detected EXCEPT ![r] = TRUE]
    /\ devs' = [devs EXCEPT ![r] = IF v = "quiet" THEN @ ELSE @ \union {v}]
    /\ Goto(w, IF v = "quiet" THEN "done" ELSE "send")
    /\ UNCHANGED <<queue, status, points, verdict, trend, logged, outside,
                   gaveUp, history>>

\* detect() records what it finds; only a medium or high one is sent on.
\* The WebSocket push is best effort and cannot raise.
Detect(w) ==
    LET r == held[w].report
        v == IF status[r] = "deleted" \/ History(r) = {}
             THEN "quiet" ELSE verdict[NameOf[r]]
    IN
    /\ Running(w, "deviation", "run")
    /\ detected' = [detected EXCEPT ![r] = TRUE]
    /\ devs' = [devs EXCEPT ![r] = IF v = "quiet" THEN @ ELSE @ \union {v}]
    /\ Goto(w, IF v = "alert" THEN "send" ELSE "done")
    /\ UNCHANGED <<queue, status, points, verdict, trend, logged, outside,
                   gaveUp, history>>

\* _queue_notification_task
SendNotification(w) ==
    /\ Running(w, "deviation", "send")
    /\ Send(Message("notify", held[w].report))
    /\ Goto(w, "done")
    /\ UNCHANGED <<tables, outside, gaveUp, history>>

-----------------------------------------------------------------------------
(* send_notifications *)

\* Messages leave for every verified number (none may be configured); the
\* log rows are only in the session, and refer to the deviation's row.
Notify(w) ==
    LET r == held[w].report IN
    /\ Running(w, "notify", "run")
    /\ status[r] # "deleted"
    /\ \E sent \in BOOLEAN : alerted' = [alerted EXCEPT ![r] = @ \/ sent]
    /\ Goto(w, "log")
    /\ UNCHANGED <<queue, tables, queued, crashes, gaveUp, history>>

\* Mutant: the log rows stay in the session and are never committed.
MutCommitLog(w) ==
    /\ Running(w, "notify", "log")
    /\ status[held[w].report] # "deleted"
    /\ Goto(w, "done")
    /\ UNCHANGED <<queue, tables, outside, gaveUp, history>>

CommitLog(w) ==
    /\ Running(w, "notify", "log")
    /\ status[held[w].report] # "deleted"
    /\ logged' = [logged EXCEPT ![held[w].report] = TRUE]
    /\ Goto(w, "done")
    /\ UNCHANGED <<queue, status, points, verdict, trend, detected, devs,
                   outside, gaveUp, history>>

-----------------------------------------------------------------------------

External(r) ==
    Ingest(r) \/ QueueParse(r) \/ TriggerReanalysis(r) \/ DeleteReport(r)

\* Every step a running worker takes on its own.
Work(w) ==
    \/ \E m \in Messages : Take(w, m)
    \/ Ack(w)
    \/ Raise(w)
    \/ Retry(w)
    \/ GiveUp(w)
    \/ NotFound(w)
    \/ ParseStore(w)
    \/ ParseReject(w)
    \/ SendTrend(w)
    \/ MarkFailed(w)
    \/ Analyze(w)
    \/ SendDeviation(w)
    \/ Detect(w)
    \/ SendNotification(w)
    \/ Notify(w)
    \/ CommitLog(w)

Next ==
    \/ \E r \in Reports : External(r)
    \/ \E w \in Workers : Work(w) \/ Crash(w)

Spec == Init /\ [][Next]_vars

\* Workers keep running; nothing forces mail, triggers or crashes to come.
FairSpec == Spec /\ \A w \in Workers : WF_vars(Work(w))

-----------------------------------------------------------------------------
(* Properties *)

TypeOK ==
    /\ queue \in [Messages -> Nat]
    /\ held \in [Workers -> Messages \union {NoMessage}]
    /\ pc \in [Workers -> Steps]
    /\ status \in [Reports -> Statuses]
    /\ points \in [Reports -> Nat]
    /\ verdict \in [Names -> Verdicts]
    /\ trend \in [Reports -> {"none", "empty", "stored"}]
    /\ detected \in [Reports -> BOOLEAN]
    /\ devs \in [Reports -> SUBSET {"low", "alert"}]
    /\ alerted \in [Reports -> BOOLEAN]
    /\ logged \in [Reports -> BOOLEAN]
    /\ gaveUp \subseteq Tasks \X Reports
    /\ queued \in Nat
    /\ crashes \in Nat
    /\ excuses \in [Reports -> Nat]
    /\ unsent \subseteq Reports
    /\ \A w \in Workers : pc[w] = "idle" <=> held[w] = NoMessage
    /\ \A w \in Workers : pc[w] = "mark" => held[w].task = "parse"

\* A task of this report will still run, or is running and not yet decided.
Live(t, r) ==
    \/ \E m \in Messages : m.task = t /\ m.report = r /\ queue[m] > 0
    \/ \E w \in Workers : /\ pc[w] \notin {"idle", "done"}
                          /\ held[w].task = t
                          /\ held[w].report = r

\* The series of r has stored points, or one of its reports was deleted.
HadHistory(r) ==
    \E s \in Reports : /\ NameOf[s] = NameOf[r]
                       /\ points[s] > 0 \/ status[s] = "deleted"

\* A report whose status says parsed is never forgotten between the parse
\* commit and the trend commit, whatever crashes and retries happen: a task
\* that will carry it on is at the broker or at a worker, or a task is known
\* to have failed for good (acks_late plus "send after commit").
NoStallAfterParse ==
    \A r \in Reports : status[r] = "parsed" =>
        \/ trend[r] # "none"
        \/ Live("parse", r) \/ Live("trend", r)
        \/ <<"parse", r>> \in gaveUp \/ <<"trend", r>> \in gaveUp

\* The same between the trend commit and the deviation commit.
NoStallAfterTrend ==
    \A r \in Reports : trend[r] # "none" =>
        \/ detected[r]
        \/ Live("trend", r) \/ Live("deviation", r)
        \/ <<"trend", r>> \in gaveUp \/ <<"deviation", r>> \in gaveUp

\* No report is left behind between two stages.
NothingStalls == NoStallAfterParse /\ NoStallAfterTrend

\* A medium or high deviation of r is recorded, or r is gone by now.
Alerting(r) == "alert" \in devs[r] \/ status[r] = "deleted"

Justified(m) ==
    /\ status[m.report] # "absent"
    /\ m.task = "deviation" => trend[m.report] # "none" \/ status[m.report] = "deleted"
    /\ m.task = "notify" => Alerting(m.report)

\* No stage's rows exist without those they are computed from, although the
\* stages run in different processes, may run twice, may be triggered out of
\* order by trigger_reanalysis and may find the report deleted: a trend or a
\* deviation needs stored points of its series (or a report of the series was
\* deleted since), an alert and a notification log need a recorded medium or
\* high deviation, and nothing refers to a report that is gone.
StageOrder ==
    \A r \in Reports :
        /\ status[r] = "parsed" => points[r] > 0
        /\ trend[r] = "stored" \/ devs[r] # {} => HadHistory(r)
        /\ alerted[r] => Alerting(r)
        /\ logged[r] => "alert" \in devs[r]
        /\ status[r] \in NoRow => /\ points[r] = 0
                                  /\ trend[r] = "none"
                                  /\ devs[r] = {}
                                  /\ ~logged[r]

\* A message exists only for a report that was ingested, a deviation task only
\* for one whose trend stage committed, and a notification only for one with a
\* recorded medium or high deviation (or deleted since).
\* StageOrder rests on it.
MessagesJustified ==
    \A m \in Messages :
        queue[m] > 0 \/ (\E w \in Workers : held[w] = m) => Justified(m)

\* A worker about to send the next message has committed the rows of its own
\* stage.  All three invariants above rest on it.
SendsAfterCommit ==
    \A w \in Workers : pc[w] = "send" =>
        LET r == held[w].report IN
        /\ held[w].task = "parse" => points[r] > 0 \/ status[r] = "deleted"
        /\ held[w].task = "trend" => trend[r] # "none" \/ status[r] = "deleted"
        /\ held[w].task = "deviation" => detected[r] /\ Alerting(r)

\* Messages of this report's parse task that have not reached their commit.
PendingParses(r) ==
    LET waiting == {m \in Messages : m.task = "parse" /\ m.report = r
                                     /\ queue[m] > 0}
        copies == UNION {{<<m, i>> : i \in 1..queue[m]} : m \in waiting}
        running == {w \in Workers : /\ pc[w] \in {"run", "mark", "retry"}
                                    /\ held[w].task = "parse"
                                    /\ held[w].report = r}
    IN Cardinality(copies) + Cardinality(running)

\* The rows of a report are stored more than once only for a reason: each
\* storing is paid for by a message from outside the chain, or by a crash or
\* broker failure that struck after the parse commit.  Failures before the
\* commit, however many, never duplicate data.
StoredOnlyForAReason ==
    \A r \in Reports : points[r] + PendingParses(r) <= excuses[r]

\* The pipeline comes to rest: retries are bounded, so no failing task keeps
\* the workers busy for ever, and no message is left lying.
ComesToRest ==
    <>[](/\ \A m \in Messages : queue[m] = 0
         /\ \A w \in Workers : pc[w] = "idle")

\* A parsed report is eventually analysed and checked for deviations unless
\* a task gives up for good or a later parse of it fails.
ParsedIsDetected ==
    \A r \in Reports : status[r] = "parsed" ~>
        \/ detected[r]
        \/ status[r] \in {"parse_failed", "deleted"}
        \/ \E t \in {"parse", "trend", "deviation"} : <<t, r>> \in gaveUp

\* A recorded medium or high deviation is announced, or the task that will do
\* so is about to be sent, waits or runs, or has failed for good.  The one way
\* out is a detection cut off between its commit and its message: when it runs
\* again and finds the series quiet by then, nobody is ever told.
AlertIsHandedOn ==
    \A r \in Reports : "alert" \in devs[r] =>
        \/ logged[r]
        \/ \E w \in Workers : r \in CutOff(w)
        \/ Live("notify", r) \/ <<"notify", r>> \in gaveUp
        \/ r \in unsent

-----------------------------------------------------------------------------
(* The abstract specification *)

Lifecycle == INSTANCE ReportLifecycle WITH
    stored <- {r \in Reports : points[r] > 0},
    alarm  <- {r \in Reports : "alert" \in devs[r]},
    due    <- [r \in Reports |-> {t \in Tasks : Live(t, r)}],
    failed <- gaveUp

\* Queues, workers, retries, redelivery and crashes implement the lifecycle:
\* every step of theirs is one step of a report or none at all.  In particular
\* a due task is never lost, deletion is final, and an alert follows its record.
ImplementsLifecycle == Lifecycle!Spec
=============================================================================
