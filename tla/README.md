# Formal models of the Multi-Cloud AIOps Platform

This directory holds TLA+ models of the repository, the TLC configurations that
check them on small instances, and proofs, checked by TLAPS, that the most
important invariants hold on instances of any size. Every definition is
translated from the source under `src/`; `PROJECT.json` names the lines of each
one ("map"), the runs with their properties, a seeded mistake for each property
("mutants"), the hazards of the code and the properties that cover them, and the
theorems.

Contents: 1 the system; 2 the modules; 3 the runs; 4 bounds; 5 fairness;
6 proofs; 7 what disagreed with the documents; 8 what is not modelled;
9 the plan.

## 1. The system

The repository contains two backends that share nothing but the tree.

**AIOps** (`backend/api`, `backend/security.py`, `backend/orchestrator`,
`backend/execution`, `backend/ai_layer`, `backend/monitoring`): a FastAPI server
that turns queries in natural language into operations on AWS, Azure and GCP.
It is one process and one event loop. Its database access (asyncpg) commits
every statement on its own, so two requests interleave at every `await`.

**ReportPulse** (`backend/app`): a FastAPI server, Celery workers, Celery beat
and an in-process scheduler. It takes reports from a mailbox or an upload,
parses them, analyses trends, detects deviations and alerts by WhatsApp. Its
database access (SQLAlchemy) is one transaction per request or task.

| component | state | operations | interacts with |
|---|---|---|---|
| Celery pipeline, `app/workers` | broker queue, rows of report, data_point, trend_result, deviation_record, notification_log | parse_report, analyze_trends, detect_deviations, send_notifications; retry, redelivery; trigger_reanalysis | each task sends the next one's message after its commit |
| mail polling, `workers/email_tasks.py`, `services/email_ingestion.py`, `app/scheduler.py` | `\Seen` flags of the mailbox, report rows | search, fetch, flag, insert, commit, queue | hands rows to the pipeline; Celery and scheduler share the mailbox |
| mailbox check and upload, `app/api/upload.py`, `services/outlook_graph.py` | read marks at Microsoft Graph, reports, data points | check-email, create_report, the scheduler's Graph poll | matcher, parser, the same mailbox as the scheduler |
| WhatsApp numbers and alerts, `api/phone_numbers.py`, `services/whatsapp_notifier.py` | phone_number, notification_log | add, remove, verify, send_with_retry, the log | called by send_notifications |
| ReportPulse accounts, `app/api/auth.py`, `app/api/admin.py` | table user, row locks, Redis counters | register, login, reset, create, assign, delete | get_current_user runs before every route |
| series, `services/trend_analyzer.py`, `services/deviation_detector.py`, `append_data` in `app/api/upload.py` | data points of one report name, trend, deviations, saved files | store, analyze, detect, append_data, delete_report | run in tasks and in requests on the same points |
| dashboard and live updates, `api/dashboard.py`, `api/websocket.py`, the React page and hook | live connections, timers, the chosen report, the token of the browser | select, load, connect, close, reconnect; reads, delete_report | deletes under running tasks; the page reads what the pipeline wrote |
| AIOps accounts, `api/routes/auth.py`, `api/routes/users.py`, middleware | users, token_blacklist, reset_tokens | login, logout, change, reset, create, purge | every other AIOps route |
| login limiter, `security.py` | login_attempts | is_locked, record_attempt, reset | the login route |
| queries, `api/routes/query.py`, `ai_layer`, `orchestrator` | registry, in-flight requests | parse, route, handle, answer | language model, providers |
| providers, `api/dependencies.py`, `execution/*` | EC2 instances | start, stop, create with a limit | EC2; placeholder clients |
| monitoring, `monitoring/*`, routes costs, status, recommendations | `_last_errors`, state of clouds | get_costs, get_resource_status, generate_recommendations | live clients of three clouds |
| knowledge base, AI summaries, the other pages, migration | files, rows, in-memory caches | see section 8 | |

The hard behaviours, and what makes each component correct:

* *Work handed from stage to stage.* Rows are committed and then a message is
  sent. A worker can be lost in between, the sending can raise, and a task can
  run twice. Correct means: no report is forgotten between two stages, no row
  exists without what it is computed from, and data is stored twice only where a
  crash or an outside trigger explains it.
* *Marks before commits.* Mail is marked as read before the rows are durable.
  Correct means: mail is lost only where a poll visibly failed, and pollers that
  overlap duplicate no more than they must.
* *Checks before writes.* The limiter, the limit of instances and the first
  registration read and then write, with no constraint behind them. Correct
  means: what an interleaving can exceed is bounded by the requests in progress.
  The limit and the uniqueness of phone numbers are checked in the same way, but
  behind the lock of the user's row. Correct means: they hold.
* *Claims that outlive their reasons.* Access tokens carry what a login once
  read; the blacklist is purged. Correct means: a revoked token is never accepted
  while it lives, full access is earned.
* *Locks.* Requests of ReportPulse lock their own user's row first and another
  row later. Correct means: nobody deletes the account of a request in progress, the
  last administrator goes by no other request than its own, and every request
  ends.
* *One series, many writers.* Tasks and requests store points of one series and
  judge its newest point, by dates that may lie before or after what is there.
  Correct means: once all is quiet the newest point has been compared with the
  others, an uploaded history by the first file that comes after it, and an
  alert has its record.
* *Events that come late.* The close event of a connection and the answer to a
  load arrive when the page has moved on. Correct means: connections do not
  multiply, the page is connected again, and shows what is chosen.
* *Partial failure.* Clients swallow, cut short or raise. Correct means: what is
  there is shown as it is, whatever happens elsewhere.

## 2. The modules

Each component has a module (`X.tla`) and a module that instantiates it for TLC
(`MCX.tla`). Its proofs are in `XProofs.tla`, or in a module for two components:
LimiterAndMonitoringProofs (LoginLimiter, Monitoring), TokensAndCloudQueryProofs
(AuthTokens, CloudQuery), DashboardProofs (LiveUpdates, SeriesAnalysis). These
modules extend both specifications, which is why those of Monitoring, CloudQuery
and LiveUpdates have names of their own (`MonitorSpec`, `QuerySpec`, `LiveSpec`,
and so on). ReportLifecycle is an abstract
specification: it has no run of its own, ReportPipeline implements it.
Variables keep the names of the code where there are such; variables marked *history* exist for the properties only and guard no action.

* **ReportPipeline** – the four Celery tasks from broker to log. `queue` holds
  messages not delivered, `held` the message of each worker until it is
  acknowledged (`task_acks_late`), `pc` the step of the task. The actions
  follow the tasks: `ParseStore`, `ParseReject`, `NotFound`, `Analyze`,
  `Detect`, `Notify` each run one transaction; `SendTrend`, `SendDeviation`,
  `SendNotification` queue the next task or raise; `Raise`, `MarkFailed`,
  `Retry`, `GiveUp` are the exception path with `max_retries`; `Crash` gives a
  held message back to the broker. `External` brings ingestion,
  `trigger_reanalysis` and `delete_report`. The numbers in a report are
  abstracted to the verdict of the detector on the series, which changes only
  when points of the series come or go.
* **ReportLifecycle** – what the pipeline promises about each report, without
  broker, workers, retries and crashes: which rows there are and which tasks are
  *due*. A due task ends only by handing the report on, by ending the chain, by
  finding the report gone, or by failing for all to see; a task falls due only
  when the rows it works on are there. `Lifecycle` in ReportPipeline is the
  refinement mapping: a task is due if a message for it waits, or a worker holds one
  and is not done with it.
* **SeriesAnalysis** – the points of one series with their values and times,
  written by Celery tasks (`Receive`, `Read`, `Store`, `Analyze`, `Judge`, three
  transactions), by requests that append (`Begin`, `Analyze`, `Judge`, `Commit`, one
  transaction) and by requests that upload (`Begin`, `Commit`: create_report neither
  analyses nor judges what it stores), with failure, rollback and deletion. The base
  report is an upload that was committed at the start, of any size and unjudged.
  `raw` remembers the uploads since the last judgement. `Visible` is what a session
  sees. The statistics are exact on integers: linear regression and moving
  average give a direction, the z-score gives a severity (its square is compared,
  so no root is taken). A value beside a constant history has an infinite score,
  which append_data cannot answer with (`Unanswered`). `Found` is how a task finds its file: by the name alone.
* **LiveUpdates** – one browser tab: `useWebSocket` with its three refs
  (`wsRef`, `timerRef`, `pingRef`), the sockets and timers that outlive them, the
  acceptance by `websocket_updates`, the token, and the loading of the chosen
  report on the dashboard page. A mount is a new instance of the hook. Sockets
  are numbered slots that are used again once they are closed and their timer is
  over; the lowest free one is taken, which loses nothing, for slots differ in
  nothing but their number.
* **MailIngestion** – `poll_mailbox` (IMAP), run by Celery beat and by the
  scheduler: `Search`, `Fetch`, `Flag`, `Process`, `Commit`, `Select`, `Queue`,
  with the failures of each step and a crash. `rows` contains uncommitted rows in
  state `pending`. Celery selects every received row for the parser, not only
  those of its own poll; the scheduler selects none. The parser moves a row on
  (`Parse`), or fails without a trace when the marking of the row as failed raises as
  well (`ParseUnmarked`).
* **OutlookCheck** – the Graph branch of check-email, the scheduler's Graph
  poll and uploads, on one mailbox. Steps end at the awaits. `made` and `done`
  are the session of a check, which `Rollback` drops. A name with two reports
  makes the matcher raise (`Ambiguous`), while the scheduler never matches and
  always creates a report named after the file.
* **Notifications** – adding and removing numbers, statement by statement
  behind the lock which `get_current_user` takes (`Unlocked`), and a notification
  task with `send_with_retry` attempt by attempt. The numbers are rows, so that two
  rows of one number could be there. WhatsApp may accept the text, refuse it and
  accept the template, refuse both, or accept either while the answer is lost
  (`AcceptUnheard`), which the code takes for a failed attempt. `send_with_retry`
  counts attempts: with `MAX_RETRIES = 3` it sends at most three times. A task
  without numbers writes no log row. An accepted template counts as delivery, as in
  the code.
* **Accounts** – accounts of ReportPulse; a request is one transaction.
  `get_current_user` updates `last_active` before every route, and this takes
  the lock of the row (PostgreSQL) or of the file (SQLite): `LockOf` maps rows to
  locks, and the theorems hold for every such map. A key in a path is a text
  (`Spellings`): `delete_user` compares it with `str(admin.id)`, while the row is
  found by the UUID it means. Waiting requests may
  deadlock, which the database resolves (`Deadlock`), and may fail at any time
  (`Fail`).
* **AuthTokens** – accounts and tokens of AIOps. A request presents a token:
  `Reject` or `Accept` is the middleware (decode, then blacklist lookup);
  `Logout`, `ChangeVerify`/`ChangeUpdate`, `CreateCheck`/`CreateInsert`, `Act`
  are the routes cut at their statements; `Cleanup` purges the blacklist. The
  clock counts half seconds, because `jose` cuts `exp` and the present to whole
  seconds (`Second`). For that reason a logged-out token is promised to be
  refused only while `exp >= now`. Times of the database are taken as UTC.
* **LoginLimiter** – `is_locked` and `record_attempt` with the reading of the
  user between them.
* **CloudQuery** – `POST /api/query` from parser to answer: what the parser
  may return or raise, the registry, the handlers. `Count` and `Run` are the two
  EC2 calls of `_aws_create_instance`; instances in state `stopping` are not
  counted. A start or a stop reaches a placeholder client whose `RuntimeError`
  only the Azure provider catches (`AwsPower`, `AzurePower`, `GcpPower`).
* **Monitoring** – `get_costs` and `get_resource_status` with concurrent
  fetches, and the routes and handlers that call them. Azure and GCP return what
  they have when a listing breaks off, AWS raises. States that a map does not
  know (GCP `STOPPING`, Azure `VM stopping`) are shown as terminated, and the
  model says so. The calendar is there because the default period runs from the
  first of the month to today, and recommendations ask for 24 hours.

How they compose: `ReportPipeline` implements `ReportLifecycle`, which a
reader of the dashboard may rely on; `SeriesAnalysis` says what the stages of
ReportPipeline compute, which ReportPipeline leaves open, and leaves out the
retries that ReportPipeline has; `ReportPipeline.Ingest` is what `MailIngestion.Commit` and
`Queue` produce, and `MailIngestion.Parse` is what the pipeline does with a row;
`CloudQuery.Read` is the outcome of `Monitoring`'s check_status and get_costs;
`OutlookCheck` relies on `Accounts` for requests of one administrator running
one after the other; the login of `AuthTokens` is behind `LoginLimiter`. The
interfaces are narrow (a row moves on, an answer comes back), and each module
leaves the other side as free as its neighbour makes it.

## 3. The runs

| run | asks | distinct states |
|---|---|---|
| pipeline_retry | Is a report forgotten (`NothingStalls`), a stage skipped (`StageOrder`), data stored twice without a reason (`StoredOnlyForAReason`), a recorded alert dropped (`AlertIsHandedOn`)? Does the pipeline come to rest (`ComesToRest`), and is a parsed report detected (`ParsedIsDetected`)? Is every step one of the abstract lifecycle (`ImplementsLifecycle`)? | 0.8 M |
| series | Is the newest point judged against all others (`VerdictIsCurrent`), do usual values alert (`NothingUsualAlerts`), is a rising series seen rising (`RisingIsSeen`), does a report hold its own file's data (`OwnData`), do alerts have records (`AlertHasRecord`)? | 0.4 M |
| live_updates | Do connections and timers multiply (`LinesBounded`), is the held connection kept alive (`HeldIsKeptAlive`), is the chosen report shown (`ShownIsSelected`), is the page connected again (`PageReconnects`)? | 0.7 M |
| mail_ingest | Duplicates of overlapping polls (`RowsBounded`), queueing of uncommitted rows (`QueuedIsCommitted`), loss without a failure (`LostOnlyByFailure`), rows nobody hands on (`WaitingIsHandedOn`), mail never written (`MailIsWritten`) | 0.26 M |
| outlook | Copies per check and failed mark (`CopiesBounded`), loss (`LostOnlyByFailure`), mail that stays unread because a name is ambiguous (`MailIsRead`) | 0.4 M |
| notify | Limit and uniqueness of the phone numbers (`BookKept`), truth of the log (`SentWasAccepted`), repeated alerts (`RepeatedOnlyForAReason`), numbers never served (`ConfiguredIsServed`) | 1.3 M |
| accounts | The caller's row (`ActorRemains`), how the last administrator can go (`LastAdminGoesByItself`), the race of first registrations (`FirstsBounded`), deadlock (`RequestsEnd`) | 0.21 M |
| auth_tokens | Revocation against purge and clock (`RevokedRefused`), stale claims (`FullAccessIsEarned`) | 3.9 M |
| login_limiter | Failures beyond the limit under concurrent logins (`OverrunBounded`) | 1.5 M |
| cloud_query | Instances beyond the limit under concurrent queries, stops and failures (`OverrunBounded`) | 0.4 M |
| monitoring | Instances shown wrongly or not at all (`SteadyIsShown`), recommendations refused although there is data (`RefusedForAReason`), errors that pile up in the shared list (`ErrorsBounded`) | 5.8 M |
| auth_reset | a statement of a document, violated; see section 7 | |

The type invariant of every module is proved (section 6), so the runs spend
their time on the other properties. `CHECK_DEADLOCK FALSE`
stands where the system may really come to rest: all messages handled, all
mail read, all rows used.

## 4. Bounds

Bounds are CONSTANTS and appear in the guard of the action they bound.

* pipeline_retry: one report, two workers, one retry per task, one lost worker,
  one message from outside in all, so that TLC never sees an outside trigger
  beside the parse task of the same report; the theorems have no such bound. Two
  workers are what it takes for a
  redelivered message to run beside its successor; one crash and one retry are
  enough for each to hit every step, and both to hit the same task. The
  verdict of the detector on one report may change when its points are stored
  again.
* series: two reports for Celery, one request that appends to the base report or
  to the uploaded one, one request that uploads a history, of which any two come
  in; a base of one, four (constant) or five points (rising, and unjudged), files
  with one undated row or with an old and a future date, two failures, rollbacks or
  deletions. With the base these are three files in every order and overlap of two
  of them; the theorems have any number. From one point the series passes two and
  three points, where the trend algorithm changes; from four it passes five, where
  verdicts set in; with five a verdict is due that nothing has made. The first
  report has the same file name as the base. All series stay below the twelve points
  from which on the trend is seasonal.
* live_updates: two choices, two mounts, three sockets or timers at a time, three
  runs of the hook's effect, one load per choice under way, one lost connection.
  Three runs are what it takes for an old close event to meet the interval of a
  newer connection and for a third to be opened; more than three lines at a time
  would break `LinesBounded` and cannot be.
* mail_ingest: two mails, four rows, one Celery poll, one scheduler, one retry,
  one fault. Four rows are two per mail, which is what two pollers can write.
* outlook: two mails for one name, one request, one scheduler, one fault (a lost
  check or a failed mark), one upload. Two mails of one name are what a report
  being created and then appended to needs; the upload makes the name ambiguous.
  A mail that makes every check fail would use up any number of faults, so it is
  outside these bounds: `MailIsRead` is about faults that end.
* notify: three numbers, two rows of each, a limit of two, two requests, one task,
  one deviation, two attempts, one retry, one crash, one lost answer. Without the
  lock two requests would exceed the limit and store a number twice.
* accounts: three rows, two requests, a lock per row. Two requests suffice for
  each to delete the other's account and for a deadlock; the third row is the one
  created or assigned.
* auth_tokens: an administrator and a user to be created, two tokens, two
  requests, lifetimes of one second, a clock of two seconds in halves; the purge
  can run in every one of them.
* login_limiter: two users, three requests, a limit of two, a window of two, a
  clock of three: the window slides and the limit is passed by two.
* cloud_query: three clouds, two requests, three instances, a limit of one, one
  stop by others.
* monitoring: two requests, an instance in AWS and one in Azure, no GCP client,
  one change, one failed call, a month of two days.

Symmetry of requests, users or workers is used only in runs without liveness
properties.

## 5. Fairness

* ReportPipeline: weak fairness of what each worker does with its message.
  Celery workers run until they are stopped; nothing forces mail, triggers,
  crashes or failures to come.
* MailIngestion: beat and the scheduler start polls at intervals (`Start`), a
  poll that runs goes on (`Work`), and the pipeline takes rows (`Parse`).
* OutlookCheck: a check goes on, and the scheduler polls. Nothing makes an
  administrator press the button.
* Notifications: the worker goes on with its task. Requests to add a number
  need not go on.
* LiveUpdates: the server accepts or refuses a connection, socket events that are
  due are delivered, and timers fire, each socket for itself. Nothing makes a user
  choose, load or leave.
* SeriesAnalysis, AuthTokens, LoginLimiter, CloudQuery and Monitoring have safety
  properties only and assume no fairness.
* Accounts: strong fairness of each request. A lock is requested and released
  over and over, so that weak fairness would let a request wait for ever; the
  database queues those that wait (PostgreSQL) or ends their wait (SQLite).

## 6. Proofs

Each theorem is proved for every value of the constants that satisfies the
ASSUME of the module; finiteness of the sets of actors is assumed where the
property counts them. TLC evaluates the assumptions in every run.

An invariant is rarely inductive as it stands. The argument is always the same:
a strengthening `IInv`, its truth at the start, its preservation by every
action (one step of the proof per action), and the conclusion.

* **ReportPipelineProofs**: `IInv` adds to the properties `SendsAfterCommit` (a
  worker about to send has committed the rows of its stage), without which a
  message could be sent for nothing, and `MessagesJustified` (a message names a
  report that was ingested, a notification one with a recorded deviation).
  Theorems: `TypeCorrect`, `NeverStalls`, `StagesInOrder`, `AlertsHandedOn`,
  `StoringHasAReason`. The heart of the first is lemma `LiveStep`: a live task stays live, unless its own worker
  commits, hands on or gives up.
  `PipelineImplementsLifecycle` proves the refinement: under `IInv` every action
  maps to one abstract action or to none. What goes on while a task stays due is
  lemma `GoesOn`, the end of a task `Ends`, a trigger `Asks`, a redelivery after a
  lost worker `Redelivers`, and the sending of the next message `SendsOn`;
  `WorkImplements` names the abstract step of each action of a worker. `IInv` is
  needed there because the abstract `HandOn` and `FallDue` demand the rows of
  the stage before, which only `StageOrder` and `SendsAfterCommit` provide.
  `StoringHasAReason` is a balance: stored points, parse messages that wait and
  parse tasks that have not come to their commit are together no more than the
  excuses (`Paid`). Messages are a bag; they are counted as a set of numbered
  copies (`Copies`), so that sending and taking one adds or removes an element.
* **MailIngestionProofs**: adds `RowsAreSeen` (a row exists only for mail that
  is flagged), `HandsEmpty` (a poll holds mail only between search and process)
  and `Batches` (which rows a poll may hold). Theorems: `DuplicatesBounded`,
  `QueuesCommitted`, `NothingLostUnnoticed`, `WaitingAlwaysHandedOn`. The bound
  counts rows and holders together: a step that adds a row takes a holder away.
* **OutlookCheckProofs**: adds `CheckOK`, `AbsentOK`, `Fresh` and `Settled`;
  the bound again counts copies and holders, and a failed mark pays for one
  more. Theorems: `CopiesStayBounded`, `NothingLostUnnoticed`, the latter for
  unknown senders too, which the run leaves out.
* **NotificationsProofs**: for the numbers, `OneAtATime` (one request of the user
  is between its checks and its commit) and `Checked` (what it has checked still
  holds); for the alerts, `RunOK` (the shape of a task's run), `Drafted` (a draft
  that says sent belongs to an accepted alert), `Ahead` (which alerts a run has
  not come to yet) and `Heard` (an alert still ahead has been accepted at most once
  per earlier beginning of its task and lost answer). Theorems: `BookAlwaysKept`,
  `SentIsTrue`, `NoNeedlessRepeat`.
* **AccountsProofs**: adds `HoldsOwn` and `HoldsTarget` (who holds which lock at
  which step) and `Named`. That the last administrator goes by its own request only
  follows from the lock which the update of `last_active` takes: nobody can delete
  the row of a request that is about to delete another, so whoever deletes another
  account remains. Theorems: `ActorAlwaysRemains`, `LastAdminAlwaysGoesByItself`,
  `FirstsStayBounded`, for row locks, a file lock, or anything between.
* **TokensAndCloudQueryProofs**. Of AuthTokens: `Typed` with the claims of a token
  fixed once issued, `Revocation` (a logged-out token is on the list, or its life
  is over), and the access invariant. Assumption: `TokenTTL <= BlacklistTTL`, as in
  the code, where both are an hour. Theorems: `TokensTypeCorrect`, `RevokedStaysOut`,
  `FullAccessAlwaysEarned`. Of CloudQuery: `StopsCounted` (instances in state
  stopping are at most the stops so far). Theorems: `QueryTypeCorrect`,
  `OverrunStaysBounded`.
* **LimiterAndMonitoringProofs**. Of LoginLimiter: failures in the window plus
  requests past the check are bounded. Theorems: `LimiterTypeCorrect`,
  `OverrunStaysBounded`. Of Monitoring: the errors of a cloud are at most the
  requests that are not fetching (`ErrorsPaid`), since a request empties the list
  when it begins and adds one error per cloud at most when its fetches have ended; `MonitorInv` says for each
  request that an instance which did not change and whose cloud has answered is
  listed as it is (`SteadyListed`), that a request which awaits CPU metrics still
  awaits AWS (`CpuAwaited`), without which an AWS list could be taken for final too
  early, and who began on the first of the month (`FirstSeen`). Theorems:
  `MonitorTypeCorrect`, `ErrorsAreBounded`, `SteadyAreShown`, `RefusalsHaveReasons`.
* **DashboardProofs**. Of LiveUpdates: `LiveInv` adds to the properties `OwnLines`
  (the refs of an instance of the hook hold connections of that instance; a ping
  ref holds one that has been open), `PageHasToken`, and `Pursued` (as long as
  loads of two choices were never under way together, what is under way is a load
  of the choice). Theorems: `LiveTypeCorrect`, `LinesStayBounded`,
  `HeldAreKeptAlive`, `ChosenIsShown`.
  Of SeriesAnalysis, each property has its own invariant. `OwnDataIsKept`: what a
  task's file holds is among the points from the moment it has parsed (`OwnRows`).
  `AlertsHaveRecords`: a file has one deviation at most, from the time it judges
  (`OneDeviation`). `VerdictStaysCurrent`: a judgement is about the points one
  transaction sees, while others commit, so `Judgements` speaks of the committed
  points, up to tasks that are still to judge (`Owing`) and uploads nothing has been
  judged since (`raw`), and of every request that has judged but not committed,
  together with what would then be committed, uploads as well.
  `UsualNeverAlerts` and `RisingIsRecorded`: the severities and directions on
  record are those of the points they were computed from (`Computed`), and
  arithmetic does the rest. If k of n values equal the judged one, only n - k
  differ from it, and by the inequality of Cauchy and Schwarz the mean is too near
  for a severe score unless k is below a sixth of n (`UsualIsNear`, `FarMeansFew`).
  In a series that rises from point to point, the last moving average is over
  greater values than the first (`RisingIncreases`). Further theorems:
  `SeriesTypeCorrect`, `StepsAreKept`.

The sums in SeriesAnalysis are folds over finite sets, and the library's induction
theorems cannot be used here since they take an operator as a parameter. The section
`Sums` goes without them: if a statement failed for some subset of the points, the
set of such subsets would have a smallest element (`SmallestSubset`, from the
well-foundedness of inclusion), and the subset with one point less would do. In this
way a fold is a sum (`FoldIsSum`), which adds up as sums do, with squares as
well (`ValuesSum`, `SquaresSum`). The two theorems hold for the statistics the
model has; the seasonal trend from twelve points on is not among them.

`VerdictIsCurrent` cannot be stated without `raw`: create_report stores a history of
any size without having it judged, so a base of five points rests with its newest
one unjudged until another file of the series comes. No assumption on the size of
uploads is made.

Only model-checked: the liveness properties (`ComesToRest`, `ParsedIsDetected`,
`MailIsWritten`, `MailIsRead`, `ConfiguredIsServed`, `RequestsEnd`,
`PageReconnects`), since TLAPS has no reasoning about fairness and
ENABLED here, and `ResetHonoured`, which the code violates. Every other property of
the runs is a theorem.

## 7. Where code and documents disagree

One run checks what a document says and shows how the code breaks it:

* `auth_reset`: every valid reset token raises a TypeError, since an aware and a
  naive time are compared (auth-rbac-ui-redesign 3.2).

The models contain further differences that no run of their own states, because
the code is followed and the document is only quoted here. (EM stands for
`.kiro/specs/email-report-analysis`.)

* A deviation is committed, the queueing of its notification raises, and the retry
  detects nothing because the series has changed meanwhile: nobody is told and no
  task has failed (EM 5.1). This is the exception `unsent` in `AlertIsHandedOn`.
* Mail is flagged as read before its report is committed, so a failure in between
  loses it (EM 1.1): the exception in `LostOnlyByFailure` of both mailboxes.
* Nothing is ever pushed to a page (EM 7.4). The broadcasts of `websocket.py` are
  called in a Celery worker only, and its connection manager has no connections.
  The page is up to date because it loads, not because it is connected.
* A report is parsed from the first file that matches `*_<original filename>`
  (`parse_tasks.py:89`), although each file is stored under a name of its own
  (`email_ingestion.py:313`, "Generate unique filename to avoid collisions"). Files
  are never removed, and the reports of a series often carry the same file name,
  so a report can be parsed from an older one's file, also of a deleted report:
  `OwnData` promises the own data only while file names differ.
* A verdict takes four earlier points and the one judged, while EM 4.6 wants five
  historical points. A trend over exactly three points is always stable, as their
  moving average is a single value.
* Only the newest point of a series is judged, once per report. Rows of one
  Celery report get one and the same time (dates in it are ignored), so which of
  them is the newest is up to the database; the other rows are never judged. A row
  that a request dates in the future stays the judged point until others come with a later date.
* A value that differs from a constant history has an infinite score
  (`deviation_detector.py:56`). The answer of append_data contains it, JSON does
  not: FastAPI 0.115 writes the answer before the dependency `get_db` commits, so
  the error rolls everything back after the alert went out, and such a value can
  never be appended (EM 4.4). check-email answers with counts and is not affected;
  GET deviations fails for a report that has such a record.
* "Delete a user (admin only). Cannot delete yourself." (`admin.py:249`): the check
  compares the text of the path with `str(admin.id)`, and `GUID.process_bind_param`
  turns other spellings (upper case, no hyphens) into the same UUID. So an
  administrator can delete its own account, the last one too; nobody is then left to
  create users, and with an empty table registration is open again. `Select` in
  Accounts follows the code, and `LastAdminGoesByItself` says that this is the only
  way.
* A WhatsApp message that was accepted and whose answer is lost is sent again by
  `send_with_retry`, up to three times (EM 5.3 speaks of messages that fail to send):
  `RepeatedOnlyForAReason` counts lost answers among the reasons.
* When `_mark_report_failed` raises as well, `parse_report` ends before
  `self.retry` (`parse_tasks.py:64`), its message is acknowledged, and a received
  row waits for the next batch or a trigger.
* A history that create_report stores is not analysed before another file of its
  series comes, however many points it has.
* The alerts of append_data and check-email go out before the request commits, and
  no row of notification_log is written for them (EM 5.7).
* Numbers are stored as verified at once (EM 8.1 and 8.4 want a code first; the
  comment in `phone_numbers.py:137` says it is on purpose). `send_with_retry`
  makes three attempts and never waits 20 seconds; a task without numbers logs
  nothing (EM 5.7); the template counts as an alert (EM 5.2).
* A start or a stop on AWS never reaches EC2 because nothing replaces the
  placeholder client (multi-cloud-aiops-platform 4.1); the errors of providers are
  kept, mixed with those of operations that overlap, but no route returns them
  (8.5).

## 8. What is not modelled, and why

* The seasonal trend (from twelve points on), rates of change, the quartile
  distance and the forecast: floats that are stored or returned and decide
  nothing else. Values that are not numbers are left out as well.
* Texts: patterns of the query parser, report formats, messages, prompts. What
  decides the control flow remains as a choice among the outcomes.
* AI summaries, chat, knowledge base and providers of language models: prompts
  and answers of external services, no state beyond caches.
* The Redis lockout, the age of sessions, groups and ingestion rules of
  ReportPulse; documents of the knowledge base; the IMAP branch of check-email.
  All of these are in the plan.
* The iteration of a broadcast over the live connections: it is never called
  where there are any.
* Alembic migration and `backend/main.py`: declarations and wiring.
* The AIOps front end and the pages of ReportPulse other than the dashboard: forms
  and views over the API.
* In AuthTokens, passwords (any login of an existing account may succeed) and
  so the lost update of two password changes; users are never deleted by AIOps.
  In OutlookCheck, the limit of twenty mails per listing. In SeriesAnalysis,
  retries and repeated rows, which ReportPipeline has. In CloudQuery, clients
  that only tests inject.

## 9. The plan

The order is that of what matters most in the system. Done: the pipeline and its
abstract lifecycle with the refinement, the series with trend and verdict, mail
ingestion, login limiter, tokens, cloud queries, notifications, accounts, mailbox
check, monitoring, live updates, and a proof of every property that is not a
liveness property. Next, in order:

1. What liveness rests on, as safety theorems: a measure of the work of a task
   that no step but a failure or a trigger increases (`ComesToRest`,
   `ParsedIsDetected`), who may wait for whom in Accounts (`RequestsEnd`), and which
   timer or event will bring a page back (`PageReconnects`).
2. The Redis lockout of ReportPulse (INCR and EXPIRE are two commands) and the
   thirty minutes of inactivity, beside Accounts.
3. The rules of the report matcher as operators, compared with a reference
   definition over bounded inputs.
4. Documents of the knowledge base: file, then row.
5. The IMAP branch of check-email, as a variant of OutlookCheck.
