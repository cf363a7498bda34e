---------------------------- MODULE SeriesAnalysis ----------------------------
(***************************************************************************)
(* The points of one series (one user, one report name, one metric), and   *)
(* what analyze() and detect() make of them while files come in on three   *)
(* ways: reports that Celery parses, stores and judges in three            *)
(* transactions; requests (append_data, check-email) that do the same in   *)
(* one and commit at the end; and requests of create_report, which store a *)
(* history in a report of its own and have nothing judged.  Celery stamps  *)
(* every row with the time of its parsing; a request takes the date of a   *)
(* row when there is one, so that what is newest need not be what came     *)
(* last.                                                                   *)
(*                                                                         *)
(* The statistics are exact: values are integers, and a z-score is         *)
(* compared by its square.  Series have fewer than the 12 points from      *)
(* which on the trend is seasonal.  Retries and repeated rows are the      *)
(* subject of ReportPipeline; here a task fails at most for good.          *)
(***************************************************************************)
EXTENDS Naturals, Integers, Sequences, FiniteSetsExt

CONSTANTS
    Tasks,        \* reports for Celery to parse
    Requests,     \* requests that append or create, one file each
    Appends,      \* those of append_data
    Uploads,      \* those of create_report; the others are of check-email
    Base,         \* the report there is from the start, made by create_report
    Baselines,    \* what it may hold: rows with their dates
    Contents,     \* what a file may hold: rows, without a date if it is 0
    Targets,      \* reports that appended files and mail may go to
    Matches,      \* the files whose stored name fits the name of a report
    Start,        \* the time at which it begins
    MaxTime,      \* bound on time
    MaxFaults     \* bound on failed tasks, rollbacks and deletions

Files == Tasks \union Requests \union {Base}

RowType == [at : 0..MaxTime, value : Int]

\* MIN_HISTORICAL_POINTS, of which the judged point is one.
MinPoints == 5

ASSUME SeriesAssumption ==
    /\ Targets \subseteq Files
    /\ Appends \subseteq Requests /\ Uploads \subseteq Requests \ Appends
    /\ Base \notin Tasks \union Requests /\ Tasks \intersect Requests = {}
    /\ Matches \in [Tasks -> SUBSET Files] /\ \A f \in Tasks : f \in Matches[f]
    /\ Baselines \subseteq Seq(RowType) /\ Contents \subseteq Seq(RowType)
    /\ MaxTime \in Nat /\ Start \in 0..MaxTime /\ MaxFaults \in Nat

VARIABLES
    disk,       \* what each saved file holds; <<>> before it is saved
    step,       \* how far each file has got
    home,       \* the report a file's points belong to
    points,     \* rows of data_point, also those in an open session
    trend,      \* the last trend_result computed, with data_points_used
    records,    \* rows of deviation_record
    alerts,     \* the records a request has sent alerts about
    now,
    faults,
    judged,     \* history: points judged, their severity and the points seen
    blind,      \* history: files whose transactions did not see each other
    cut,        \* history: points deleted
    raw         \* history: files of create_report, nothing judged since

files == <<disk, step, home>>
history == <<judged, blind, cut, raw>>
vars == <<files, points, trend, records, alerts, now, faults, history>>

Point(f, i, row, t) == [file |-> f, row |-> i, time |-> t, value |-> row.value]

\* The rows of content c as _do_parse stores them: all at the time of now.
Stamped(f, c, t) == {Point(f, i, c[i], t) : i \in DOMAIN c}

\* _store_data_points: at the date of the row, or now without one.
Dated(f, c, t) ==
    {Point(f, i, c[i], IF c[i].at = 0 THEN t ELSE c[i].at) : i \in DOMAIN c}

Init ==
    /\ \E c \in Baselines :
         /\ disk = [f \in Files |-> IF f = Base THEN c ELSE <<>>]
         /\ points = Dated(Base, c, Start)
    /\ step = [f \in Files |-> IF f = Base THEN "done" ELSE "none"]
    /\ home = [f \in Files |-> f]
    /\ trend = [direction |-> "stable", used |-> {}]
    /\ records = {}
    /\ alerts = {}
    /\ now = Start
    /\ faults = 0
    /\ judged = {}
    /\ blind = {}
    /\ cut = {}
    /\ raw = {Base}

-----------------------------------------------------------------------------
(* The statistics *)

Value(p) == p.value
Square(p) == p.value * p.value

Newest(S) == {p \in S : \A q \in S : q.time <= p.time}

\* The first k points of S, in any order the database may return ties in.
Firsts(S, k) ==
    {F \in kSubset(k, S) : \A p \in F, q \in S \ F : p.time <= q.time}

\* Mutant: the window is as long as the series allows, up to twelve.
MutWindow(n) == n

\* The two points of linear_regression, or DEFAULT_MOVING_AVG_WINDOW.
Window(n) == IF n = 2 THEN 1 ELSE 3

\* linear_regression for two points, moving_average for three and more: the
\* last window against the first, which for three points are the same.
Directions(S) ==
    LET n == Cardinality(S)
        k == Window(n)
        Change(w) == MapThenSumSet(Value, S \ w[2]) - MapThenSumSet(Value, w[1])
    IN  {IF Change(w) = 0 THEN "stable"
         ELSE IF Change(w) > 0 THEN "increasing" ELSE "decreasing" :
         w \in {FC \in Firsts(S, k) \X Firsts(S, n - k) :
                  FC[1] \subseteq FC[2] \/ FC[2] \subseteq FC[1]}}

\* The variance of H, times n * (n - 1)
Spread(H) ==
    LET S == MapThenSumSet(Value, H)
    IN  Cardinality(H) * MapThenSumSet(Square, H) - S * S

\* Mutant: any value is an infinite deviation from a constant history.
MutSeverity(v, H) ==
    LET n == Cardinality(H)
        S == MapThenSumSet(Value, H)
        D == Spread(H)
        N == (n * v - S) * (n * v - S) * (n - 1)
    IN  IF D = 0 THEN "high"
        ELSE IF 4 * N < 16 * n * D THEN "none"
        ELSE IF 4 * N < 25 * n * D THEN "low"
        ELSE IF 4 * N < 49 * n * D THEN "medium" ELSE "high"

\* classify_severity of compute_zscore: the limits are 2, 2.5 and 3.5 sample
\* standard deviations, and the square of the score is N / (n * D).
Severity(v, H) ==
    LET n == Cardinality(H)
        S == MapThenSumSet(Value, H)
        D == Spread(H)
        N == (n * v - S) * (n * v - S) * (n - 1)
    IN  IF D = 0 THEN IF n * v = S THEN "none" ELSE "high"
        ELSE IF 4 * N < 16 * n * D THEN "none"
        ELSE IF 4 * N < 25 * n * D THEN "low"
        ELSE IF 4 * N < 49 * n * D THEN "medium" ELSE "high"

-----------------------------------------------------------------------------
(* What a transaction sees and does *)

\* Requests that have stored their points and not yet committed
Open == {f \in Requests : step[f] \in {"stored", "analyzed", "judged"}}

Visible(f) ==
    {p \in points : p.file = f \/ ~ (p.file \in Open \/ step[p.file] = "read")}

\* What commits while a request is open is not seen by it, nor the other way.
Crossed(f) == IF Open \ {f} = {} THEN blind ELSE blind \union Open \union {f}

\* analyze() for the report of f
Analyze(f) ==
    LET V == Visible(f) IN
    /\ step[f] = "stored"
    /\ step' = [step EXCEPT ![f] = "analyzed"]
    /\ IF Cardinality(V) < 2 THEN UNCHANGED trend
       ELSE \E d \in Directions(V) : trend' = [direction |-> d, used |-> V]
    /\ UNCHANGED <<disk, home, points, records, alerts, now, faults,
                   history>>

\* Mutant: only a point of the own file is judged.
MutJudged(f) == {p \in Newest(Visible(f)) : p.file = f}

\* The latest point of the whole series, whoever brought it.
Judged(f) == Newest(Visible(f))

\* detect() for the report of f, and in a request the alerts, which go out
\* before it commits.
Judge(f) ==
    LET V == Visible(f) IN
    /\ step[f] = "analyzed"
    /\ step' = [step EXCEPT ![f] = IF f \in Requests THEN "judged" ELSE "done"]
    /\ IF Cardinality(V) < MinPoints \/ Judged(f) = {}
       THEN UNCHANGED <<judged, records, alerts>>
       ELSE \E p \in Judged(f) :
              LET s == Severity(p.value, V \ {p})
                  r == [by |-> f, point |-> p, severity |-> s,
                        finite |-> s = "none" \/ Spread(V \ {p}) # 0]
              IN  /\ judged' = {j \in judged : ~ (j.point = p /\ j.seen \subseteq V)}
                                   \union {[point |-> p, severity |-> s, seen |-> V]}
                  /\ records' = IF s = "none" THEN records ELSE records \union {r}
                  /\ alerts' = IF f \in Requests /\ s \in {"medium", "high"}
                               THEN alerts \union {r} ELSE alerts
    /\ raw' = IF f \in Tasks THEN {} ELSE raw
    /\ UNCHANGED <<disk, home, points, trend, now, faults, blind, cut>>

-----------------------------------------------------------------------------
(* Celery: a report that is saved, parsed, analysed and judged *)

\* _save_attachment, and the row that is committed with it
Receive(f) ==
    /\ step[f] = "none"
    /\ step' = [step EXCEPT ![f] = "received"]
    /\ \E c \in Contents : disk' = [disk EXCEPT ![f] = c]
    /\ UNCHANGED <<home, points, trend, records, alerts, now, faults,
                   history>>

\* Mutant: any saved file will do.
MutFound(f) == {g \in Files : disk[g] # <<>>}

\* The files the name of the report finds in the upload directory, where the
\* files of deleted reports stay.
Found(f) == {g \in Matches[f] : disk[g] # <<>>}

\* _do_parse until it commits: the first file found, in whatever order the
\* directory lists them.
Read(f) ==
    /\ step[f] = "received"
    /\ now < MaxTime
    /\ now' = now + 1
    /\ \E g \in Found(f) : points' = points \union Stamped(f, disk[g], now + 1)
    /\ step' = [step EXCEPT ![f] = "read"]
    /\ UNCHANGED <<disk, home, trend, records, alerts, faults, history>>

Store(f) ==
    /\ step[f] = "read"
    /\ step' = [step EXCEPT ![f] = "stored"]
    /\ blind' = Crossed(f)
    /\ UNCHANGED <<disk, home, points, trend, records, alerts, now,
                   faults, judged, cut, raw>>

\* A task fails for good: before the commit its points go, after it they stay.
Fail(f) ==
    /\ step[f] \in {"read", "stored", "analyzed"}
    /\ faults < MaxFaults
    /\ faults' = faults + 1
    /\ points' = IF step[f] = "read" THEN {p \in points : p.file # f} ELSE points
    /\ step' = [step EXCEPT ![f] = "failed"]
    /\ UNCHANGED <<disk, home, trend, records, alerts, now, history>>

-----------------------------------------------------------------------------
(* Requests: append_data, check-email and create_report *)

Reports ==
    {r \in Files \ Open : home[r] = r /\ step[r] \notin {"none", "undone", "deleted"}}

\* The file is saved and parsed, and its rows are flushed into a report that
\* is there or, for an upload and for mail without a match, into one of its own.
Begin(f) ==
    /\ step[f] = "none"
    /\ now < MaxTime
    /\ now' = now + 1
    /\ \E c \in Contents :
         /\ disk' = [disk EXCEPT ![f] = c]
         /\ points' = points \union Dated(f, c, now + 1)
    /\ \E r \in IF f \in Uploads THEN {f}
                 ELSE Targets \intersect (Reports \union ({f} \ Appends)) :
           home' = [home EXCEPT ![f] = r]
    /\ step' = [step EXCEPT ![f] = "stored"]
    /\ UNCHANGED <<trend, records, alerts, faults, history>>

\* The answer of append_data holds the scores of the deviations, and JSON has
\* no infinite number.
Answerable(f) == f \in Appends => \A r \in records : r.by = f => r.finite

\* The commit of a request that has had the series judged, or of an upload,
\* which neither analyzes nor detects.
Commit(f) ==
    /\ \/ /\ step[f] = "judged" /\ Answerable(f)
          /\ raw' = IF f \in Crossed(f) THEN raw ELSE {}
       \/ /\ step[f] = "stored" /\ f \in Uploads
          /\ raw' = raw \union {f}
    /\ step' = [step EXCEPT ![f] = "done"]
    /\ blind' = Crossed(f)
    /\ UNCHANGED <<disk, home, points, trend, records, alerts, now,
                   faults, judged, cut>>

\* The transaction is rolled back; what was sent is sent.
Rollback(f) ==
    /\ step' = [step EXCEPT ![f] = "undone"]
    /\ points' = {p \in points : p.file # f}
    /\ records' = {r \in records : r.by # f}
    /\ UNCHANGED <<disk, home, trend, alerts, now, history>>

\* Anything raises before the commit.
Undo(f) ==
    /\ f \in Open
    /\ faults < MaxFaults
    /\ faults' = faults + 1
    /\ Rollback(f)

\* The answer cannot be written, which is found out before the commit.
Unanswered(f) ==
    /\ step[f] = "judged" /\ ~ Answerable(f)
    /\ Rollback(f)
    /\ UNCHANGED faults

-----------------------------------------------------------------------------

\* Mutant: every record of the series goes.
MutDelete(r) ==
    LET its == {f \in Files : home[f] = r} IN
    /\ faults < MaxFaults
    /\ faults' = faults + 1
    /\ r \in Reports
    /\ its \intersect Open = {}
    /\ step' = [step EXCEPT ![r] = "deleted"]
    /\ cut' = cut \union {p \in points : p.file \in its /\ step[p.file] # "read"}
    /\ points' = {p \in points : p.file \notin its}
    /\ records' = {}
    /\ UNCHANGED <<disk, home, trend, alerts, now, judged, blind, raw>>

\* delete_report: its rows go with it, its files stay.  It waits for a request
\* that has points in it, and a task finds it gone.
Delete(r) ==
    LET its == {f \in Files : home[f] = r} IN
    /\ faults < MaxFaults
    /\ faults' = faults + 1
    /\ r \in Reports
    /\ its \intersect Open = {}
    /\ step' = [step EXCEPT ![r] = "deleted"]
    /\ cut' = cut \union {p \in points : p.file \in its /\ step[p.file] # "read"}
    /\ points' = {p \in points : p.file \notin its}
    /\ records' = {d \in records : d.by \notin its}
    /\ UNCHANGED <<disk, home, trend, alerts, now, judged, blind, raw>>

Next ==
    \/ \E f \in Tasks : Receive(f) \/ Read(f) \/ Store(f) \/ Fail(f)
    \/ \E f \in Requests : Begin(f) \/ Commit(f) \/ Undo(f) \/ Unanswered(f)
    \/ \E f \in (Tasks \union Requests) \ Uploads : Analyze(f) \/ Judge(f)
    \/ \E r \in Files : Delete(r)

Spec == Init /\ [][Next]_vars

-----------------------------------------------------------------------------
(* Properties *)

Points == [file : Files, row : Nat, time : 0..MaxTime, value : Int]

Deviations == [by : Files, point : Points, severity : {"low", "medium", "high"},
               finite : BOOLEAN]

TypeOK ==
    /\ disk \in [Files -> Seq(RowType)]
    /\ step \in [Files -> {"none", "received", "read", "stored", "analyzed", "judged",
                           "done", "failed", "undone", "deleted"}]
    /\ home \in [Files -> Files]
    /\ points \subseteq Points
    /\ trend.used \subseteq Points
    /\ records \subseteq Deviations
    /\ alerts \subseteq Deviations
    /\ now \in 0..MaxTime
    /\ faults \in 0..MaxFaults
    /\ \A j \in judged : j.point \in Points /\ j.seen \subseteq Points
    /\ blind \subseteq Files /\ raw \subseteq Files
    /\ cut \subseteq Points

AtRest == \A f \in Files : step[f] \notin {"read", "stored", "analyzed", "judged"}

\* Files whose points no judgement need have seen: their task failed, or they
\* were committed beside a request that did not see them.
Unseen == blind \union {f \in Files : step[f] = "failed"}

\* Nor need one have seen a history that create_report has stored since.
Missed == Unseen \union raw

\* When nothing is under way, the newest point of the series has been compared
\* with all the others, however tasks, requests, old and future dates mixed:
\* unless it is one of those missed, or a point as new was judged in its place
\* and has been deleted since.  A history that create_report stores is judged
\* with the first file that comes after it, and not before.
VerdictIsCurrent ==
    LET core == {p \in points : p.file \notin Missed} IN
    AtRest /\ Cardinality(core) >= MinPoints =>
        \E p \in Newest(points) :
            \/ p.file \in Missed
            \/ \E c \in cut : c.time >= p.time
            \/ \E j \in judged : j.point = p /\ core \subseteq j.seen

\* A value that makes up a sixth of the history never causes an alert, also
\* when the history is constant and every other value would.
NothingUsualAlerts ==
    \A j \in judged :
        LET same == {q \in j.seen \ {j.point} : q.value = j.point.value} IN
        j.severity \in {"medium", "high"} =>
            6 * Cardinality(same) < Cardinality(j.seen) - 1

Rising(S) ==
    \A p, q \in S : p # q => p.time # q.time /\ (p.time < q.time => p.value < q.value)

\* A series that rises from point to point is recorded as increasing, except
\* at three points, which give a single average and so a stable trend.
RisingIsSeen ==
    Rising(trend.used) /\ trend.used # {} =>
        trend.direction = "increasing" \/ Cardinality(trend.used) = 3

\* The points of a report that Celery has parsed have the values of its own
\* attachment, unless the name finds another file as well.
OwnData ==
    \A f \in Tasks :
        LET own == {p \in points : p.file = f} IN
        step[f] \in {"stored", "analyzed", "done"} =>
            \/ \A i \in DOMAIN disk[f] : \E p \in own : p.value = disk[f][i].value
            \/ \E g \in Matches[f] \ {f} : disk[g] # <<>>

\* Whoever was alerted finds the deviation on record, unless the report was
\* deleted or the request that alerted was rolled back, which is due to a
\* failure or to the infinite score of that very deviation.
AlertHasRecord ==
    \A a \in alerts :
        \/ a \in records
        \/ step[a.by] = "undone" /\ (faults > 0 \/ ~ a.finite)
        \/ step[home[a.by]] = "deleted"
=============================================================================
