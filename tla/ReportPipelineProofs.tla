------------------------ MODULE ReportPipelineProofs ------------------------
(***************************************************************************)
(* Proofs about ReportPipeline, for every number of reports, series and    *)
(* workers and every bound on retries, triggers and crashes.               *)
(***************************************************************************)
EXTENDS ReportPipeline, FiniteSetTheorems, TLAPS

USE DEF Message, Send, Goto, Handler

-----------------------------------------------------------------------------
(* Type correctness *)

\* A worker past "idle" holds a message, so its task and report are defined.
LEMMA BusyHolds ==
    ASSUME TypeOK, NEW w \in Workers, pc[w] # "idle"
    PROVE  /\ held[w] \in Messages
           /\ held[w].task \in Tasks
           /\ held[w].report \in Reports
           /\ held[w].retries \in 0..RetryCap
<1>1. held[w] \in Messages
  BY DEF TypeOK
<1> QED
  BY <1>1 DEF Messages

\* An idle worker cannot be taken for one that holds a message.
LEMMA NoMessageIsNone == NoMessage \notin Messages
BY DEF NoMessage, Messages, Tasks

\* The message that starts a stage is a message of no retries.
LEMMA FreshMessage ==
    ASSUME PipelineAssumption, NEW t \in Tasks, NEW r \in Reports
    PROVE  Message(t, r) \in Messages
BY DEF PipelineAssumption, Messages

\* The pipeline starts with every variable of its type.
LEMMA InitType == PipelineAssumption /\ Init => TypeOK
BY DEF PipelineAssumption, Init, TypeOK, Messages, NoMessage, Tasks, Steps,
       Statuses, Verdicts

\* Every step keeps the types of all variables.
LEMMA NextType == PipelineAssumption /\ TypeOK /\ [Next]_vars => TypeOK'
<1> SUFFICES ASSUME PipelineAssumption, TypeOK, [Next]_vars PROVE TypeOK'
  OBVIOUS
<1> USE DEF TypeOK, history
<1>1. ASSUME NEW r \in Reports, External(r) PROVE TypeOK'
  <2>1. NameOf[r] \in Names
    BY DEF PipelineAssumption
  <2>2. CASE Ingest(r)
    BY <2>2 DEF Ingest, broker, outside, Statuses
  <2>3. CASE QueueParse(r)
    BY <2>3, FreshMessage DEF QueueParse, tables, Tasks
  <2>4. CASE TriggerReanalysis(r)
    BY <2>4, FreshMessage DEF TriggerReanalysis, tables, Tasks
  <2>5. CASE DeleteReport(r)
    BY <2>1, <2>5 DEF DeleteReport, broker, outside, Statuses, Verdicts
  <2> QED
    BY <1>1, <2>2, <2>3, <2>4, <2>5 DEF External
<1>2. ASSUME NEW w \in Workers, Work(w) \/ Crash(w) PROVE TypeOK'
  <2>1. CASE \E m \in Messages : Take(w, m)
    BY <2>1, NoMessageIsNone DEF Take, tables, outside, Steps
  <2> DEFINE r == held[w].report
  <2> SUFFICES ASSUME ~(\E m \in Messages : Take(w, m)) PROVE TypeOK'
    BY <2>1
  <2>2. pc[w] # "idle"
    BY <1>2 DEF Work, Ack, Raise, Retry, GiveUp, NotFound, ParseStore,
        ParseReject, SendTrend, MarkFailed, Analyze, SendDeviation, Detect,
        SendNotification, Notify, CommitLog, Crash, Running
  <2>3. /\ held[w] \in Messages
        /\ held[w].task \in Tasks
        /\ r \in Reports
        /\ held[w].retries \in 0..RetryCap
        /\ NameOf[r] \in Names
    BY <2>2, BusyHolds DEF PipelineAssumption
  <2> HIDE DEF r
  <2>4. CASE Ack(w)
    BY <2>4 DEF Ack, tables, outside, Steps
  <2>5. CASE Crash(w)
    BY <2>3, <2>5 DEF Crash, tables, Steps, CutOff, r
  <2>6. CASE Raise(w)
    BY <2>2, <2>3, <2>6 DEF Raise, tables, outside, Steps, CutOff, r
  <2>7. CASE Retry(w)
    <3>1. [held[w] EXCEPT !.retries = @ + 1] \in Messages
      BY <2>3, <2>7 DEF Retry, Messages, PipelineAssumption
    <3> QED
      BY <2>2, <3>1, <2>7 DEF Retry, tables, outside, Steps
  <2>8. CASE GiveUp(w)
    BY <2>2, <2>3, <2>8 DEF GiveUp, tables, outside, Steps, r
  <2>9. CASE NotFound(w)
    BY <2>2, <2>9 DEF NotFound, tables, outside, Steps
  <2>10. CASE ParseStore(w)
    BY <2>2, <2>3, <2>10 DEF ParseStore, outside, Steps, Statuses, r
  <2>11. CASE ParseReject(w)
    BY <2>2, <2>3, <2>11 DEF ParseReject, outside, Steps, Statuses, r
  <2>12. CASE SendTrend(w)
    BY <2>2, <2>3, <2>12, FreshMessage DEF SendTrend, tables, outside, Steps, Tasks, r
  <2>13. CASE MarkFailed(w)
    BY <2>2, <2>3, <2>13 DEF MarkFailed, outside, Steps, Statuses, r
  <2>14. CASE Analyze(w)
    BY <2>2, <2>3, <2>14 DEF Analyze, outside, Steps, r
  <2>15. CASE SendDeviation(w)
    BY <2>2, <2>3, <2>15, FreshMessage DEF SendDeviation, tables, outside, Steps, Tasks, r
  <2>16. CASE Detect(w)
    BY <2>2, <2>3, <2>16 DEF Detect, outside, Steps, Verdicts, r
  <2>17. CASE SendNotification(w)
    BY <2>2, <2>3, <2>17, FreshMessage DEF SendNotification, tables, outside, Steps, Tasks, r
  <2>18. CASE Notify(w)
    BY <2>2, <2>3, <2>18 DEF Notify, tables, Steps, r
  <2>19. CASE CommitLog(w)
    BY <2>2, <2>3, <2>19 DEF CommitLog, outside, Steps, r
  <2> QED
    BY <1>2, <2>4, <2>5, <2>6, <2>7, <2>8, <2>9, <2>10, <2>11, <2>12, <2>13,
       <2>14, <2>15, <2>16, <2>17, <2>18, <2>19 DEF Work
<1>3. CASE UNCHANGED vars
  BY <1>3 DEF vars, broker, tables, outside
<1> QED
  BY <1>1, <1>2, <1>3 DEF Next

\* Every reachable state of the pipeline is well typed; in particular a busy
\* worker holds exactly one message and only parse_report marks reports.
THEOREM TypeCorrect == Spec => []TypeOK
<1> USE PipelineAssumption
<1>1. Init => TypeOK
  BY InitType
<1>2. TypeOK /\ [Next]_vars => TypeOK'
  BY NextType
<1> QED
  BY <1>1, <1>2, PTL DEF Spec

-----------------------------------------------------------------------------
(* What no step undoes, and what each step leaves behind *)

\* Rows of a stage go only together with their report, a deleted report stays
\* deleted, and the tasks known to have failed or to be cut off stay known.
RowsKept(r) ==
    /\ status[r] # "absent" => status'[r] # "absent"
    /\ status[r] = "deleted" => status'[r] = "deleted"
    /\ points[r] > 0 => points'[r] > 0 \/ status'[r] = "deleted"
    /\ trend[r] # "none" => trend'[r] # "none" \/ status'[r] = "deleted"
    /\ detected[r] => detected'[r]
    /\ Alerting(r) => Alerting(r)'
    /\ logged[r] => logged'[r] \/ status'[r] = "deleted"
    /\ gaveUp \subseteq gaveUp'
    /\ unsent \subseteq unsent'

\* A report becomes parsed, or its trend analysed, only in a task of it.
StageEntered(r) ==
    /\ status'[r] = "parsed" => status[r] = "parsed" \/ Live("parse", r)'
    /\ trend'[r] # "none" => trend[r] # "none" \/ Live("trend", r)'

\* What became of a live task of r: it still is, it gave up, or it is
\* replaced by its outcome.
LiveCarries(t, r) ==
    Live(t, r) =>
        \/ Live(t, r)' \/ <<t, r>> \in gaveUp'
        \/ t = "parse" /\ status'[r] # "parsed"
        \/ t = "parse" /\ Live("trend", r)'
        \/ /\ t = "trend" /\ Live("deviation", r)'
           /\ trend'[r] # "none" \/ status'[r] = "deleted"
        \/ t = "deviation" /\ detected'[r]
        \/ t = "notify" /\ (logged'[r] \/ status'[r] = "deleted")

\* Only a deletion takes back what a stage has committed for a report.
LEMMA RowsStay ==
    ASSUME TypeOK, [Next]_vars, NEW r \in Reports
    PROVE  RowsKept(r)
<1> USE DEF TypeOK, Alerting, RowsKept, history
<1>1. CASE UNCHANGED vars
  BY <1>1 DEF vars, tables
<1>2. ASSUME NEW s \in Reports, External(s) PROVE RowsKept(r)
  <2>1. CASE Ingest(s)
    BY <2>1 DEF Ingest
  <2>2. CASE QueueParse(s) \/ TriggerReanalysis(s)
    BY <2>2 DEF QueueParse, TriggerReanalysis, tables
  <2>3. CASE DeleteReport(s)
    BY <2>3 DEF DeleteReport
  <2> QED
    BY <1>2, <2>1, <2>2, <2>3 DEF External
<1>3. ASSUME NEW w \in Workers, Work(w) \/ Crash(w) PROVE RowsKept(r)
  <2>1. CASE \/ \E m \in Messages : Take(w, m)
             \/ Ack(w) \/ Raise(w) \/ Retry(w) \/ NotFound(w) \/ SendTrend(w)
             \/ SendDeviation(w) \/ SendNotification(w) \/ Notify(w) \/ Crash(w)
    BY <2>1 DEF Take, Ack, Raise, Retry, NotFound, SendTrend, SendDeviation,
                SendNotification, Notify, Crash, tables
  <2>2. CASE GiveUp(w)
    BY <2>2 DEF GiveUp, tables
  <2>3. CASE ParseStore(w) \/ ParseReject(w) \/ MarkFailed(w)
    BY <2>3 DEF ParseStore, ParseReject, MarkFailed
  <2>4. CASE Analyze(w)
    BY <2>4 DEF Analyze
  <2>5. CASE Detect(w)
    BY <2>5 DEF Detect
  <2>6. CASE CommitLog(w)
    BY <2>6 DEF CommitLog
  <2> QED
    BY <1>3, <2>1, <2>2, <2>3, <2>4, <2>5, <2>6 DEF Work
<1> QED
  BY <1>1, <1>2, <1>3 DEF Next

\* A worker about to send has just run the transaction of its stage.
LEMMA StagesEntered ==
    ASSUME PipelineAssumption, TypeOK, [Next]_vars, NEW r \in Reports
    PROVE  StageEntered(r)
<1> USE DEF TypeOK, StageEntered
<1>1. CASE UNCHANGED vars
  BY <1>1 DEF vars, tables
<1>2. ASSUME NEW s \in Reports, External(s) PROVE StageEntered(r)
  BY <1>2 DEF External, Ingest, QueueParse, TriggerReanalysis, DeleteReport, tables
<1>3. ASSUME NEW w \in Workers, Work(w) \/ Crash(w) PROVE StageEntered(r)
  <2>1. CASE ParseStore(w)
    BY <2>1 DEF ParseStore, Running, Live
  <2>2. CASE Analyze(w)
    BY <2>2 DEF Analyze, Running, Live
  <2>3. CASE ParseReject(w) \/ MarkFailed(w)
    BY <2>3 DEF ParseReject, MarkFailed
  <2>4. CASE ~(ParseStore(w) \/ Analyze(w) \/ ParseReject(w) \/ MarkFailed(w))
    <3>1. UNCHANGED <<status, trend>>
      BY <1>3, <2>4 DEF Work, Take, Ack, Raise, Retry, NotFound, SendTrend,
          SendDeviation, SendNotification, Notify, Crash, GiveUp, Detect,
          CommitLog, tables
    <3> QED
      BY <3>1
  <2> QED
    BY <2>1, <2>2, <2>3, <2>4
<1> QED
  BY <1>1, <1>2, <1>3 DEF Next

-----------------------------------------------------------------------------
(* Sending after the commit *)

\* At the start no worker is about to send.
LEMMA InitSends == Init => SendsAfterCommit
BY DEF Init, SendsAfterCommit

\* The conjunct of SendsAfterCommit for one worker.
SendsOK(v) ==
    pc[v] = "send" =>
        LET r == held[v].report IN
        /\ held[v].task = "parse" => points[r] > 0 \/ status[r] = "deleted"
        /\ held[v].task = "trend" => trend[r] # "none" \/ status[r] = "deleted"
        /\ held[v].task = "deviation" => detected[r] /\ Alerting(r)

\* A worker that does not get to "send" in this step keeps what it had.
LEMMA SendsKept ==
    ASSUME PipelineAssumption, TypeOK, SendsAfterCommit, [Next]_vars, NEW v \in Workers,
           pc'[v] = "send" => pc[v] = "send" /\ held'[v] = held[v]
    PROVE  SendsOK(v)'
<1> SUFFICES ASSUME pc'[v] = "send" PROVE SendsOK(v)'
  BY DEF SendsOK
<1> DEFINE r == held[v].report
<1>1. pc[v] = "send" /\ held'[v] = held[v]
  OBVIOUS
<1>2. r \in Reports
  BY <1>1, BusyHolds
<1>3. RowsKept(r)
  BY <1>2, RowsStay
<1>4. SendsOK(v)
  BY DEF SendsAfterCommit, SendsOK
<1> QED
  BY <1>1, <1>3, <1>4 DEF SendsOK, RowsKept

\* Whoever sends the next message has committed its own stage, after every step.
LEMMA NextSends ==
    PipelineAssumption /\ TypeOK /\ SendsAfterCommit /\ [Next]_vars => SendsAfterCommit'
<1> SUFFICES ASSUME PipelineAssumption, TypeOK, SendsAfterCommit, [Next]_vars,
                    NEW v \in Workers
             PROVE  SendsOK(v)'
  BY DEF SendsAfterCommit, SendsOK
<1> DEFINE Kept == pc'[v] = "send" => pc[v] = "send" /\ held'[v] = held[v]
<1>1. CASE UNCHANGED vars
  <2>1. Kept
    BY <1>1 DEF vars, broker
  <2> QED
    BY <2>1, SendsKept
<1>2. ASSUME NEW s \in Reports, External(s) PROVE SendsOK(v)'
  <2>1. Kept
    BY <1>2 DEF External, Ingest, QueueParse, TriggerReanalysis, DeleteReport, broker
  <2> QED
    BY <2>1, SendsKept
<1>3. ASSUME NEW w \in Workers, Work(w) \/ Crash(w) PROVE SendsOK(v)'
  <2>1. CASE w = v /\ Analyze(w)
    BY <2>1, BusyHolds DEF Analyze, Running, SendsOK, TypeOK
  <2>2. CASE w = v /\ Detect(w)
    BY <2>2, BusyHolds DEF Detect, Running, SendsOK, TypeOK, Alerting
  <2>3. CASE w = v /\ ParseStore(w)
    BY <2>3, BusyHolds DEF ParseStore, Running, SendsOK, TypeOK
  <2>4. CASE w # v \/ ~(Analyze(w) \/ Detect(w) \/ ParseStore(w))
    <3>1. Kept
      BY <1>3, <2>4 DEF Work, Take, Ack, Raise, Retry, NotFound, SendTrend,
          SendDeviation, SendNotification, Notify, Crash, GiveUp, Detect,
          CommitLog, ParseStore, ParseReject, MarkFailed, Analyze, TypeOK
    <3> QED
      BY <3>1, SendsKept
  <2> QED
    BY <2>1, <2>2, <2>3, <2>4
<1> QED
  BY <1>1, <1>2, <1>3 DEF Next

-----------------------------------------------------------------------------
(* No stage is forgotten *)

\* Worker w is at this task of r.
AtTask(w, t, r) ==
    pc[w] \notin {"idle", "done"} /\ held[w].task = t /\ held[w].report = r

\* A step of one worker that takes nothing from the broker can end only a task
\* this worker was at.
LEMMA LiveFrame ==
    ASSUME NEW t, NEW r, NEW w \in Workers, Live(t, r), TypeOK,
           \A m \in Messages : queue[m] > 0 => queue'[m] > 0,
           \A v \in Workers \ {w} : pc'[v] = pc[v] /\ held'[v] = held[v]
    PROVE  AtTask(w, t, r) \/ Live(t, r)'
BY DEF Live, AtTask

\* Sending adds a copy, so what waited still waits and the message waits too.
LEMMA SendLive ==
    ASSUME TypeOK, NEW m \in Messages, Send(m)
    PROVE  /\ \A n \in Messages : queue[n] > 0 => queue'[n] > 0
           /\ Live(m.task, m.report)'
<1>1. queue'[m] > 0 /\ \A n \in Messages : queue[n] > 0 => queue'[n] > 0
  BY DEF TypeOK
<1> QED
  BY <1>1 DEF Live

\* A task of a report that is to run still is after a step, unless the step is
\* the commit it is waited for, or its end for good.
LEMMA LiveStep ==
    ASSUME PipelineAssumption, TypeOK, SendsAfterCommit, [Next]_vars,
           NEW t \in Tasks, NEW r \in Reports
    PROVE  LiveCarries(t, r)
<1> SUFFICES ASSUME Live(t, r) PROVE LiveCarries(t, r)
  BY DEF LiveCarries
<1> USE DEF LiveCarries
<1>0. TypeOK'
  BY NextType
<1>1. CASE UNCHANGED <<queue, held, pc>>
  BY <1>1 DEF Live
<1>2. ASSUME NEW m \in Messages, Send(m), UNCHANGED <<held, pc>>
      PROVE  Live(t, r)'
  BY <1>2, SendLive DEF Live
<1>3. ASSUME NEW s \in Reports, External(s) PROVE LiveCarries(t, r)
  <2>1. CASE Ingest(s) \/ DeleteReport(s)
    BY <1>1, <2>1 DEF Ingest, DeleteReport, broker
  <2>2. CASE QueueParse(s) \/ TriggerReanalysis(s)
    BY <1>2, <2>2, FreshMessage DEF QueueParse, TriggerReanalysis, Tasks
  <2> QED
    BY <1>3, <2>1, <2>2 DEF External
<1>4. ASSUME NEW w \in Workers, Work(w) \/ Crash(w) PROVE LiveCarries(t, r)
  <2>1. ASSUME NEW m \in Messages, Take(w, m) PROVE Live(t, r)'
    BY <2>1 DEF Take, Live, TypeOK
  <2> SUFFICES ASSUME ~(\E m \in Messages : Take(w, m)) PROVE LiveCarries(t, r)
    BY <2>1
  <2>2. /\ pc[w] # "idle"
        /\ \A v \in Workers \ {w} : pc'[v] = pc[v] /\ held'[v] = held[v]
    BY <1>4 DEF Work, Ack, Raise, Retry, GiveUp, NotFound, ParseStore,
        ParseReject, SendTrend, MarkFailed, Analyze, SendDeviation, Detect,
        SendNotification, Notify, CommitLog, Crash, Running, TypeOK
  <2>3. held[w] \in Messages /\ held[w].report \in Reports
    BY <2>2, BusyHolds
  <2>4. ASSUME NEW m \in Messages, Send(m)
        PROVE  /\ AtTask(w, t, r) \/ Live(t, r)'
               /\ Live(m.task, m.report)'
    BY <2>2, <2>4, SendLive, LiveFrame
  <2>5. ASSUME UNCHANGED queue PROVE AtTask(w, t, r) \/ Live(t, r)'
    BY <2>2, <2>5, LiveFrame
  <2>6. ASSUME pc'[w] \notin {"idle", "done"}, UNCHANGED <<queue, held>>
        PROVE  Live(t, r)'
    BY <2>5, <2>6 DEF AtTask, Live
  <2>7. CASE Ack(w)
    BY <2>5, <2>7 DEF Ack, AtTask
  <2>8. CASE Crash(w)
    BY <2>3, <2>4, <2>8 DEF Crash, AtTask
  <2>9. CASE Raise(w) \/ MarkFailed(w) \/ ParseStore(w) \/ Analyze(w) \/ Notify(w)
    BY <2>6, <2>2, <2>9 DEF Raise, MarkFailed, ParseStore, Analyze, Notify, TypeOK
  <2>10. CASE Retry(w)
    <3> DEFINE m == [held[w] EXCEPT !.retries = @ + 1]
    <3>1. m \in Messages /\ m.task = held[w].task /\ m.report = held[w].report
      BY <2>2, <2>3, <2>10, BusyHolds DEF Retry, Messages, PipelineAssumption
    <3>2. Send(m)
      BY <2>10 DEF Retry
    <3> QED
      BY <2>4, <3>1, <3>2 DEF AtTask
  <2>11. CASE GiveUp(w)
    BY <2>5, <2>11 DEF GiveUp, AtTask
  <2>12. CASE NotFound(w)
    BY <2>3, <2>5, <2>12 DEF NotFound, AtTask, tables
  <2>13. CASE ParseReject(w)
    BY <2>3, <2>5, <2>13 DEF ParseReject, AtTask, Running, TypeOK
  <2>14. CASE SendTrend(w)
    BY <2>3, <2>4, <2>14, FreshMessage DEF SendTrend, AtTask, Running, Tasks
  <2>15. CASE SendDeviation(w)
    BY <2>3, <2>4, <2>15, FreshMessage DEF SendDeviation, AtTask, Running,
       Tasks, SendsAfterCommit, tables
  <2>16. CASE Detect(w)
    BY <2>3, <2>5, <2>16 DEF Detect, AtTask, Running, TypeOK
  <2>17. CASE SendNotification(w)
    BY <2>3, <2>4, <2>17, FreshMessage DEF SendNotification, AtTask, Running,
       Tasks, SendsAfterCommit, tables
  <2>18. CASE CommitLog(w)
    BY <2>3, <2>5, <2>18 DEF CommitLog, AtTask, Running, TypeOK
  <2> QED
    BY <1>4, <2>7, <2>8, <2>9, <2>10, <2>11, <2>12, <2>13, <2>14, <2>15,
       <2>16, <2>17, <2>18 DEF Work
<1>5. CASE UNCHANGED vars
  BY <1>1, <1>5 DEF vars, broker
<1> QED
  BY <1>3, <1>4, <1>5 DEF Next

\* Between the parse commit and the trend commit.
LEMMA NextNoStallAfterParse ==
    /\ PipelineAssumption /\ TypeOK /\ SendsAfterCommit
    /\ NoStallAfterParse /\ [Next]_vars
    => NoStallAfterParse'
<1> SUFFICES ASSUME PipelineAssumption, TypeOK, SendsAfterCommit,
                    NoStallAfterParse, [Next]_vars,
                    NEW r \in Reports, status'[r] = "parsed", trend'[r] = "none",
                    ~Live("parse", r)', ~Live("trend", r)'
             PROVE  <<"parse", r>> \in gaveUp' \/ <<"trend", r>> \in gaveUp'
  BY DEF NoStallAfterParse
<1>1. RowsKept(r) /\ StageEntered(r)
  BY RowsStay, StagesEntered
<1>2. LiveCarries("parse", r) /\ LiveCarries("trend", r)
  BY LiveStep DEF Tasks
<1>3. status[r] = "parsed" /\ trend[r] = "none"
  BY <1>1 DEF StageEntered, RowsKept
<1> QED
  BY <1>1, <1>2, <1>3 DEF NoStallAfterParse, LiveCarries, RowsKept

\* Between the trend commit and the deviation commit.
LEMMA NextNoStallAfterTrend ==
    /\ PipelineAssumption /\ TypeOK /\ SendsAfterCommit
    /\ NoStallAfterTrend /\ [Next]_vars
    => NoStallAfterTrend'
<1> SUFFICES ASSUME PipelineAssumption, TypeOK, SendsAfterCommit,
                    NoStallAfterTrend, [Next]_vars,
                    NEW r \in Reports, trend'[r] # "none", ~detected'[r],
                    ~Live("trend", r)', ~Live("deviation", r)'
             PROVE  <<"trend", r>> \in gaveUp' \/ <<"deviation", r>> \in gaveUp'
  BY DEF NoStallAfterTrend
<1>1. RowsKept(r) /\ StageEntered(r)
  BY RowsStay, StagesEntered
<1>2. LiveCarries("trend", r) /\ LiveCarries("deviation", r)
  BY LiveStep DEF Tasks
<1>3. trend[r] # "none" /\ ~detected[r]
  BY <1>1 DEF StageEntered, RowsKept
<1> QED
  BY <1>1, <1>2, <1>3 DEF NoStallAfterTrend, LiveCarries, RowsKept

-----------------------------------------------------------------------------
(* Stage order *)

\* At the start there are no rows and no messages to justify.
LEMMA InitOrder == PipelineAssumption /\ Init => StageOrder /\ MessagesJustified
BY DEF Init, StageOrder, MessagesJustified, NoRow, NoMessage, Messages, Tasks,
       HadHistory, Alerting

\* What justifies a message is never taken back.
LEMMA JustifiedStays ==
    ASSUME TypeOK, [Next]_vars, NEW m \in Messages, Justified(m)
    PROVE  Justified(m)'
<1>1. m.report \in Reports
  BY DEF Messages
<1>2. RowsKept(m.report)
  BY <1>1, RowsStay
<1> QED
  BY <1>2 DEF Justified, RowsKept

InFlight(m) == queue[m] > 0 \/ \E w \in Workers : held[w] = m

\* A message of the same task and report as one in flight is justified too.
LEMMA NextJustified ==
    /\ PipelineAssumption /\ TypeOK /\ SendsAfterCommit
    /\ MessagesJustified /\ [Next]_vars
    => MessagesJustified'
<1> SUFFICES ASSUME PipelineAssumption, TypeOK, SendsAfterCommit,
                    MessagesJustified, [Next]_vars,
                    NEW m \in Messages, InFlight(m)', ~InFlight(m)
             PROVE  Justified(m)'
  BY JustifiedStays DEF MessagesJustified, InFlight
<1> SUFFICES Justified(m)
  BY JustifiedStays
<1>1. CASE UNCHANGED <<queue, held>>
  BY <1>1 DEF InFlight
<1>2. ASSUME NEW n \in Messages, Send(n), UNCHANGED held PROVE m = n
  BY <1>2 DEF InFlight, TypeOK
<1>3. ASSUME NEW s \in Reports, External(s) PROVE Justified(m)
  <2>1. CASE Ingest(s) \/ DeleteReport(s)
    BY <1>1, <2>1 DEF Ingest, DeleteReport, broker
  <2>2. CASE QueueParse(s)
    <3>1. m = Message("parse", s)
      BY <1>2, <2>2, FreshMessage DEF QueueParse, Tasks
    <3> QED
      BY <2>2, <3>1 DEF QueueParse, Justified
  <2>3. CASE TriggerReanalysis(s)
    <3>1. m = Message("trend", s)
      BY <1>2, <2>3, FreshMessage DEF TriggerReanalysis, Tasks
    <3> QED
      BY <2>3, <3>1 DEF TriggerReanalysis, Justified
  <2> QED
    BY <1>3, <2>1, <2>2, <2>3 DEF External
<1>4. ASSUME NEW w \in Workers, Work(w) \/ Crash(w) PROVE Justified(m)
  <2>1. ASSUME NEW n \in Messages, Take(w, n) PROVE FALSE
    BY <2>1 DEF Take, InFlight, TypeOK
  <2> SUFFICES ASSUME ~(\E n \in Messages : Take(w, n)) PROVE Justified(m)
    BY <2>1
  <2>2. pc[w] # "idle"
    BY <1>4 DEF Work, Ack, Raise, Retry, GiveUp, NotFound, ParseStore,
        ParseReject, SendTrend, MarkFailed, Analyze, SendDeviation, Detect,
        SendNotification, Notify, CommitLog, Crash, Running
  <2>3. held[w] \in Messages /\ held[w].report \in Reports /\ Justified(held[w])
    BY <2>2, BusyHolds DEF MessagesJustified
  <2>4. CASE Ack(w)
    BY <2>4, NoMessageIsNone DEF Ack, InFlight, TypeOK
  <2>5. CASE Crash(w)
    BY <2>3, <2>5, NoMessageIsNone DEF Crash, InFlight, TypeOK
  <2>6. CASE Retry(w)
    <3> DEFINE n == [held[w] EXCEPT !.retries = @ + 1]
    <3>1. n \in Messages /\ n.task = held[w].task /\ n.report = held[w].report
      BY <2>2, <2>3, <2>6, BusyHolds DEF Retry, Messages, PipelineAssumption
    <3>2. m = n
      BY <1>2, <2>6, <3>1 DEF Retry
    <3> QED
      BY <2>3, <3>1, <3>2 DEF Justified
  <2>7. CASE SendTrend(w)
    <3>1. m = Message("trend", held[w].report)
      BY <1>2, <2>3, <2>7, FreshMessage DEF SendTrend, Tasks
    <3> QED
      BY <2>3, <3>1 DEF Justified
  <2>8. CASE SendDeviation(w)
    <3>1. m = Message("deviation", held[w].report)
      BY <1>2, <2>3, <2>8, FreshMessage DEF SendDeviation, Tasks
    <3>2. trend[held[w].report] # "none" \/ status[held[w].report] = "deleted"
      BY <2>8 DEF SendDeviation, Running, SendsAfterCommit
    <3> QED
      BY <2>3, <3>1, <3>2 DEF Justified
  <2>9. CASE SendNotification(w)
    <3>1. m = Message("notify", held[w].report)
      BY <1>2, <2>3, <2>9, FreshMessage DEF SendNotification, Tasks
    <3>2. Alerting(held[w].report)
      BY <2>9 DEF SendNotification, Running, SendsAfterCommit
    <3> QED
      BY <2>3, <3>1, <3>2 DEF Justified
  <2>10. CASE ~(Ack(w) \/ Crash(w) \/ Retry(w) \/ SendTrend(w)
                \/ SendDeviation(w) \/ SendNotification(w))
    <3>1. UNCHANGED <<queue, held>>
      BY <1>4, <2>10 DEF Work, Raise, GiveUp, NotFound, ParseStore, ParseReject,
          MarkFailed, Analyze, Detect, Notify, CommitLog
    <3> QED
      BY <1>1, <3>1
  <2> QED
    BY <2>4, <2>5, <2>6, <2>7, <2>8, <2>9, <2>10
<1>5. CASE UNCHANGED vars
  BY <1>1, <1>5 DEF vars, broker
<1> QED
  BY <1>3, <1>4, <1>5 DEF Next

\* The conjunct of StageOrder for one report.
OrderOK(r) ==
    /\ status[r] = "parsed" => points[r] > 0
    /\ trend[r] = "stored" \/ devs[r] # {} => HadHistory(r)
    /\ alerted[r] => Alerting(r)
    /\ logged[r] => "alert" \in devs[r]
    /\ status[r] \in NoRow => /\ points[r] = 0
                              /\ trend[r] = "none"
                              /\ devs[r] = {}
                              /\ ~logged[r]

\* Points go only with their report, which then counts as deleted.
LEMMA HistoryStays ==
    ASSUME PipelineAssumption, TypeOK, [Next]_vars, NEW r \in Reports, HadHistory(r)
    PROVE  HadHistory(r)'
<1>1. PICK s \in Reports : /\ NameOf[s] = NameOf[r]
                           /\ points[s] > 0 \/ status[s] = "deleted"
  BY DEF HadHistory
<1>2. RowsKept(s)
  BY RowsStay
<1> QED
  BY <1>1, <1>2 DEF HadHistory, RowsKept

\* Every step keeps the rows of a stage behind those they are computed from.
LEMMA NextOrder ==
    /\ PipelineAssumption /\ TypeOK /\ MessagesJustified /\ StageOrder
    /\ [Next]_vars
    => StageOrder'
<1> SUFFICES ASSUME PipelineAssumption, TypeOK, MessagesJustified, StageOrder,
                    [Next]_vars, NEW r \in Reports
             PROVE  OrderOK(r)'
  BY DEF StageOrder, OrderOK
<1>1. OrderOK(r) /\ RowsKept(r) /\ (HadHistory(r) => HadHistory(r)')
  BY RowsStay, HistoryStays DEF StageOrder, OrderOK
<1>2. CASE UNCHANGED <<status, points, trend, devs, logged, alerted>>
  BY <1>1, <1>2 DEF OrderOK, Alerting
<1>3. ASSUME NEW s \in Reports, External(s) PROVE OrderOK(r)'
  <2>1. CASE Ingest(s)
    BY <1>1, <2>1 DEF Ingest, outside, OrderOK, Alerting, TypeOK, NoRow
  <2>2. CASE QueueParse(s) \/ TriggerReanalysis(s)
    BY <1>2, <2>2 DEF QueueParse, TriggerReanalysis, tables
  <2>3. CASE DeleteReport(s)
    BY <1>1, <2>3 DEF DeleteReport, outside, OrderOK, Alerting, TypeOK, NoRow
  <2> QED
    BY <1>3, <2>1, <2>2, <2>3 DEF External
<1>4. ASSUME NEW w \in Workers, Work(w) \/ Crash(w) PROVE OrderOK(r)'
  <2> DEFINE q == held[w].report
  <2>1. pc[w] # "idle" =>
          q \in Reports /\ status[q] # "absent"
          /\ (held[w].task = "notify" => Alerting(q))
    BY BusyHolds DEF MessagesJustified, Justified
  <2>2. History(q) # {} /\ q \in Reports => HadHistory(q)
    BY DEF History, HadHistory
  <2> HIDE DEF q
  <2>3. CASE ParseStore(w)
    BY <1>1, <2>1, <2>3 DEF ParseStore, Running, outside, OrderOK, Alerting, TypeOK, NoRow, q
  <2>4. CASE ParseReject(w) \/ MarkFailed(w)
    BY <1>1, <2>1, <2>4 DEF ParseReject, MarkFailed, Running, outside, OrderOK,
       Alerting, TypeOK, NoRow, q
  <2>5. CASE Analyze(w)
    BY <1>1, <2>1, <2>2, <2>5 DEF Analyze, Running, outside, OrderOK, Alerting,
       TypeOK, NoRow, q
  <2>6. CASE Detect(w)
    BY <1>1, <2>1, <2>2, <2>6 DEF Detect, Running, outside, OrderOK, Alerting,
       TypeOK, NoRow, Verdicts, q
  <2>7. CASE Notify(w)
    BY <1>1, <2>1, <2>7 DEF Notify, Running, tables, OrderOK, Alerting, TypeOK, q
  <2>8. CASE CommitLog(w)
    BY <1>1, <2>1, <2>8 DEF CommitLog, Running, outside, OrderOK, Alerting,
       TypeOK, NoRow, q
  <2>9. CASE ~(ParseStore(w) \/ ParseReject(w) \/ MarkFailed(w) \/ Analyze(w)
               \/ Detect(w) \/ Notify(w) \/ CommitLog(w))
    <3>1. UNCHANGED <<status, points, trend, devs, logged, alerted>>
      BY <1>4, <2>9 DEF Work, Take, Ack, Raise, Retry, NotFound, SendTrend,
         SendDeviation, SendNotification, Crash, GiveUp, tables, outside
    <3> QED
      BY <1>2, <3>1
  <2> QED
    BY <2>3, <2>4, <2>5, <2>6, <2>7, <2>8, <2>9
<1> QED
  BY <1>2, <1>3, <1>4 DEF Next, vars, tables, outside

-----------------------------------------------------------------------------
(* Alerts are handed on *)

\* An alert is recorded by a detection that is then about to send it on.
LEMMA AlertsEntered ==
    ASSUME TypeOK, [Next]_vars, NEW r \in Reports, "alert" \in devs'[r]
    PROVE  "alert" \in devs[r] \/ \E w \in Workers : r \in CutOff(w)'
<1>1. CASE \E w \in Workers : Detect(w)
  <2>1. PICK w \in Workers : Detect(w)
    BY <1>1
  <2>2. held[w].report = r \/ devs'[r] = devs[r]
    BY <2>1, BusyHolds DEF Detect, Running, TypeOK
  <2>3. held[w].report = r => "alert" \in devs[r] \/ r \in CutOff(w)'
    BY <2>1, BusyHolds DEF Detect, Running, TypeOK, CutOff
  <2> QED
    BY <2>2, <2>3
<1>2. ASSUME NEW s \in Reports, External(s) PROVE "alert" \in devs[r]
  BY <1>2 DEF External, Ingest, QueueParse, TriggerReanalysis, DeleteReport,
     tables, TypeOK
<1>3. ASSUME NEW w \in Workers, Work(w) \/ Crash(w), ~Detect(w)
      PROVE  "alert" \in devs[r]
  BY <1>3 DEF Work, Take, Ack, Raise, Retry, NotFound, SendTrend, SendDeviation,
     SendNotification, Notify, Crash, GiveUp, CommitLog, ParseStore,
     ParseReject, MarkFailed, Analyze, tables
<1>4. CASE UNCHANGED vars
  BY <1>4 DEF vars, tables
<1> QED
  BY <1>1, <1>2, <1>3, <1>4 DEF Next

\* A detection about to send its alert sends it, or is known to be cut off.
LEMMA CutOffCarries ==
    ASSUME PipelineAssumption, TypeOK, [Next]_vars, NEW r \in Reports,
           NEW w \in Workers, r \in CutOff(w)
    PROVE  r \in CutOff(w)' \/ Live("notify", r)' \/ r \in unsent'
<1>1. /\ pc[w] = "send" /\ held[w].task = "deviation" /\ held[w].report = r
      /\ held[w] \in Messages
  BY BusyHolds DEF CutOff, Running
<1>2. CASE SendNotification(w)
  BY <1>1, <1>2, FreshMessage, SendLive DEF SendNotification, Tasks
<1>3. CASE Raise(w) \/ Crash(w)
  BY <1>3 DEF Raise, Crash
<1>4. CASE UNCHANGED <<pc[w], held[w]>>
  BY <1>1, <1>4 DEF CutOff, Running
<1>5. ASSUME NEW v \in Workers, Work(v) \/ Crash(v),
             v # w \/ ~(SendNotification(w) \/ Raise(w) \/ Crash(w))
      PROVE  UNCHANGED <<pc[w], held[w]>>
  BY <1>1, <1>5 DEF Work, Take, Ack, Raise, Retry, NotFound, SendTrend,
     SendDeviation, SendNotification, Notify, Crash, GiveUp, CommitLog,
     ParseStore, ParseReject, MarkFailed, Analyze, Detect, Running, TypeOK
<1>6. ASSUME NEW s \in Reports, External(s) PROVE UNCHANGED <<pc[w], held[w]>>
  BY <1>6 DEF External, Ingest, QueueParse, TriggerReanalysis, DeleteReport, broker
<1>7. CASE UNCHANGED vars
  BY <1>4, <1>7 DEF vars, broker
<1> QED
  BY <1>2, <1>3, <1>4, <1>5, <1>6, <1>7 DEF Next

\* A recorded alert stays on its way after every step.
LEMMA NextHandedOn ==
    /\ PipelineAssumption /\ TypeOK /\ SendsAfterCommit /\ StageOrder'
    /\ AlertIsHandedOn /\ [Next]_vars
    => AlertIsHandedOn'
<1> SUFFICES ASSUME PipelineAssumption, TypeOK, SendsAfterCommit, StageOrder',
                    AlertIsHandedOn, [Next]_vars,
                    NEW r \in Reports, "alert" \in devs'[r],
                    \A w \in Workers : r \notin CutOff(w)'
             PROVE  \/ logged'[r] \/ Live("notify", r)'
                    \/ <<"notify", r>> \in gaveUp' \/ r \in unsent'
  BY DEF AlertIsHandedOn
<1>1. "alert" \in devs[r]
  BY AlertsEntered
<1>2. status'[r] # "deleted"
  BY DEF StageOrder, NoRow
<1>3. RowsKept(r) /\ LiveCarries("notify", r)
  BY RowsStay, LiveStep DEF Tasks
<1>4. CASE \E w \in Workers : r \in CutOff(w)
  BY <1>4, CutOffCarries
<1> QED
  BY <1>1, <1>2, <1>3, <1>4 DEF AlertIsHandedOn, RowsKept, LiveCarries

-----------------------------------------------------------------------------
(* The invariants of the pipeline *)

\* The inductive invariant: the invariants of interest and what they rest on.
IInv ==
    /\ TypeOK
    /\ SendsAfterCommit
    /\ MessagesJustified
    /\ NoStallAfterParse
    /\ NoStallAfterTrend
    /\ StageOrder
    /\ AlertIsHandedOn

\* The inductive invariant holds at the start.
LEMMA InitIInv == PipelineAssumption /\ Init => IInv
<1> SUFFICES ASSUME PipelineAssumption, Init PROVE IInv
  OBVIOUS
<1>1. NoStallAfterParse /\ NoStallAfterTrend /\ AlertIsHandedOn
  BY DEF Init, NoStallAfterParse, NoStallAfterTrend, AlertIsHandedOn
<1> QED
  BY <1>1, InitType, InitSends, InitOrder DEF IInv

\* Types, the justification of messages and sends, and the three safety
\* properties of the stages hold together in every reachable state: none of
\* them is inductive on its own.
THEOREM Inductive == Spec => []IInv
<1> USE PipelineAssumption
<1>1. Init => IInv
  BY InitIInv
<1>2. IInv /\ [Next]_vars => IInv'
  BY NextType, NextSends, NextJustified, NextNoStallAfterParse,
     NextNoStallAfterTrend, NextOrder, NextHandedOn DEF IInv
<1> QED
  BY <1>1, <1>2, PTL DEF Spec

\* A report that says it is parsed is carried on to its trend commit, and from
\* there to its deviation commit: after any crashes, retries, duplicates and
\* deletions a task of it is at the broker or at a worker, or a task of it
\* failed for good.
THEOREM NeverStalls == Spec => []NothingStalls
BY Inductive, PTL DEF IInv, NothingStalls

\* Trends, deviations, alerts and notification logs never exist without the
\* rows they are computed from, and nothing refers to a deleted report.
THEOREM StagesInOrder == Spec => []StageOrder
BY Inductive, PTL DEF IInv

\* A recorded alert is logged as announced, or is about to be sent, waits, runs,
\* failed for good, or was cut off between its commit and its message.
THEOREM AlertsHandedOn == Spec => []AlertIsHandedOn
BY Inductive, PTL DEF IInv

-----------------------------------------------------------------------------
(* Storing twice has a reason *)

\* The copies of parse messages of r at the broker, told apart by number.
Copies(r) ==
    UNION {{<<m, i>> : i \in 1..queue[m]} :
             m \in {n \in Messages : n.task = "parse" /\ n.report = r /\ queue[n] > 0}}

\* Workers with a parse task of r that has not come to its commit.
Parsing(r) == {w \in Workers : /\ pc[w] \in {"run", "mark", "retry"}
                               /\ held[w].task = "parse"
                               /\ held[w].report = r}

\* What the count rests on: only a notification task is about to commit a log,
\* so no parse task can come from there to its exception handler; and there is
\* something to count.
Countable ==
    /\ \A w \in Workers : pc[w] = "log" => held[w].task = "notify"
    /\ \A r \in Reports : IsFiniteSet(Copies(r)) /\ IsFiniteSet(Parsing(r))

\* The two sets are what PendingParses counts.
LEMMA PendingSplit ==
    ASSUME NEW r \in Reports
    PROVE  PendingParses(r) = Cardinality(Copies(r)) + Cardinality(Parsing(r))
BY DEF PendingParses, Copies, Parsing

\* A copy is a parse message of the report with a number up to their count.
LEMMA CopyIs ==
    ASSUME TypeOK, NEW r \in Reports, NEW c
    PROVE  c \in Copies(r) <=>
             \E m \in Messages : /\ m.task = "parse" /\ m.report = r
                                 /\ \E i \in 1..queue[m] : c = <<m, i>>
<1>1. \A m \in Messages : queue[m] \in Nat
  BY DEF TypeOK
<1>2. \A m \in Messages : 1..queue[m] # {} => queue[m] > 0
  BY <1>1
<1> QED
  BY <1>2 DEF Copies

\* A message sent is one copy more for the report of a parse message, and none
\* for any other.
LEMMA SendAdds ==
    ASSUME TypeOK, TypeOK', NEW m \in Messages, Send(m), NEW r \in Reports
    PROVE  /\ m.task = "parse" /\ m.report = r
                => /\ Copies(r)' = Copies(r) \union {<<m, queue[m] + 1>>}
                   /\ <<m, queue[m] + 1>> \notin Copies(r)
           /\ ~(m.task = "parse" /\ m.report = r) => Copies(r)' = Copies(r)
<1>1. /\ queue[m] \in Nat /\ queue'[m] = queue[m] + 1
      /\ \A n \in Messages : n # m => queue'[n] = queue[n]
  BY DEF TypeOK
<1>2. 1..(queue[m] + 1) = (1..queue[m]) \union {queue[m] + 1}
  BY <1>1
<1>3. ASSUME NEW c
      PROVE  c \in Copies(r)' <=>
               \E n \in Messages : /\ n.task = "parse" /\ n.report = r
                                   /\ \E i \in 1..queue'[n] : c = <<n, i>>
  <2>1. \A n \in Messages : queue'[n] \in Nat
    BY DEF TypeOK
  <2>2. \A n \in Messages : 1..queue'[n] # {} => queue'[n] > 0
    BY <2>1
  <2> QED
    BY <2>2 DEF Copies
<1>4. CASE m.task = "parse" /\ m.report = r
  <2>1. ASSUME NEW c PROVE c \in Copies(r)' <=> c \in Copies(r) \union {<<m, queue[m] + 1>>}
    BY <1>1, <1>2, <1>3, <1>4, CopyIs
  <2>2. <<m, queue[m] + 1>> \notin Copies(r)
    BY <1>1, CopyIs
  <2> QED
    BY <1>4, <2>1, <2>2
<1>5. CASE ~(m.task = "parse" /\ m.report = r)
  BY <1>1, <1>3, <1>5, CopyIs
<1> QED
  BY <1>4, <1>5

\* A message taken is one copy less.
LEMMA TakeRemoves ==
    ASSUME TypeOK, TypeOK', NEW m \in Messages, queue[m] > 0,
           queue' = [queue EXCEPT ![m] = @ - 1], NEW r \in Reports
    PROVE  /\ m.task = "parse" /\ m.report = r
                => /\ Copies(r)' = Copies(r) \ {<<m, queue[m]>>}
                   /\ <<m, queue[m]>> \in Copies(r)
           /\ ~(m.task = "parse" /\ m.report = r) => Copies(r)' = Copies(r)
<1>1. /\ queue[m] \in Nat /\ queue'[m] = queue[m] - 1
      /\ \A n \in Messages : n # m => queue'[n] = queue[n]
  BY DEF TypeOK
<1>2. /\ 1..(queue[m] - 1) = (1..queue[m]) \ {queue[m]}
      /\ queue[m] \in 1..queue[m]
  BY <1>1
<1>3. ASSUME NEW c
      PROVE  c \in Copies(r)' <=>
               \E n \in Messages : /\ n.task = "parse" /\ n.report = r
                                   /\ \E i \in 1..queue'[n] : c = <<n, i>>
  <2>1. \A n \in Messages : queue'[n] \in Nat
    BY DEF TypeOK
  <2>2. \A n \in Messages : 1..queue'[n] # {} => queue'[n] > 0
    BY <2>1
  <2> QED
    BY <2>2 DEF Copies
<1>4. CASE m.task = "parse" /\ m.report = r
  <2>1. ASSUME NEW c PROVE c \in Copies(r)' <=> c \in Copies(r) \ {<<m, queue[m]>>}
    BY <1>1, <1>2, <1>3, <1>4, CopyIs
  <2>2. <<m, queue[m]>> \in Copies(r)
    BY <1>2, <1>4, CopyIs
  <2> QED
    BY <1>4, <2>1, <2>2
<1>5. CASE ~(m.task = "parse" /\ m.report = r)
  <2>1. ASSUME NEW c PROVE c \in Copies(r)' <=> c \in Copies(r)
    BY <1>1, <1>3, <1>5, CopyIs
  <2> QED
    BY <1>5, <2>1
<1> QED
  BY <1>4, <1>5


\* A set that gains or loses one element stays finite, and its size follows.
LEMMA OneMore ==
    ASSUME NEW S, IsFiniteSet(S), NEW x, x \notin S
    PROVE  /\ IsFiniteSet(S \union {x})
           /\ Cardinality(S) \in Nat
           /\ Cardinality(S \union {x}) = Cardinality(S) + 1
BY FS_AddElement, FS_CardinalityType

LEMMA OneLess ==
    ASSUME NEW S, IsFiniteSet(S), NEW x, x \in S
    PROVE  /\ IsFiniteSet(S \ {x})
           /\ Cardinality(S) \in Nat
           /\ Cardinality(S \ {x}) \in Nat
           /\ Cardinality(S \ {x}) = Cardinality(S) - 1
BY FS_RemoveElement, FS_CardinalityType

\* The sizes of both sets, after a send, a take and a step of one worker.
One(b) == IF b THEN 1 ELSE 0

IsParse(m, r) == m.task = "parse" /\ m.report = r

LEMMA CopiesSent ==
    ASSUME TypeOK, TypeOK', NEW m \in Messages, Send(m), NEW r \in Reports,
           IsFiniteSet(Copies(r))
    PROVE  /\ IsFiniteSet(Copies(r)')
           /\ Cardinality(Copies(r)) \in Nat
           /\ Cardinality(Copies(r)') = Cardinality(Copies(r)) + One(IsParse(m, r))
<1>1. CASE IsParse(m, r)
  <2>1. /\ Copies(r)' = Copies(r) \union {<<m, queue[m] + 1>>}
        /\ <<m, queue[m] + 1>> \notin Copies(r)
    BY <1>1, SendAdds DEF IsParse
  <2> QED
    BY <1>1, <2>1, OneMore DEF One
<1>2. CASE ~IsParse(m, r)
  <2>1. Copies(r)' = Copies(r)
    BY <1>2, SendAdds DEF IsParse
  <2> QED
    BY <1>2, <2>1, FS_CardinalityType DEF One
<1> QED
  BY <1>1, <1>2

LEMMA CopiesTaken ==
    ASSUME TypeOK, TypeOK', NEW m \in Messages, queue[m] > 0,
           queue' = [queue EXCEPT ![m] = @ - 1], NEW r \in Reports,
           IsFiniteSet(Copies(r))
    PROVE  /\ IsFiniteSet(Copies(r)')
           /\ Cardinality(Copies(r)') \in Nat
           /\ Cardinality(Copies(r)) = Cardinality(Copies(r)') + One(IsParse(m, r))
<1>1. CASE IsParse(m, r)
  <2>1. /\ Copies(r)' = Copies(r) \ {<<m, queue[m]>>}
        /\ <<m, queue[m]>> \in Copies(r)
    BY <1>1, TakeRemoves DEF IsParse
  <2>2. /\ IsFiniteSet(Copies(r)')
        /\ Cardinality(Copies(r)) \in Nat
        /\ Cardinality(Copies(r)') \in Nat
        /\ Cardinality(Copies(r)') = Cardinality(Copies(r)) - 1
    BY <2>1, OneLess
  <2> QED
    BY <1>1, <2>2 DEF One
<1>2. CASE ~IsParse(m, r)
  <2>1. Copies(r)' = Copies(r)
    BY <1>2, TakeRemoves DEF IsParse
  <2> QED
    BY <1>2, <2>1, FS_CardinalityType DEF One
<1> QED
  BY <1>1, <1>2

LEMMA WorkerMoved ==
    ASSUME NEW w \in Workers, NEW r \in Reports, IsFiniteSet(Parsing(r)),
           \A v \in Workers \ {w} : pc'[v] = pc[v] /\ held'[v] = held[v]
    PROVE  /\ IsFiniteSet(Parsing(r)')
           /\ Cardinality(Parsing(r)) \in Nat
           /\ Cardinality(Parsing(r)') \in Nat
           /\ Cardinality(Parsing(r)') + One(w \in Parsing(r))
                = Cardinality(Parsing(r)) + One(w \in Parsing(r)')
<1>1. \A v \in Workers \ {w} : v \in Parsing(r)' <=> v \in Parsing(r)
  BY DEF Parsing
<1>2. Parsing(r) \subseteq Workers /\ Parsing(r)' \subseteq Workers
  BY DEF Parsing
<1>3. CASE w \in Parsing(r) <=> w \in Parsing(r)'
  <2>1. Parsing(r)' = Parsing(r)
    BY <1>1, <1>2, <1>3
  <2> QED
    BY <2>1, FS_CardinalityType DEF One
<1>4. CASE w \in Parsing(r) /\ w \notin Parsing(r)'
  <2>1. Parsing(r)' = Parsing(r) \ {w}
    BY <1>1, <1>2, <1>4
  <2> QED
    BY <1>4, <2>1, OneLess DEF One
<1>5. CASE w \notin Parsing(r) /\ w \in Parsing(r)'
  <2>1. Parsing(r)' = Parsing(r) \union {w}
    BY <1>1, <1>2, <1>5
  <2>2. /\ IsFiniteSet(Parsing(r)')
        /\ Cardinality(Parsing(r)) \in Nat
        /\ Cardinality(Parsing(r)') = Cardinality(Parsing(r)) + 1
    BY <1>5, <2>1, OneMore
  <2> QED
    BY <1>5, <2>2 DEF One
<1> QED
  BY <1>3, <1>4, <1>5

\* At the start nothing waits, so there is nothing to pay for.
LEMMA InitPaid ==
    PipelineAssumption /\ Init => Countable /\ StoredOnlyForAReason
<1> SUFFICES ASSUME PipelineAssumption, Init
             PROVE  Countable /\ StoredOnlyForAReason
  OBVIOUS
<1>1. \A w \in Workers : pc[w] = "idle"
  BY DEF Init
<1>2. \A m \in Messages : ~(queue[m] > 0)
  BY DEF Init
<1>3. ASSUME NEW r \in Reports
      PROVE  /\ Copies(r) = {} /\ Parsing(r) = {}
             /\ points[r] + PendingParses(r) <= excuses[r]
  <2>1. Copies(r) = {}
    BY <1>2 DEF Copies
  <2>2. Parsing(r) = {}
    BY <1>1 DEF Parsing
  <2>3. points[r] = 0 /\ excuses[r] = 0
    BY DEF Init
  <2>4. Cardinality(Copies(r)) = 0 /\ Cardinality(Parsing(r)) = 0
    BY <2>1, <2>2, FS_EmptySet
  <2>5. PendingParses(r) = 0
    BY <2>4, PendingSplit
  <2> QED
    BY <2>1, <2>2, <2>3, <2>5
<1> QED
  BY <1>1, <1>3, FS_EmptySet DEF Countable, StoredOnlyForAReason

\* The balance of one report after a step: its sets are finite, and what was
\* stored and what may yet be stored is paid for.
Paid(r) ==
    /\ IsFiniteSet(Copies(r)) /\ IsFiniteSet(Parsing(r))
    /\ points[r] + PendingParses(r) <= excuses[r]

LEMMA PaidAfter ==
    ASSUME NEW r \in Reports,
           IsFiniteSet(Copies(r)'), IsFiniteSet(Parsing(r)'),
           points'[r] + (Cardinality(Copies(r)') + Cardinality(Parsing(r)'))
             <= excuses'[r]
    PROVE  Paid(r)'
<1>1. PendingParses(r)' = Cardinality(Copies(r)') + Cardinality(Parsing(r)')
  BY DEF PendingParses, Copies, Parsing
<1> QED
  BY <1>1 DEF Paid

\* A step outside the workers changes the balance of its report only, by a
\* message it sends and its excuse, or by rows that go.
LEMMA ExternalPaid ==
    ASSUME PipelineAssumption, TypeOK, TypeOK', NEW q \in Reports, External(q),
           NEW r \in Reports, Paid(r)
    PROVE  Paid(r)'
<1>1. /\ points[r] \in Nat /\ excuses[r] \in Nat
      /\ Cardinality(Copies(r)) \in Nat /\ Cardinality(Parsing(r)) \in Nat
  BY FS_CardinalityType DEF TypeOK, Paid
<1>2. points[r] + (Cardinality(Copies(r)) + Cardinality(Parsing(r))) <= excuses[r]
  BY PendingSplit DEF Paid
<1>3. Parsing(r)' = Parsing(r)
  BY DEF External, Ingest, QueueParse, TriggerReanalysis, DeleteReport, broker,
         Parsing
<1>4. CASE Ingest(q) \/ DeleteReport(q)
  <2>1. Copies(r)' = Copies(r)
    BY <1>4 DEF Ingest, DeleteReport, broker, Copies
  <2>2. points'[r] <= points[r] /\ points'[r] \in Nat /\ excuses'[r] = excuses[r]
    BY <1>1, <1>4 DEF Ingest, DeleteReport, history, TypeOK
  <2>3. points'[r] + (Cardinality(Copies(r)) + Cardinality(Parsing(r))) <= excuses'[r]
    BY <1>1, <1>2, <2>2
  <2> QED
    BY <1>3, <2>1, <2>3, PaidAfter DEF Paid
<1>5. CASE QueueParse(q)
  <2> DEFINE m == Message("parse", q)
  <2>1. m \in Messages /\ Send(m)
    BY <1>5, FreshMessage DEF QueueParse, Tasks
  <2>2. IsParse(m, r) <=> q = r
    BY DEF IsParse
  <2> HIDE DEF m
  <2>3. /\ IsFiniteSet(Copies(r)')
        /\ Cardinality(Copies(r)') = Cardinality(Copies(r)) + One(IsParse(m, r))
    BY <2>1, CopiesSent DEF Paid
  <2>4. points'[r] = points[r] /\ excuses'[r] = excuses[r] + One(q = r)
    BY <1>1, <1>5 DEF QueueParse, tables, One, TypeOK
  <2>5. One(IsParse(m, r)) = One(q = r) /\ One(q = r) \in Nat
    BY <2>2 DEF One
  <2>6. points'[r] + (Cardinality(Copies(r)') + Cardinality(Parsing(r))) <= excuses'[r]
    BY <1>1, <1>2, <2>3, <2>4, <2>5
  <2> QED
    BY <1>3, <2>3, <2>6, PaidAfter DEF Paid
<1>6. CASE TriggerReanalysis(q)
  <2> DEFINE m == Message("trend", q)
  <2>1. m \in Messages /\ Send(m)
    BY <1>6, FreshMessage DEF TriggerReanalysis, Tasks
  <2>2. ~IsParse(m, r)
    BY DEF IsParse
  <2> HIDE DEF m
  <2>3. Copies(r)' = Copies(r)
    BY <2>1, <2>2, SendAdds DEF IsParse
  <2>4. points'[r] = points[r] /\ excuses'[r] = excuses[r]
    BY <1>6 DEF TriggerReanalysis, tables, history
  <2> QED
    BY <1>2, <1>3, <2>3, <2>4, PaidAfter DEF Paid
<1> QED
  BY <1>4, <1>5, <1>6 DEF External

\* Taking a message moves it from the copies to the running tasks.
LEMMA TakePaid ==
    ASSUME TypeOK, TypeOK', NEW w \in Workers, NEW m \in Messages, Take(w, m),
           NEW r \in Reports, Paid(r)
    PROVE  Paid(r)'
<1>1. /\ points[r] \in Nat /\ excuses[r] \in Nat
      /\ points[r] + (Cardinality(Copies(r)) + Cardinality(Parsing(r))) <= excuses[r]
  BY PendingSplit DEF TypeOK, Paid
<1>2. /\ IsFiniteSet(Copies(r)')
      /\ Cardinality(Copies(r)') \in Nat
      /\ Cardinality(Copies(r)) = Cardinality(Copies(r)') + One(IsParse(m, r))
  BY CopiesTaken DEF Take, Paid
<1>3. /\ IsFiniteSet(Parsing(r)')
      /\ Cardinality(Parsing(r)) \in Nat
      /\ Cardinality(Parsing(r)') \in Nat
      /\ Cardinality(Parsing(r)') + One(w \in Parsing(r))
           = Cardinality(Parsing(r)) + One(w \in Parsing(r)')
  BY WorkerMoved DEF Take, Paid, TypeOK
<1>4. /\ w \notin Parsing(r)
      /\ w \in Parsing(r)' <=> IsParse(m, r)
  BY DEF Take, Parsing, IsParse, TypeOK
<1>5. points'[r] = points[r] /\ excuses'[r] = excuses[r]
  BY DEF Take, tables, history
<1>6. points'[r] + (Cardinality(Copies(r)') + Cardinality(Parsing(r)')) <= excuses'[r]
  BY <1>1, <1>2, <1>3, <1>4, <1>5 DEF One
<1> QED
  BY <1>2, <1>3, <1>6, PaidAfter

\* A step of one worker keeps the balance when what it adds, rows, a copy or
\* its own task, is covered by what it gives up or by a new excuse.
LEMMA WorkerPays ==
    ASSUME TypeOK, TypeOK', NEW w \in Workers, NEW r \in Reports, Paid(r),
           \A v \in Workers \ {w} : pc'[v] = pc[v] /\ held'[v] = held[v],
           NEW c \in Nat, IsFiniteSet(Copies(r)'),
           Cardinality(Copies(r)') = Cardinality(Copies(r)) + c,
           points'[r] + excuses[r] + One(w \in Parsing(r)') + c
             <= points[r] + excuses'[r] + One(w \in Parsing(r))
    PROVE  Paid(r)'
<1>1. /\ points[r] \in Nat /\ excuses[r] \in Nat
      /\ points'[r] \in Nat /\ excuses'[r] \in Nat
      /\ Cardinality(Copies(r)) \in Nat
  BY FS_CardinalityType DEF TypeOK, Paid
<1>2. points[r] + (Cardinality(Copies(r)) + Cardinality(Parsing(r))) <= excuses[r]
  BY PendingSplit DEF Paid
<1>3. /\ IsFiniteSet(Parsing(r)')
      /\ Cardinality(Parsing(r)) \in Nat
      /\ Cardinality(Parsing(r)') \in Nat
      /\ Cardinality(Parsing(r)') + One(w \in Parsing(r))
           = Cardinality(Parsing(r)) + One(w \in Parsing(r)')
  BY WorkerMoved DEF Paid
<1>4. One(w \in Parsing(r)) \in Nat /\ One(w \in Parsing(r)') \in Nat
  BY DEF One
<1>5. points'[r] + (Cardinality(Copies(r)') + Cardinality(Parsing(r)')) <= excuses'[r]
  BY <1>1, <1>2, <1>3, <1>4
<1> QED
  BY <1>3, <1>5, PaidAfter

\* The same when the broker holds the same parse messages as before.
LEMMA WorkerPaysAlone ==
    ASSUME TypeOK, TypeOK', NEW w \in Workers, NEW r \in Reports, Paid(r),
           \A v \in Workers \ {w} : pc'[v] = pc[v] /\ held'[v] = held[v],
           Copies(r)' = Copies(r),
           points'[r] + excuses[r] + One(w \in Parsing(r)')
             <= points[r] + excuses'[r] + One(w \in Parsing(r))
    PROVE  Paid(r)'
<1>1. IsFiniteSet(Copies(r)') /\ Cardinality(Copies(r)) \in Nat
  BY FS_CardinalityType DEF Paid
<1>2. Cardinality(Copies(r)') = Cardinality(Copies(r)) + 0
  BY <1>1
<1>3. One(w \in Parsing(r)') \in Nat /\ points'[r] \in Nat /\ excuses[r] \in Nat
  BY DEF One, TypeOK
<1>4. points'[r] + excuses[r] + One(w \in Parsing(r)') + 0
        <= points[r] + excuses'[r] + One(w \in Parsing(r))
  BY <1>3
<1> QED
  BY <1>1, <1>2, <1>4, WorkerPays

\* A step of a busy worker keeps the balance of every report.
LEMMA WorkPaid ==
    ASSUME PipelineAssumption, TypeOK, TypeOK', NEW w \in Workers,
           pc[w] # "idle", Work(w) \/ Crash(w),
           pc[w] = "log" => held[w].task = "notify",
           NEW r \in Reports, Paid(r)
    PROVE  Paid(r)'
<1>1. /\ held[w] \in Messages /\ held[w].task \in Tasks
      /\ held[w].report \in Reports /\ held[w].retries \in 0..RetryCap
  BY BusyHolds
<1>2. /\ points[r] \in Nat /\ excuses[r] \in Nat
      /\ points'[r] \in Nat /\ excuses'[r] \in Nat
  BY DEF TypeOK
<1>3. /\ One(w \in Parsing(r)) = IF w \in Parsing(r) THEN 1 ELSE 0
      /\ One(w \in Parsing(r)') = IF w \in Parsing(r)' THEN 1 ELSE 0
  BY DEF One
<1>4. w \in Parsing(r) <=> /\ pc[w] \in {"run", "mark", "retry"}
                           /\ held[w].task = "parse" /\ held[w].report = r
  BY DEF Parsing
<1>5. w \in Parsing(r)' <=> /\ pc'[w] \in {"run", "mark", "retry"}
                            /\ held'[w].task = "parse" /\ held'[w].report = r
  BY DEF Parsing
<1>6. \A v \in Workers \ {w} : pc'[v] = pc[v] /\ held'[v] = held[v]
  BY DEF Work, Take, Ack, Raise, Retry, GiveUp, NotFound, ParseStore,
     ParseReject, SendTrend, MarkFailed, Analyze, SendDeviation, Detect,
     SendNotification, Notify, CommitLog, Crash, TypeOK
<1>7. CASE Ack(w) \/ NotFound(w) \/ ParseReject(w) \/ GiveUp(w) \/ MarkFailed(w)
           \/ Analyze(w) \/ Detect(w) \/ Notify(w) \/ CommitLog(w)
  <2>1. Copies(r)' = Copies(r)
    BY <1>7 DEF Copies, Ack, NotFound, ParseReject, GiveUp, MarkFailed, Analyze,
       Detect, Notify, CommitLog
  <2>2. points'[r] = points[r] /\ excuses'[r] = excuses[r]
    BY <1>7 DEF Ack, NotFound, ParseReject, GiveUp, MarkFailed, Analyze, Detect,
       Notify, CommitLog, tables, history
  <2>3. w \in Parsing(r)' => w \in Parsing(r)
    BY <1>4, <1>5, <1>7 DEF Ack, NotFound, ParseReject, GiveUp, MarkFailed, Analyze,
       Detect, Notify, CommitLog, Running, TypeOK
  <2> QED
    BY <1>2, <1>3, <1>6, <2>1, <2>2, <2>3, WorkerPaysAlone
<1>8. CASE Raise(w)
  <2>1. Copies(r)' = Copies(r)
    BY <1>8 DEF Copies, Raise
  <2>2. /\ points'[r] = points[r]
        /\ held'[w] = held[w]
        /\ pc'[w] = Handler(held[w].task)
        /\ pc[w] \in {"run", "send", "log"}
    BY <1>8 DEF Raise, tables, TypeOK
  <2>3. excuses'[r] >= excuses[r]
    BY <1>1, <1>2, <1>8 DEF Raise, TypeOK
  <2>4. CASE held[w].task = "parse" /\ held[w].report = r /\ pc[w] = "send"
    <3>1. excuses'[r] = excuses[r] + 1
      BY <1>1, <1>8, <2>4 DEF Raise, TypeOK
    <3> QED
      BY <1>2, <1>3, <1>6, <2>1, <2>2, <3>1, WorkerPaysAlone
  <2>5. CASE ~(held[w].task = "parse" /\ held[w].report = r /\ pc[w] = "send")
    <3>1. w \in Parsing(r)' => w \in Parsing(r)
      BY <1>4, <1>5, <2>2, <2>5
    <3> QED
      BY <1>2, <1>3, <1>6, <2>1, <2>2, <2>3, <3>1, WorkerPaysAlone
  <2> QED
    BY <2>4, <2>5
<1>9. CASE ParseStore(w)
  <2>1. Copies(r)' = Copies(r)
    BY <1>9 DEF Copies, ParseStore
  <2>2. /\ excuses'[r] = excuses[r]
        /\ w \notin Parsing(r)'
        /\ pc[w] = "run" /\ held[w].task = "parse"
    BY <1>5, <1>9 DEF ParseStore, history, Running, TypeOK
  <2>3. points'[r] = IF held[w].report = r THEN points[r] + 1 ELSE points[r]
    BY <1>9 DEF ParseStore, TypeOK
  <2> QED
    BY <1>2, <1>3, <1>4, <1>6, <2>1, <2>2, <2>3, WorkerPaysAlone
<1>10. CASE SendTrend(w) \/ SendDeviation(w) \/ SendNotification(w)
  <2>1. PICK t \in {"trend", "deviation", "notify"} : Send(Message(t, held[w].report))
    BY <1>10 DEF SendTrend, SendDeviation, SendNotification
  <2> DEFINE m == Message(t, held[w].report)
  <2>2. m \in Messages /\ Send(m) /\ m.task # "parse"
    BY <1>1, <2>1, FreshMessage DEF Tasks
  <2> HIDE DEF m
  <2>3. Copies(r)' = Copies(r)
    BY <2>2, SendAdds
  <2>4. points'[r] = points[r] /\ excuses'[r] = excuses[r]
    BY <1>10 DEF SendTrend, SendDeviation, SendNotification, tables, history
  <2>5. w \notin Parsing(r)'
    BY <1>5, <1>10 DEF SendTrend, SendDeviation, SendNotification, TypeOK
  <2> QED
    BY <1>2, <1>3, <1>6, <2>3, <2>4, <2>5, WorkerPaysAlone
<1>11. CASE Retry(w)
  <2> DEFINE m == [held[w] EXCEPT !.retries = @ + 1]
  <2>1. m \in Messages /\ m.task = held[w].task /\ m.report = held[w].report
    BY <1>1, <1>11 DEF Retry, Messages, PipelineAssumption
  <2>2. Send(m)
    BY <1>11 DEF Retry
  <2> HIDE DEF m
  <2>3. /\ IsFiniteSet(Copies(r)')
        /\ Cardinality(Copies(r)') = Cardinality(Copies(r)) + One(IsParse(m, r))
    BY <2>1, <2>2, CopiesSent DEF Paid
  <2>4. points'[r] = points[r] /\ excuses'[r] = excuses[r]
    BY <1>11 DEF Retry, tables, history
  <2>5. /\ w \notin Parsing(r)'
        /\ IsParse(m, r) <=> w \in Parsing(r)
    BY <1>4, <1>5, <1>11, <2>1 DEF Retry, TypeOK, IsParse
  <2>6. /\ One(IsParse(m, r)) \in Nat
        /\ One(IsParse(m, r)) = One(w \in Parsing(r))
        /\ One(w \in Parsing(r)') = 0
    BY <2>5 DEF One
  <2>7. points'[r] + excuses[r] + One(w \in Parsing(r)') + One(IsParse(m, r))
          <= points[r] + excuses'[r] + One(w \in Parsing(r))
    BY <1>2, <2>4, <2>6
  <2> QED
    BY <1>6, <2>3, <2>6, <2>7, WorkerPays
<1>12. CASE Crash(w)
  <2> DEFINE m == held[w]
  <2>1. m \in Messages /\ Send(m)
    BY <1>1, <1>12 DEF Crash
  <2> HIDE DEF m
  <2>2. /\ IsFiniteSet(Copies(r)')
        /\ Cardinality(Copies(r)') = Cardinality(Copies(r)) + One(IsParse(m, r))
    BY <2>1, CopiesSent DEF Paid
  <2>3. points'[r] = points[r] /\ w \notin Parsing(r)'
    BY <1>5, <1>12 DEF Crash, tables, TypeOK
  <2>4. excuses'[r] = excuses[r] + (IF m.task = "parse" /\ m.report = r
                                       /\ pc[w] \in {"send", "done"}
                                    THEN 1 ELSE 0)
    BY <1>1, <1>2, <1>12 DEF Crash, TypeOK, m
  <2>5. IsParse(m, r) => w \in Parsing(r) \/ pc[w] \in {"send", "done"}
    <3>1. pc[w] \in {"run", "send", "mark", "retry", "log", "done"}
      BY <1>12 DEF Crash, TypeOK, Steps
    <3> QED
      BY <1>4, <3>1 DEF IsParse, m
  <2>6. /\ One(IsParse(m, r)) \in Nat
        /\ One(IsParse(m, r)) = IF IsParse(m, r) THEN 1 ELSE 0
    BY DEF One
  <2>7. w \in Parsing(r) => pc[w] \notin {"send", "done"}
    BY <1>4
  <2>8. points'[r] + excuses[r] + One(w \in Parsing(r)') + One(IsParse(m, r))
          <= points[r] + excuses'[r] + One(w \in Parsing(r))
    BY <1>2, <1>3, <2>3, <2>4, <2>5, <2>6, <2>7 DEF IsParse
  <2> QED
    BY <1>6, <2>2, <2>6, <2>8, WorkerPays
<1> QED
  <2>1. ~ \E m \in Messages : Take(w, m)
    BY DEF Take
  <2> QED
    BY <1>7, <1>8, <1>9, <1>10, <1>11, <1>12, <2>1 DEF Work

\* Every step keeps the balance of every report, and keeps the log commit to
\* notification tasks.
LEMMA NextPaid ==
    ASSUME PipelineAssumption, TypeOK, TypeOK', Countable, StoredOnlyForAReason,
           [Next]_vars
    PROVE  Countable' /\ StoredOnlyForAReason'
<1>1. \A r \in Reports : Paid(r)
  BY DEF Countable, StoredOnlyForAReason, Paid
<1>2. \A w \in Workers : (pc[w] = "log" => held[w].task = "notify")'
  <2>1. CASE \E r \in Reports : External(r)
    BY <2>1 DEF Countable, External, Ingest, QueueParse, TriggerReanalysis,
       DeleteReport, broker
  <2>2. CASE \E w \in Workers : Work(w) \/ Crash(w)
    <3> SUFFICES ASSUME NEW v \in Workers, Work(v) \/ Crash(v), NEW w \in Workers
                 PROVE  (pc[w] = "log" => held[w].task = "notify")'
      BY <2>2
    <3>1. CASE Notify(v)
      BY <3>1 DEF Countable, Notify, Running, TypeOK
    <3>2. CASE ~Notify(v)
      BY <3>2 DEF Countable, TypeOK, Work, Take, Ack, Raise, Retry, GiveUp,
         NotFound, ParseStore, ParseReject, SendTrend, MarkFailed, Analyze,
         SendDeviation, Detect, SendNotification, CommitLog, Crash
    <3> QED
      BY <3>1, <3>2
  <2>3. CASE UNCHANGED vars
    BY <2>3 DEF vars, broker, Countable
  <2> QED
    BY <2>1, <2>2, <2>3 DEF Next
<1>3. ASSUME NEW r \in Reports PROVE Paid(r)'
  <2>1. CASE \E q \in Reports : External(q)
    BY <1>1, <2>1, ExternalPaid
  <2>2. CASE \E w \in Workers : Work(w) \/ Crash(w)
    <3>1. PICK w \in Workers : Work(w) \/ Crash(w)
      BY <2>2
    <3>2. CASE pc[w] = "idle"
      <4>1. \E m \in Messages : Take(w, m)
        BY <3>1, <3>2 DEF Work, Ack, Raise, Retry, GiveUp, NotFound, ParseStore,
           ParseReject, SendTrend, MarkFailed, Analyze, SendDeviation, Detect,
           SendNotification, Notify, CommitLog, Crash, Running
      <4> QED
        BY <1>1, <4>1, TakePaid
    <3>3. CASE pc[w] # "idle"
      <4>1. pc[w] = "log" => held[w].task = "notify"
        BY DEF Countable
      <4> QED
        BY <1>1, <3>1, <3>3, <4>1, WorkPaid
    <3> QED
      BY <3>2, <3>3
  <2>3. CASE UNCHANGED vars
    <3>1. Copies(r)' = Copies(r)
      BY <2>3 DEF vars, broker, Copies
    <3>2. Parsing(r)' = Parsing(r)
      BY <2>3 DEF vars, broker, Parsing
    <3>3. points'[r] = points[r] /\ excuses'[r] = excuses[r]
      BY <2>3 DEF vars, tables, history
    <3>4. points[r] + (Cardinality(Copies(r)) + Cardinality(Parsing(r))) <= excuses[r]
      BY <1>1, PendingSplit DEF Paid
    <3> QED
      BY <1>1, <3>1, <3>2, <3>3, <3>4, PaidAfter DEF Paid
  <2> QED
    BY <2>1, <2>2, <2>3 DEF Next
<1> QED
  BY <1>2, <1>3 DEF Paid, Countable, StoredOnlyForAReason

\* No failure, retry or redelivery before the parse commit ever stores the rows
\* of a report twice: whatever the number of workers and crashes, each storing
\* is paid for by a message from outside or a fault after the commit.
THEOREM StoringHasAReason == Spec => []StoredOnlyForAReason
<1> USE PipelineAssumption
<1>1. Init => Countable /\ StoredOnlyForAReason
  BY InitPaid
<1>2. TypeOK /\ TypeOK' /\ Countable /\ StoredOnlyForAReason /\ [Next]_vars
        => Countable' /\ StoredOnlyForAReason'
  BY NextPaid
<1> QED
  BY <1>1, <1>2, TypeCorrect, PTL DEF Spec

-----------------------------------------------------------------------------
(* The pipeline implements the lifecycle of a report *)

\* The tables that the lifecycle shows, and alerted, which is no table.
rows == <<status, points, trend, detected, devs, alerted, logged>>

\* The refinement mapping's image of queue, held and pc.
DueTasks == [r \in Reports |-> {t \in Tasks : Live(t, r)}]

\* Nothing is due at the start, and no row is there.
LEMMA InitLifecycle == PipelineAssumption /\ Init => Lifecycle!Init
<1> SUFFICES ASSUME PipelineAssumption, Init PROVE Lifecycle!Init
  OBVIOUS
<1>1. \A t \in Tasks, r \in Reports : ~Live(t, r)
  BY DEF Init, Live
<1>2. [r \in Reports |-> {t \in Tasks : Live(t, r)}] = [r \in Reports |-> {}]
  BY <1>1
<1>3. {r \in Reports : points[r] > 0} = {} /\ {r \in Reports : "alert" \in devs[r]} = {}
  BY DEF Init
<1> QED
  BY <1>2, <1>3 DEF Init, Lifecycle!Init

\* A worker that goes on within its task changes nothing that is due.
LEMMA GoesOn ==
    ASSUME TypeOK, NEW w \in Workers, UNCHANGED <<queue, held>>,
           pc[w] \notin {"idle", "done"}, NEW s \in Steps \ {"idle", "done"},
           pc' = [pc EXCEPT ![w] = s]
    PROVE  DueTasks' = DueTasks
<1>1. \A t \in Tasks, r \in Reports : Live(t, r)' <=> Live(t, r)
  BY DEF Live, TypeOK
<1> QED
  BY <1>1 DEF DueTasks

\* A worker that ends its task ends no other: the task is over, or another copy
\* of its message is still to run.
LEMMA Ends ==
    ASSUME TypeOK, NEW w \in Workers, UNCHANGED <<queue, held>>,
           pc[w] \notin {"idle", "done"}, pc' = [pc EXCEPT ![w] = "done"]
    PROVE  Lifecycle!Over(held[w].report, held[w].task)
<1> DEFINE r == held[w].report
           t == held[w].task
<1>1. r \in Reports /\ t \in Tasks
  BY BusyHolds DEF Steps
<1>2. \A u \in Tasks, x \in Reports : x # r \/ u # t => (Live(u, x)' <=> Live(u, x))
  BY DEF Live, TypeOK
<1>3. Live(t, r)
  BY DEF Live
<1>4. CASE Live(t, r)'
  <2>1. DueTasks' = [DueTasks EXCEPT ![r] = DueTasks[r]]
    BY <1>1, <1>2, <1>3, <1>4 DEF DueTasks
  <2> QED
    BY <1>1, <2>1 DEF DueTasks, Lifecycle!Over
<1>5. CASE ~Live(t, r)'
  <2>1. DueTasks' = [DueTasks EXCEPT ![r] = DueTasks[r] \ {t}]
    BY <1>1, <1>2, <1>3, <1>5 DEF DueTasks
  <2> QED
    BY <1>1, <2>1 DEF DueTasks, Lifecycle!Over
<1> QED
  BY <1>4, <1>5

\* A message makes its task due, and nothing else.
LEMMA Asks ==
    ASSUME TypeOK, NEW m \in Messages, Send(m), UNCHANGED <<held, pc>>
    PROVE  DueTasks' = [DueTasks EXCEPT ![m.report] = @ \union {m.task}]
<1>1. m.report \in Reports /\ m.task \in Tasks
  BY DEF Messages
<1>2. \A u \in Tasks, x \in Reports :
        Live(u, x)' <=> Live(u, x) \/ (u = m.task /\ x = m.report)
  BY DEF Live, TypeOK
<1>3. /\ \A x \in Reports \ {m.report} :
            {u \in Tasks : Live(u, x)'} = {u \in Tasks : Live(u, x)}
      /\ {u \in Tasks : Live(u, m.report)'} =
             {u \in Tasks : Live(u, m.report)} \union {m.task}
  BY <1>1, <1>2
<1> QED
  BY <1>1, <1>3 DEF DueTasks

\* A lost worker's message makes its task due, if it was not due still.
LEMMA Redelivers ==
    ASSUME TypeOK, NEW w \in Workers, Crash(w), NEW r, NEW t,
           held[w].report = r, held[w].task = t
    PROVE  DueTasks' = [DueTasks EXCEPT ![r] = @ \union {t}]
<1>1. held[w] \in Messages /\ r \in Reports /\ t \in Tasks /\ pc[w] # "idle"
  BY BusyHolds DEF Crash
<1>2. \A u \in Tasks, x \in Reports :
        Live(u, x)' <=> Live(u, x) \/ (u = t /\ x = r)
  BY <1>1 DEF Live, TypeOK, Crash
<1>3. /\ \A x \in Reports \ {r} :
            {u \in Tasks : Live(u, x)'} = {u \in Tasks : Live(u, x)}
      /\ {u \in Tasks : Live(u, r)'} = {u \in Tasks : Live(u, r)} \union {t}
  BY <1>1, <1>2
<1> QED
  BY <1>1, <1>3 DEF DueTasks

\* Task u of r falls due and task t of r ends, unless another copy of it is due.
HandedOn(r, t, u) ==
    \E d \in {DueTasks[r], DueTasks[r] \ {t}} :
        DueTasks' = [DueTasks EXCEPT ![r] = d \union {u}]

\* A worker that sends the next message and ends: the next task is due, and its
\* own is over unless another copy of it is still to run.
LEMMA SendsOn ==
    ASSUME TypeOK, NEW w \in Workers, NEW m \in Messages, Send(m), UNCHANGED held,
           pc[w] \notin {"idle", "done"}, pc' = [pc EXCEPT ![w] = "done"],
           NEW r, NEW t, NEW u,
           held[w].report = r, held[w].task = t, m.report = r, m.task = u
    PROVE  HandedOn(r, t, u)
<1> USE DEF HandedOn
<1>1. r \in Reports /\ t \in Tasks /\ u \in Tasks
  BY BusyHolds DEF Messages
<1>2. /\ \A v \in Tasks, x \in Reports :
            x # r \/ v \notin {t, u} => (Live(v, x)' <=> Live(v, x))
      /\ Live(t, r) /\ Live(u, r)'
  BY <1>1 DEF Live, TypeOK
<1>3. CASE Live(t, r)'
  <2>1. DueTasks' = [DueTasks EXCEPT ![r] = DueTasks[r] \union {u}]
    BY <1>1, <1>2, <1>3 DEF DueTasks
  <2> QED
    BY <2>1
<1>4. CASE ~Live(t, r)'
  <2>1. DueTasks' = [DueTasks EXCEPT ![r] = (DueTasks[r] \ {t}) \union {u}]
    BY <1>1, <1>2, <1>4 DEF DueTasks
  <2> QED
    BY <2>1
<1> QED
  BY <1>3, <1>4

\* A step that keeps the rows and what is due is no step of the lifecycle.
LEMMA Stutters ==
    ASSUME UNCHANGED tables, UNCHANGED alerted, UNCHANGED gaveUp, DueTasks' = DueTasks
    PROVE  UNCHANGED Lifecycle!vars
BY DEF tables, DueTasks, Lifecycle!vars, Lifecycle!rows

\* What is done to a report from outside is a step of its lifecycle.
LEMMA ExternalImplements ==
    ASSUME PipelineAssumption, TypeOK, NEW r \in Reports, External(r)
    PROVE  \/ Lifecycle!Arrive(r) \/ Lifecycle!Remove(r)
           \/ \E t \in Tasks : Lifecycle!FallDue(r, t)
<1>1. CASE Ingest(r)
  <2>1. DueTasks' = DueTasks
    BY <1>1 DEF Ingest, broker, DueTasks, Live
  <2> QED
    BY <1>1, <2>1 DEF Ingest, outside, DueTasks, Lifecycle!Arrive
<1>2. CASE QueueParse(r)
  <2>1. DueTasks' = [DueTasks EXCEPT ![r] = @ \union {"parse"}]
    BY <1>2, FreshMessage, Asks DEF QueueParse, Tasks
  <2>2. Lifecycle!FallDue(r, "parse")
    BY <1>2, <2>1 DEF QueueParse, tables, DueTasks, Lifecycle!FallDue,
       Lifecycle!Ready, Lifecycle!rows
  <2> QED
    BY <2>2 DEF Tasks
<1>3. CASE TriggerReanalysis(r)
  <2>1. DueTasks' = [DueTasks EXCEPT ![r] = @ \union {"trend"}]
    BY <1>3, FreshMessage, Asks DEF TriggerReanalysis, Tasks
  <2>2. Lifecycle!FallDue(r, "trend")
    BY <1>3, <2>1 DEF TriggerReanalysis, tables, DueTasks, Lifecycle!FallDue,
       Lifecycle!Ready, Lifecycle!rows
  <2> QED
    BY <2>2 DEF Tasks
<1>4. CASE DeleteReport(r)
  <2>1. DueTasks' = DueTasks
    BY <1>4 DEF DeleteReport, broker, DueTasks, Live
  <2>3. /\ {s \in Reports : points[s] > 0}' = {s \in Reports : points[s] > 0} \ {r}
        /\ {s \in Reports : "alert" \in devs[s]}' =
             {s \in Reports : "alert" \in devs[s]} \ {r}
    BY <1>4 DEF DeleteReport, TypeOK
  <2>4. /\ status[r] \notin {"absent", "deleted"}
        /\ status' = [status EXCEPT ![r] = "deleted"]
        /\ trend' = [trend EXCEPT ![r] = "none"]
        /\ logged' = [logged EXCEPT ![r] = FALSE]
        /\ UNCHANGED <<detected, alerted, gaveUp>>
    BY <1>4 DEF DeleteReport, outside, NoRow
  <2> QED
    BY <2>1, <2>3, <2>4 DEF DueTasks, Lifecycle!Remove, Lifecycle!Exists
<1> QED
  BY <1>1, <1>2, <1>3, <1>4 DEF External

\* The steps of a lifecycle, whichever report and task they are of.
LEMMA LifecycleSteps ==
    ASSUME NEW r \in Reports, NEW t \in Tasks,
           \/ Lifecycle!Arrive(r) \/ Lifecycle!Remove(r) \/ Lifecycle!Parse(r)
           \/ Lifecycle!Refuse(r) \/ Lifecycle!Analyze(r) \/ Lifecycle!Calm(r)
           \/ Lifecycle!Alarm(r) \/ Lifecycle!Alert(r) \/ Lifecycle!Log(r)
           \/ Lifecycle!FallDue(r, t) \/ Lifecycle!HandOn(r, t)
           \/ Lifecycle!GiveUp(r, t) \/ Lifecycle!Drop(r, t)
    PROVE  Lifecycle!Next
BY DEF Lifecycle!Next, Lifecycle!Stages, Tasks

\* What a worker does, or its loss, is one step of the lifecycle of the report
\* whose message it holds, or none.
LEMMA WorkImplements ==
    ASSUME PipelineAssumption, IInv, NEW w \in Workers, Work(w) \/ Crash(w)
    PROVE  Lifecycle!Next \/ UNCHANGED Lifecycle!vars
<1> USE DEF IInv
<1>1. ASSUME NEW m \in Messages, Take(w, m) PROVE UNCHANGED Lifecycle!vars
  <2>1. \A u \in Tasks, x \in Reports : Live(u, x)' <=> Live(u, x)
    BY <1>1 DEF Take, Live, TypeOK
  <2>2. DueTasks' = DueTasks
    BY <2>1 DEF DueTasks
  <2> QED
    BY <1>1, <2>2, Stutters DEF Take, outside
<1> SUFFICES ASSUME ~(\E m \in Messages : Take(w, m))
             PROVE  Lifecycle!Next \/ UNCHANGED Lifecycle!vars
  BY <1>1
<1>2. pc[w] # "idle"
  BY DEF Work, Ack, Raise, Retry, GiveUp, NotFound, ParseStore,
      ParseReject, SendTrend, MarkFailed, Analyze, SendDeviation, Detect,
      SendNotification, Notify, CommitLog, Crash, Running
<1>3. PICK r \in Reports, t \in Tasks :
        held[w] \in Messages /\ held[w].report = r /\ held[w].task = t
  BY <1>2, BusyHolds
<1>4. Justified(held[w])
  BY <1>3 DEF MessagesJustified
<1>5. pc[w] # "done" => t \in DueTasks[r]
  BY <1>2, <1>3 DEF DueTasks, Live
<1>6. CASE Ack(w)
  <2>1. \A u \in Tasks, x \in Reports : Live(u, x)' <=> Live(u, x)
    BY <1>6 DEF Ack, Live, TypeOK
  <2>2. DueTasks' = DueTasks
    BY <2>1 DEF DueTasks
  <2> QED
    BY <1>6, <2>2, Stutters DEF Ack, outside
<1>7. CASE Crash(w)
  <2>1. DueTasks' = [DueTasks EXCEPT ![r] = @ \union {t}]
    BY <1>3, <1>7, Redelivers
  <2>2. Lifecycle!FallDue(r, t)
    BY <1>3, <1>4, <1>7, <2>1 DEF Crash, tables, DueTasks, Justified, Alerting,
       Lifecycle!FallDue, Lifecycle!Ready, Lifecycle!Gone, Lifecycle!rows
  <2> QED
    BY <2>2, LifecycleSteps
<1>8. CASE Raise(w)
  <2>1. DueTasks' = DueTasks
    BY <1>3, <1>8, GoesOn DEF Raise, Steps
  <2> QED
    BY <1>8, <2>1, Stutters DEF Raise, outside
<1>9. CASE Retry(w)
  <2> DEFINE m == [held[w] EXCEPT !.retries = @ + 1]
  <2>1. m \in Messages /\ m.task = t /\ m.report = r /\ Send(m)
    BY <1>2, <1>3, <1>9, BusyHolds DEF Retry, Messages, PipelineAssumption
  <2> HIDE DEF m
  <2>2. pc[w] = "retry" /\ pc' = [pc EXCEPT ![w] = "done"] /\ UNCHANGED held
    BY <1>9 DEF Retry
  <2>3. \A u \in Tasks, x \in Reports : Live(u, x)' <=> Live(u, x)
    BY <1>3, <2>1, <2>2 DEF Live, TypeOK
  <2>4. DueTasks' = DueTasks
    BY <2>3 DEF DueTasks
  <2> QED
    BY <1>9, <2>4, Stutters DEF Retry, outside
<1>10. CASE GiveUp(w)
  <2>1. Lifecycle!Over(r, t)
    BY <1>3, <1>10, Ends DEF GiveUp
  <2>2. Lifecycle!GiveUp(r, t)
    BY <1>3, <1>5, <1>10, <2>1 DEF GiveUp, tables, outside, DueTasks,
       Lifecycle!GiveUp, Lifecycle!rows
  <2> QED
    BY <2>2, LifecycleSteps
<1>11. CASE NotFound(w)
  <2>1. Lifecycle!Over(r, t)
    BY <1>3, <1>11, Ends DEF NotFound
  <2>2. Lifecycle!Drop(r, t)
    BY <1>3, <1>5, <1>11, <2>1 DEF NotFound, tables, outside, DueTasks,
       Lifecycle!Drop, Lifecycle!Gone, Lifecycle!rows
  <2> QED
    BY <2>2, LifecycleSteps
<1>12. CASE ParseStore(w)
  <2>1. DueTasks' = DueTasks
    BY <1>3, <1>12, GoesOn DEF ParseStore, Running, Steps
  <2>2. {s \in Reports : points[s] > 0}' = {s \in Reports : points[s] > 0} \union {r}
    BY <1>3, <1>12 DEF ParseStore, TypeOK
  <2>3. Lifecycle!Parse(r)
    BY <1>3, <1>4, <1>5, <1>12, <2>1, <2>2 DEF ParseStore, Running, outside, DueTasks,
       Justified, Lifecycle!Parse, Lifecycle!Exists
  <2> QED
    BY <2>3, LifecycleSteps
<1>13. CASE ParseReject(w)
  <2>1. Lifecycle!Over(r, "parse")
    BY <1>3, <1>13, Ends DEF ParseReject, Running
  <2>2. Lifecycle!Refuse(r)
    BY <1>3, <1>4, <1>5, <1>13, <2>1 DEF ParseReject, Running, outside, DueTasks,
       Justified, Lifecycle!Refuse, Lifecycle!Exists
  <2> QED
    BY <2>2, LifecycleSteps
<1>14. CASE MarkFailed(w)
  <2>1. DueTasks' = DueTasks
    BY <1>3, <1>14, GoesOn DEF MarkFailed, Steps
  <2>2. CASE status[r] = "deleted"
    <3>1. UNCHANGED tables /\ UNCHANGED outside /\ UNCHANGED gaveUp
      BY <1>3, <1>14, <2>2 DEF MarkFailed, tables, TypeOK
    <3> QED
      BY <2>1, <3>1, Stutters DEF outside
  <2>3. CASE status[r] # "deleted"
    <3>1. DueTasks' = [DueTasks EXCEPT ![r] = DueTasks[r]]
      BY <2>1 DEF DueTasks
    <3>2. Lifecycle!Over(r, "parse")
      BY <3>1 DEF DueTasks, Lifecycle!Over
    <3>3. Lifecycle!Refuse(r)
      BY <1>3, <1>4, <1>5, <1>14, <2>3, <3>2 DEF MarkFailed, outside, DueTasks, TypeOK,
         Justified, Lifecycle!Refuse, Lifecycle!Exists
    <3> QED
      BY <3>3, LifecycleSteps
  <2> QED
    BY <2>2, <2>3
<1>15. CASE Analyze(w)
  <2>1. DueTasks' = DueTasks
    BY <1>3, <1>15, GoesOn DEF Analyze, Running, Steps
  <2>2. CASE status[r] = "deleted"
    BY <1>3, <1>15, <2>1, <2>2, Stutters DEF Analyze, tables, outside
  <2>3. CASE status[r] # "deleted"
    <3>1. Lifecycle!Analyze(r)
      BY <1>3, <1>4, <1>5, <1>15, <2>1, <2>3 DEF Analyze, Running, outside, DueTasks,
         Justified, History, Lifecycle!Analyze, Lifecycle!Exists, Lifecycle!SeriesKnown
    <3> QED
      BY <3>1, LifecycleSteps
  <2> QED
    BY <2>2, <2>3
<1>16. CASE SendTrend(w)
  <2> DEFINE m == Message("trend", r)
  <2>1. /\ m \in Messages /\ m.report = r /\ m.task = "trend" /\ Send(m)
        /\ t = "parse" /\ pc[w] = "send" /\ UNCHANGED <<held, rows, gaveUp>>
        /\ pc' = [pc EXCEPT ![w] = "done"]
    BY <1>3, <1>16, FreshMessage DEF SendTrend, Running, Tasks, tables, outside, rows
  <2> HIDE DEF m
  <2>2. HandedOn(r, t, "trend")
    BY <1>3, <2>1, SendsOn
  <2>3. SendsOK(w)
    BY DEF SendsAfterCommit, SendsOK
  <2>4. Lifecycle!HandOn(r, "parse")
    BY <1>3, <1>4, <1>5, <2>1, <2>2, <2>3 DEF SendsOK, HandedOn, DueTasks, Justified, Alerting, rows,
       Lifecycle!HandOn, Lifecycle!After, Lifecycle!Ready, Lifecycle!Gone, Lifecycle!rows
  <2> QED
    BY <2>1, <2>4, LifecycleSteps
<1>17. CASE SendDeviation(w)
  <2> DEFINE m == Message("deviation", r)
  <2>1. /\ m \in Messages /\ m.report = r /\ m.task = "deviation" /\ Send(m)
        /\ t = "trend" /\ pc[w] = "send" /\ UNCHANGED <<held, rows, gaveUp>>
        /\ pc' = [pc EXCEPT ![w] = "done"]
    BY <1>3, <1>17, FreshMessage DEF SendDeviation, Running, Tasks, tables, outside, rows
  <2> HIDE DEF m
  <2>2. HandedOn(r, t, "deviation")
    BY <1>3, <2>1, SendsOn
  <2>3. SendsOK(w)
    BY DEF SendsAfterCommit, SendsOK
  <2>4. Lifecycle!HandOn(r, "trend")
    BY <1>3, <1>4, <1>5, <2>1, <2>2, <2>3 DEF SendsOK, HandedOn, DueTasks, Justified, Alerting, rows,
       Lifecycle!HandOn, Lifecycle!After, Lifecycle!Ready, Lifecycle!Gone, Lifecycle!rows
  <2> QED
    BY <2>1, <2>4, LifecycleSteps
<1>18. CASE SendNotification(w)
  <2> DEFINE m == Message("notify", r)
  <2>1. /\ m \in Messages /\ m.report = r /\ m.task = "notify" /\ Send(m)
        /\ t = "deviation" /\ pc[w] = "send" /\ UNCHANGED <<held, rows, gaveUp>>
        /\ pc' = [pc EXCEPT ![w] = "done"]
    BY <1>3, <1>18, FreshMessage DEF SendNotification, Running, Tasks, tables, outside, rows
  <2> HIDE DEF m
  <2>2. HandedOn(r, t, "notify")
    BY <1>3, <2>1, SendsOn
  <2>3. SendsOK(w)
    BY DEF SendsAfterCommit, SendsOK
  <2>4. Lifecycle!HandOn(r, "deviation")
    BY <1>3, <1>4, <1>5, <2>1, <2>2, <2>3 DEF SendsOK, HandedOn, DueTasks, Justified, Alerting, rows,
       Lifecycle!HandOn, Lifecycle!After, Lifecycle!Ready, Lifecycle!Gone, Lifecycle!rows
  <2> QED
    BY <2>1, <2>4, LifecycleSteps
<1>19. CASE Detect(w)
  <2>1. pc[w] = "run" /\ t = "deviation" /\ UNCHANGED <<queue, held>>
    BY <1>3, <1>19 DEF Detect, Running
  <2>2. CASE pc' = [pc EXCEPT ![w] = "done"]
    <3>1. Lifecycle!Over(r, t)
      BY <1>3, <2>1, <2>2, Ends
    <3>2. {s \in Reports : "alert" \in devs[s]}' = {s \in Reports : "alert" \in devs[s]}
      BY <1>3, <1>19, <2>1, <2>2 DEF Detect, TypeOK
    <3>3. Lifecycle!Calm(r)
      BY <1>3, <1>5, <1>19, <2>1, <3>1, <3>2 DEF Detect, outside, DueTasks, Lifecycle!Calm
    <3> QED
      BY <3>3, LifecycleSteps
  <2>3. CASE pc' # [pc EXCEPT ![w] = "done"]
    <3>1. /\ pc' = [pc EXCEPT ![w] = "send"] /\ status[r] # "deleted"
          /\ History(r) # {} /\ devs' = [devs EXCEPT ![r] = @ \union {"alert"}]
      BY <1>3, <1>19, <2>3 DEF Detect
    <3>2. DueTasks' = DueTasks
      BY <1>3, <2>1, <3>1, GoesOn DEF Steps
    <3>3. {s \in Reports : "alert" \in devs[s]}' =
            {s \in Reports : "alert" \in devs[s]} \union {r}
      BY <1>3, <3>1 DEF TypeOK
    <3>4. Lifecycle!Alarm(r)
      BY <1>3, <1>4, <1>5, <1>19, <2>1, <3>1, <3>2, <3>3 DEF Detect, outside, DueTasks,
         Justified, History, Lifecycle!Alarm, Lifecycle!Exists, Lifecycle!SeriesKnown
    <3> QED
      BY <3>4, LifecycleSteps
  <2> QED
    BY <2>2, <2>3
<1>20. CASE Notify(w)
  <2>1. DueTasks' = DueTasks
    BY <1>3, <1>20, GoesOn DEF Notify, Running, Steps
  <2> PICK sent \in BOOLEAN : alerted' = [alerted EXCEPT ![r] = @ \/ sent]
    BY <1>3, <1>20 DEF Notify
  <2>2. CASE ~sent
    <3>1. alerted' = alerted
      BY <2>2 DEF TypeOK
    <3> QED
      BY <1>20, <2>1, <3>1, Stutters DEF Notify, outside
  <2>3. CASE sent
    <3>1. alerted' = [alerted EXCEPT ![r] = TRUE]
      BY <2>3
    <3>2. Lifecycle!Alert(r)
      BY <1>3, <1>4, <1>5, <1>20, <2>1, <3>1 DEF Notify, Running, tables, DueTasks,
         Justified, Alerting, Lifecycle!Alert, Lifecycle!Exists
    <3> QED
      BY <3>2, LifecycleSteps
  <2> QED
    BY <2>2, <2>3
<1>21. CASE CommitLog(w)
  <2>1. Lifecycle!Over(r, "notify")
    BY <1>3, <1>21, Ends DEF CommitLog, Running
  <2>2. Lifecycle!Log(r)
    BY <1>3, <1>4, <1>5, <1>21, <2>1 DEF CommitLog, Running, outside, DueTasks,
       Justified, Alerting, Lifecycle!Log, Lifecycle!Exists
  <2> QED
    BY <2>2, LifecycleSteps
<1> QED
  BY <1>6, <1>7, <1>8, <1>9, <1>10, <1>11, <1>12, <1>13, <1>14, <1>15, <1>16,
     <1>17, <1>18, <1>19, <1>20, <1>21 DEF Work

\* A step of the pipeline is a step of the lifecycle of one report, or none.
LEMMA NextImplements ==
    PipelineAssumption /\ IInv /\ [Next]_vars => [Lifecycle!Next]_(Lifecycle!vars)
<1> SUFFICES ASSUME PipelineAssumption, IInv, [Next]_vars
             PROVE  Lifecycle!Next \/ UNCHANGED Lifecycle!vars
  OBVIOUS
<1>1. ASSUME NEW r \in Reports, External(r) PROVE Lifecycle!Next
  BY <1>1, ExternalImplements, LifecycleSteps DEF IInv, Tasks
<1>2. ASSUME NEW w \in Workers, Work(w) \/ Crash(w)
      PROVE  Lifecycle!Next \/ UNCHANGED Lifecycle!vars
  BY <1>2, WorkImplements
<1>3. CASE UNCHANGED vars
  <2>1. DueTasks' = DueTasks
    BY <1>3 DEF vars, broker, DueTasks, Live
  <2> QED
    BY <1>3, <2>1, Stutters DEF vars, outside
<1> QED
  BY <1>1, <1>2, <1>3 DEF Next

\* Whatever the broker, the workers, their retries, their losses and the users
\* do, each report goes through the lifecycle that the abstract specification
\* states: no due task is lost, and no stage comes before what it works on.
THEOREM PipelineImplementsLifecycle == Spec => ImplementsLifecycle
<1> USE PipelineAssumption
<1>1. Init => Lifecycle!Init
  BY InitLifecycle
<1>2. IInv /\ [Next]_vars => [Lifecycle!Next]_(Lifecycle!vars)
  BY NextImplements
<1> QED
  BY <1>1, <1>2, Inductive, PTL DEF Spec, ImplementsLifecycle, Lifecycle!Spec
=============================================================================
