------------------------- MODULE NotificationsProofs -------------------------
(***************************************************************************)
(* The numbers of a user and their alerts, for every number of requests,   *)
(* tasks, deviations, attempts, retries, crashes and lost answers.         *)
(*                                                                         *)
(* That limit and uniqueness hold rests on the lock: one request at most   *)
(* is between its checks and its commit (OneAtATime), and what it has      *)
(* checked is still so (Checked).  What a log row and a repeated alert     *)
(* stand for depends on what a task carries between its steps: the verdict *)
(* on the numbers served so far, the rows added to the session (Drafted),  *)
(* and that the present run of a task has not yet had an accepted message  *)
(* of the alerts still to be sent (Heard).                                 *)
(***************************************************************************)
EXTENDS Notifications, FiniteSetTheorems, TLAPS

Sent == {a \in Alerts : accepted[a] > 0}

\* One request at most holds the lock, and what it has checked is so.
OneAtATime ==
    \A p, q \in Requests : adding[p].step # "idle" /\ adding[q].step # "idle" => p = q

Checked ==
    \A q \in Requests :
        /\ adding[q].step # "idle" => RowsOf(adding[q].number) = {}
        /\ adding[q].step = "insert" => Cardinality(book) < Limit

\* What a task has in hand is part of what it has read, and it has read no
\* number twice.
RunOK ==
    \A t \in Tasks :
        /\ run[t].todo \subseteq run[t].list
        /\ run[t].tried \subseteq run[t].todo
        /\ Distinct(run[t].list)

\* The verdict and the rows that carry it speak of accepted messages.
Drafted ==
    \A t \in Tasks :
        /\ phase[t] = "send" /\ ~run[t].bad =>
                \A r \in run[t].list \ run[t].todo : InHand(t, r) \in Sent
        /\ \A d \in 1..Deviations, n \in Numbers :
                <<d, n, "sent">> \in run[t].drafts => <<t, d, n>> \in Sent

\* The alerts a task has still to send in its present run
Ahead(t) ==
    {<<t, d, n>> : d \in (run[t].at + 1)..Deviations, n \in Numbers}
        \union {InHand(t, r) : r \in run[t].todo}

\* The present run has had no accepted message of what is still to be sent, but
\* for lost answers.
Heard ==
    \A a \in Alerts :
        /\ accepted[a] <= begun[a[1]] + lost[a]
        /\ \/ phase[a[1]] \in {"report", "numbers"}
           \/ phase[a[1]] = "send" /\ a \in Ahead(a[1])
           => accepted[a] + 1 <= begun[a[1]] + lost[a]

-----------------------------------------------------------------------------
(* Types *)

\* A fresh reading of the numbers is a run, and so is what is left of none.
LEMMA ReadingType ==
    ASSUME NotificationAssumption, NEW b \in SUBSET Rows
    PROVE  Reading(b) \in Run /\ NoRun \in Run
BY DEF Reading, Run, NoRun, NotificationAssumption

\* A step on a row, and the log of a deviation, leave a run.
LEMMA RunKeepsType ==
    ASSUME NotificationAssumption, TypeOK, NEW t \in Tasks,
           \/ \E r \in Rows : Attempt(t, r)
           \/ LogDeviation(t)
    PROVE  run' \in [Tasks -> Run]
<1>1. run \in [Tasks -> Run] /\ run[t] \in Run
  BY DEF TypeOK
<1>2. CASE \E r \in Rows : Attempt(t, r)
  <2>1. PICK r \in Rows : Succeed(t, r) \/ FailAttempt(t, r)
    BY <1>2 DEF Attempt
  <2>2. CASE \E bad \in BOOLEAN : Served(t, r, bad)
    <3>1. PICK bad \in BOOLEAN : Served(t, r, bad)
      BY <2>2
    <3>2. 1 \in 1..MaxAttempts
      BY DEF NotificationAssumption
    <3>3. run' = [run EXCEPT ![t].todo = run[t].todo \ {r}, ![t].tried = {},
                             ![t].attempt = 1, ![t].bad = bad]
      BY <3>1 DEF Served
    <3>4. run[t].todo \ {r} \in SUBSET Rows
      BY <1>1 DEF Run
    <3> QED
      BY <1>1, <3>2, <3>3, <3>4 DEF Run
  <2>3. CASE /\ run[t].attempt < MaxAttempts
             /\ run' = [run EXCEPT ![t].tried = {r}, ![t].attempt = @ + 1]
    BY <1>1, <2>3 DEF Run, NotificationAssumption
  <2>4. run[t].bad \in BOOLEAN
    BY <1>1 DEF Run
  <2> QED
    BY <2>1, <2>2, <2>3, <2>4 DEF Succeed, FailAttempt
<1>3. CASE LogDeviation(t)
  <2> DEFINE drafts == run[t].drafts \union
                {<<run[t].at, r[1], Verdict(t)>> : r \in run[t].list}
  <2>1. drafts \in SUBSET Draft
    BY <1>1 DEF Run, Verdict, Statuses, Draft, Rows
  <2>2. run[t].list \in SUBSET Rows
    BY <1>1 DEF Run
  <2>3. NoRun \in Run
    BY ReadingType DEF TypeOK
  <2> HIDE DEF drafts
  <2>4. CASE run[t].at < Deviations
    <3>1. run' = [run EXCEPT ![t].drafts = drafts, ![t].at = @ + 1,
                             ![t].todo = run[t].list, ![t].bad = FALSE]
      BY <1>3, <2>4 DEF LogDeviation, drafts
    <3> QED
      BY <1>1, <2>1, <2>2, <2>4, <3>1 DEF Run, NotificationAssumption
  <2>5. CASE ~(run[t].at < Deviations)
    <3>1. run' = [run EXCEPT ![t] = [NoRun EXCEPT !.drafts = drafts]]
      BY <1>3, <2>5 DEF LogDeviation, drafts
    <3>2. [NoRun EXCEPT !.drafts = drafts] \in Run
      BY <2>1, <2>3 DEF Run
    <3> QED
      BY <1>1, <3>1, <3>2
  <2> QED
    BY <2>4, <2>5
<1> QED
  BY <1>2, <1>3

\* Every step keeps the types.
LEMMA NextType == NotificationAssumption /\ TypeOK /\ RunOK /\ [Next]_vars => TypeOK'
<1> SUFFICES ASSUME NotificationAssumption, TypeOK, RunOK, [Next]_vars PROVE TypeOK'
  OBVIOUS
<1>0. NoRun \in Run /\ Reading(book) \in Run
  BY ReadingType DEF TypeOK
<1> USE DEF TypeOK, Phases, NumbersOnly, TaskOnly, book_vars, task_vars, sent_vars
<1>1. ASSUME NEW q \in Requests, NEW n \in Numbers, CheckUnique(q, n) PROVE TypeOK'
  BY <1>1 DEF CheckUnique, Become, NotificationAssumption
<1>2. ASSUME NEW q \in Requests, CountRows(q) PROVE TypeOK'
  BY <1>2 DEF CountRows, Become
<1>3. ASSUME NEW q \in Requests, Insert(q) PROVE TypeOK'
  <2>1. adding[q].number \in Numbers
    BY <1>3 DEF Insert
  <2>2. book' \subseteq Rows
    <3>1. CASE UNCHANGED book
      BY <3>1
    <3>2. ASSUME NEW k \in Free(adding[q].number),
                 book' = book \union {<<adding[q].number, k>>}
          PROVE  book' \subseteq Rows
      <4>1. <<adding[q].number, k>> \in Rows
        BY <2>1 DEF Free, Rows
      <4> QED
        BY <3>2, <4>1
    <3> QED
      BY <1>3, <3>1, <3>2 DEF Insert
  <2> QED
    BY <1>3, <2>1, <2>2 DEF Insert, Become, NotificationAssumption
<1>4. ASSUME NEW r \in Rows, Remove(r) PROVE TypeOK'
  BY <1>4 DEF Remove
<1>5. ASSUME NEW t \in Tasks, Queue(t) \/ Begin(t) \/ FetchReport(t) \/ FetchNumbers(t)
      PROVE  TypeOK'
  BY <1>0, <1>5 DEF Queue, Begin, FetchReport, FetchNumbers
<1>6. ASSUME NEW t \in Tasks, NEW r \in Rows, Attempt(t, r) PROVE TypeOK'
  <2>1. run' \in [Tasks -> Run]
    BY <1>6, RunKeepsType
  <2>2. InHand(t, r) \in Alerts
    BY <1>6 DEF Attempt, InHand, Alerts, Run, Rows
  <2>3. accepted' \in [Alerts -> Nat] /\ lost' \in [Alerts -> Nat]
    BY <1>6, <2>2 DEF Attempt, Accept, AcceptUnheard
  <2> QED
    BY <1>6, <2>1, <2>3 DEF Attempt
<1>7. ASSUME NEW t \in Tasks, LogDeviation(t) PROVE TypeOK'
  <2>1. run' \in [Tasks -> Run]
    BY <1>7, RunKeepsType
  <2> QED
    BY <1>7, <2>1 DEF LogDeviation
<1>8. ASSUME NEW t \in Tasks, CommitLogs(t) PROVE TypeOK'
  <2>1. run[t].drafts \subseteq (1..Deviations) \X Numbers \X Statuses
    BY DEF Run, Draft
  <2>2. logs' \subseteq Tasks \X (1..Deviations) \X Numbers \X Statuses
    BY <1>8, <2>1 DEF CommitLogs
  <2> QED
    BY <1>0, <1>8, <2>2 DEF CommitLogs
<1>9. ASSUME NEW t \in Tasks, Fail(t) PROVE TypeOK'
  BY <1>0, <1>9 DEF Fail, NotificationAssumption
<1>10. ASSUME NEW t \in Tasks, Crash(t) PROVE TypeOK'
  BY <1>0, <1>10 DEF Crash, NotificationAssumption
<1>11. ASSUME NEW t \in Tasks, DeleteReport(t) PROVE TypeOK'
  BY <1>11 DEF DeleteReport
<1>12. CASE UNCHANGED vars
  BY <1>12 DEF vars
<1> QED
  BY <1>1, <1>2, <1>3, <1>4, <1>5, <1>6, <1>7, <1>8, <1>9, <1>10, <1>11, <1>12
  DEF Next, Work

-----------------------------------------------------------------------------
(* What a task carries *)

\* An attempt either keeps the row in hand or is done with it, and then the
\* verdict stays good only if a message was accepted.
LEMMA AttemptStep ==
    ASSUME NotificationAssumption, TypeOK, RunOK,
           NEW t \in Tasks, NEW r \in Rows, Attempt(t, r)
    PROVE  /\ \A u \in Tasks \ {t} : run'[u] = run[u]
           /\ run'[t].list = run[t].list /\ run'[t].at = run[t].at
           /\ run'[t].drafts = run[t].drafts
           /\ r \in run[t].todo /\ InHand(t, r) \in Alerts
           /\ Sent \subseteq Sent'
           /\ phase[t] = "send" /\ UNCHANGED <<phase, begun, logs>>
           /\ \A a \in Alerts \ {InHand(t, r)} :
                    accepted'[a] = accepted[a] /\ lost'[a] = lost[a]
           /\ \/ /\ run'[t].todo = run[t].todo \ {r} /\ run'[t].tried = {}
                 /\ ~run'[t].bad => ~run[t].bad /\ InHand(t, r) \in Sent'
                 /\ accepted'[InHand(t, r)] + lost[InHand(t, r)]
                        <= accepted[InHand(t, r)] + lost'[InHand(t, r)] + 1
              \/ /\ run'[t].todo = run[t].todo /\ run'[t].tried = {r}
                 /\ ~run'[t].bad => ~run[t].bad
                 /\ accepted'[InHand(t, r)] + lost[InHand(t, r)]
                        = accepted[InHand(t, r)] + lost'[InHand(t, r)]
<1> DEFINE a == InHand(t, r)
<1>1. run \in [Tasks -> Run] /\ run[t] \in Run
  BY DEF TypeOK
<1>2. r \in run[t].todo
  BY DEF Attempt, Current, RunOK
<1>3. a \in Alerts
  BY <1>1 DEF InHand, Alerts, Run, Rows
<1>4. phase[t] = "send" /\ UNCHANGED <<phase, begun, logs>>
  BY DEF Attempt
<1> HIDE DEF a
<1>5. /\ accepted \in [Alerts -> Nat] /\ lost \in [Alerts -> Nat]
      /\ accepted[a] \in Nat /\ lost[a] \in Nat
  BY <1>3 DEF TypeOK
<1>6. ASSUME Accept(a), UNCHANGED lost \/ lost' = [lost EXCEPT ![a] = @ + 1]
      PROVE  /\ Sent \subseteq Sent' /\ a \in Sent'
             /\ \A b \in Alerts \ {a} : accepted'[b] = accepted[b] /\ lost'[b] = lost[b]
             /\ accepted'[a] = accepted[a] + 1
             /\ lost'[a] = lost[a] \/ lost'[a] = lost[a] + 1
  BY <1>3, <1>5, <1>6 DEF Accept, Sent
<1>7. ASSUME NEW bad, Served(t, r, bad)
      PROVE  /\ \A u \in Tasks \ {t} : run'[u] = run[u]
             /\ run'[t].list = run[t].list /\ run'[t].at = run[t].at
             /\ run'[t].drafts = run[t].drafts
             /\ run'[t].todo = run[t].todo \ {r} /\ run'[t].tried = {}
             /\ run'[t].bad = bad
  BY <1>1, <1>7 DEF Served, Run
<1>8. CASE Succeed(t, r) /\ Accept(a) /\ UNCHANGED lost
  <2>1. accepted'[a] + lost[a] <= accepted[a] + lost'[a] + 1
    BY <1>5, <1>6, <1>8
  <2> QED
    BY <1>2, <1>3, <1>4, <1>6, <1>7, <1>8, <2>1 DEF Succeed, a
<1>9. CASE FailAttempt(t, r) /\ (AcceptUnheard(a) \/ UNCHANGED sent_vars)
  <2>1. /\ Sent \subseteq Sent'
        /\ \A b \in Alerts \ {a} : accepted'[b] = accepted[b] /\ lost'[b] = lost[b]
        /\ accepted'[a] + lost[a] = accepted[a] + lost'[a]
    <3>1. CASE AcceptUnheard(a)
      <4>1. lost' = [lost EXCEPT ![a] = @ + 1] /\ Accept(a)
        BY <3>1 DEF AcceptUnheard
      <4>2. lost'[a] = lost[a] + 1 /\ accepted'[a] = accepted[a] + 1
        BY <1>3, <1>5, <4>1 DEF Accept
      <4> QED
        BY <1>5, <1>6, <4>1, <4>2
    <3>2. CASE UNCHANGED sent_vars
      BY <1>5, <3>2 DEF sent_vars, Sent
    <3> QED
      BY <1>9, <3>1, <3>2
  <2>2. CASE Served(t, r, TRUE)
    <3>1. accepted'[a] + lost[a] <= accepted[a] + lost'[a] + 1
      <4>1. CASE AcceptUnheard(a)
        BY <1>3, <1>5, <4>1 DEF AcceptUnheard, Accept
      <4>2. CASE UNCHANGED sent_vars
        BY <1>5, <4>2 DEF sent_vars
      <4> QED
        BY <1>9, <4>1, <4>2
    <3> QED
      BY <1>2, <1>3, <1>4, <1>7, <2>1, <2>2, <3>1 DEF a
  <2>3. CASE run' = [run EXCEPT ![t].tried = {r}, ![t].attempt = @ + 1]
    <3>1. /\ \A u \in Tasks \ {t} : run'[u] = run[u]
          /\ run'[t].list = run[t].list /\ run'[t].at = run[t].at
          /\ run'[t].drafts = run[t].drafts
          /\ run'[t].todo = run[t].todo /\ run'[t].tried = {r}
          /\ run'[t].bad = run[t].bad
      BY <1>1, <2>3 DEF Run
    <3> QED
      BY <1>2, <1>3, <1>4, <2>1, <3>1 DEF a
  <2> QED
    BY <1>9, <2>2, <2>3 DEF FailAttempt
<1> QED
  BY <1>8, <1>9 DEF Attempt, a

\* The log of a deviation adds its rows and turns to the next one, or ends
\* the sending.
LEMMA LogStep ==
    ASSUME NotificationAssumption, TypeOK, NEW t \in Tasks, LogDeviation(t)
    PROVE  /\ \A u \in Tasks \ {t} : run'[u] = run[u]
           /\ run'[t].drafts = run[t].drafts \union
                   {<<run[t].at, r[1], Verdict(t)>> : r \in run[t].list}
           /\ phase[t] = "send" /\ run[t].todo = {}
           /\ UNCHANGED <<begun, logs, accepted, lost>>
           /\ \/ /\ run[t].at < Deviations /\ phase' = phase
                 /\ run'[t].list = run[t].list /\ run'[t].at = run[t].at + 1
                 /\ run'[t].todo = run[t].list /\ run'[t].tried = run[t].tried
              \/ /\ phase' = [phase EXCEPT ![t] = "commit"]
                 /\ run'[t].list = {} /\ run'[t].todo = {} /\ run'[t].tried = {}
<1>1. run \in [Tasks -> Run] /\ run[t] \in Run
  BY DEF TypeOK
<1> DEFINE drafts == run[t].drafts \union
              {<<run[t].at, r[1], Verdict(t)>> : r \in run[t].list}
<1>2. phase[t] = "send" /\ run[t].todo = {} /\ UNCHANGED <<begun, logs, accepted, lost>>
  BY DEF LogDeviation, sent_vars
<1>3. CASE run[t].at < Deviations
  <2>1. /\ run' = [run EXCEPT ![t].drafts = drafts, ![t].at = @ + 1,
                              ![t].todo = run[t].list, ![t].bad = FALSE]
        /\ phase' = phase
    BY <1>3 DEF LogDeviation
  <2> HIDE DEF drafts
  <2>2. /\ \A u \in Tasks \ {t} : run'[u] = run[u]
        /\ run'[t].drafts = drafts
        /\ run'[t].list = run[t].list /\ run'[t].at = run[t].at + 1
        /\ run'[t].todo = run[t].list /\ run'[t].tried = run[t].tried
    BY <1>1, <2>1 DEF Run
  <2> QED
    BY <1>2, <1>3, <2>1, <2>2 DEF drafts
<1>4. CASE ~(run[t].at < Deviations)
  <2>1. /\ run' = [run EXCEPT ![t] = [NoRun EXCEPT !.drafts = drafts]]
        /\ phase' = [phase EXCEPT ![t] = "commit"]
    BY <1>4 DEF LogDeviation
  <2> HIDE DEF drafts
  <2>2. /\ \A u \in Tasks \ {t} : run'[u] = run[u]
        /\ run'[t] = [NoRun EXCEPT !.drafts = drafts]
    BY <1>1, <2>1
  <2>3. /\ run'[t].drafts = drafts
        /\ run'[t].list = {} /\ run'[t].todo = {} /\ run'[t].tried = {}
    BY <2>2 DEF NoRun, Reading
  <2> QED
    BY <1>2, <2>1, <2>2, <2>3 DEF drafts
<1> QED
  BY <1>3, <1>4

\* Every other step of a task leaves it what it had, a fresh reading of the
\* numbers, or nothing, and sends nothing.
LEMMA OtherStep ==
    ASSUME NotificationAssumption, TypeOK, [Next]_vars,
           \A t \in Tasks : ~LogDeviation(t) /\ \A r \in Rows : ~Attempt(t, r)
    PROVE  /\ \A t \in Tasks :
                 \/ run'[t] = run[t] /\ (phase'[t] = "send" <=> phase[t] = "send")
                 \/ run'[t] = NoRun /\ phase'[t] # "send"
                 \/ run'[t] = Reading(book) /\ phase'[t] = "send" /\ phase[t] = "numbers"
           /\ UNCHANGED <<accepted, lost>>
<1> USE DEF TypeOK, TaskOnly, NumbersOnly, book_vars, task_vars, sent_vars
<1>1. ASSUME NEW t \in Tasks,
             \/ Queue(t) \/ Begin(t) \/ FetchReport(t) \/ FetchNumbers(t) \/ CommitLogs(t)
             \/ Fail(t) \/ Crash(t) \/ DeleteReport(t)
      PROVE  /\ \A u \in Tasks :
                   \/ run'[u] = run[u] /\ (phase'[u] = "send" <=> phase[u] = "send")
                   \/ run'[u] = NoRun /\ phase'[u] # "send"
                   \/ run'[u] = Reading(book) /\ phase'[u] = "send" /\ phase[u] = "numbers"
             /\ UNCHANGED <<accepted, lost>>
  BY <1>1 DEF Queue, Begin, FetchReport, FetchNumbers, CommitLogs, Fail, Crash, DeleteReport
<1>2. ASSUME \/ \E q \in Requests :
                    (\E n \in Numbers : CheckUnique(q, n)) \/ CountRows(q) \/ Insert(q)
             \/ \E r \in Rows : Remove(r)
             \/ UNCHANGED vars
      PROVE  UNCHANGED <<run, phase, accepted, lost>>
  BY <1>2 DEF CheckUnique, CountRows, Insert, Remove, vars
<1> QED
  BY <1>1, <1>2 DEF Next, Work

\* What a task has in hand stays part of what it has read.
LEMMA RunOKKeeps ==
    NotificationAssumption /\ TypeOK /\ RunOK /\ BookKept /\ [Next]_vars => RunOK'
<1> SUFFICES ASSUME NotificationAssumption, TypeOK, RunOK, BookKept, [Next]_vars PROVE RunOK'
  OBVIOUS
<1> USE DEF RunOK
<1>1. ASSUME NEW t \in Tasks, NEW r \in Rows, Attempt(t, r) PROVE RunOK'
  BY <1>1, AttemptStep
<1>2. ASSUME NEW t \in Tasks, LogDeviation(t) PROVE RunOK'
  BY <1>2, LogStep DEF Distinct
<1>3. CASE \A t \in Tasks : ~LogDeviation(t) /\ \A r \in Rows : ~Attempt(t, r)
  <2>1. /\ NoRun.list = {} /\ NoRun.todo = {} /\ NoRun.tried = {}
        /\ Reading(book).list = book /\ Reading(book).todo = book /\ Reading(book).tried = {}
        /\ Distinct(book) /\ Distinct({})
    BY DEF NoRun, Reading, BookKept, Distinct
  <2> QED
    BY <1>3, <2>1, OtherStep
<1> QED
  BY <1>1, <1>2, <1>3

\* The log of a task holds what its session held when it committed.
LEMMA LogsStep ==
    ASSUME TypeOK, [Next]_vars, NEW l \in logs', l \notin logs
    PROVE  \E t \in Tasks : \E x \in run[t].drafts : l = <<t, x[1], x[2], x[3]>>
<1> USE DEF TaskOnly, NumbersOnly, book_vars, task_vars, sent_vars
<1>1. ASSUME NEW t \in Tasks, CommitLogs(t)
      PROVE  \E x \in run[t].drafts : l = <<t, x[1], x[2], x[3]>>
  BY <1>1 DEF CommitLogs
<1>2. ASSUME NEW t \in Tasks,
             \/ Queue(t) \/ Begin(t) \/ FetchReport(t) \/ FetchNumbers(t)
             \/ (\E r \in Rows : Attempt(t, r)) \/ LogDeviation(t)
             \/ Fail(t) \/ Crash(t) \/ DeleteReport(t)
      PROVE  logs' \subseteq logs
  BY <1>2 DEF Queue, Begin, FetchReport, FetchNumbers, Attempt, LogDeviation, Fail, Crash,
              DeleteReport
<1>3. ASSUME \/ \E q \in Requests :
                    (\E n \in Numbers : CheckUnique(q, n)) \/ CountRows(q) \/ Insert(q)
             \/ \E r \in Rows : Remove(r)
             \/ UNCHANGED vars
      PROVE  logs' = logs
  BY <1>3 DEF CheckUnique, CountRows, Insert, Remove, vars
<1> QED
  BY <1>1, <1>2, <1>3 DEF Next, Work

\* The verdict, the rows that carry it and the log speak of what was accepted.
LEMMA DraftedKeeps ==
    ASSUME NotificationAssumption, TypeOK, RunOK, Drafted, [Next]_vars
    PROVE  Drafted'
<1> DEFINE Good(t) ==
        /\ phase[t] = "send" /\ ~run[t].bad =>
                \A r \in run[t].list \ run[t].todo : InHand(t, r) \in Sent
        /\ \A d \in 1..Deviations, n \in Numbers :
                <<d, n, "sent">> \in run[t].drafts => <<t, d, n>> \in Sent
<1>0. SUFFICES ASSUME NEW t \in Tasks PROVE Good(t)'
  BY DEF Drafted
<1>1. Good(t)
  BY DEF Drafted
<1>2. ASSUME NEW u \in Tasks, NEW r \in Rows, Attempt(u, r) PROVE Good(t)'
  <2>1. CASE u # t
    <3>1. run'[t] = run[t] /\ phase' = phase /\ Sent \subseteq Sent'
      BY <1>2, <2>1, AttemptStep
    <3> QED
      BY <1>1, <3>1 DEF InHand
  <2>2. CASE u = t
    <3>1. \A s : InHand(t, s)' = InHand(t, s)
      BY <1>2, <2>2, AttemptStep DEF InHand
    <3>2. run'[t].list = run[t].list
      BY <1>2, <2>2, AttemptStep
    <3>3. Sent \subseteq Sent' /\ run'[t].drafts = run[t].drafts /\ phase[t] = "send"
      BY <1>2, <2>2, AttemptStep
    <3>4. ASSUME ~run'[t].bad, NEW s \in run'[t].list \ run'[t].todo
          PROVE  InHand(t, s)' \in Sent'
      <4>1. ~run[t].bad /\ (s \notin run[t].todo \/ (s = r /\ InHand(t, r) \in Sent'))
        <5>1. \/ /\ run'[t].todo = run[t].todo \ {r}
                 /\ ~run'[t].bad => ~run[t].bad /\ InHand(t, r) \in Sent'
              \/ /\ run'[t].todo = run[t].todo
                 /\ ~run'[t].bad => ~run[t].bad
          BY <1>2, <2>2, AttemptStep
        <5> QED
          BY <3>4, <5>1
      <4> QED
        BY <1>1, <3>1, <3>2, <3>3, <3>4, <4>1
    <3> QED
      BY <1>1, <3>3, <3>4
  <2> QED
    BY <2>1, <2>2
<1>3. ASSUME NEW u \in Tasks, LogDeviation(u) PROVE Good(t)'
  <2>1. Sent' = Sent
    BY <1>3, LogStep DEF Sent
  <2>2. CASE u # t
    <3>1. run'[t] = run[t] /\ (phase'[t] = "send" => phase[t] = "send")
      BY <1>3, <2>2, LogStep DEF TypeOK
    <3> QED
      BY <1>1, <2>1, <3>1 DEF InHand
  <2>3. CASE u = t
    <3>0. LogDeviation(t)
      BY <1>3, <2>3
    <3>1. phase'[t] = "send" => run'[t].list \ run'[t].todo = {}
      <4>1. phase \in [Tasks -> Phases]
        BY DEF TypeOK
      <4>2. CASE run'[t].list = run[t].list /\ run'[t].todo = run[t].list
        BY <4>2
      <4>3. CASE phase' = [phase EXCEPT ![t] = "commit"]
        BY <4>1, <4>3
      <4> QED
        BY <3>0, <4>2, <4>3, LogStep
    <3>2. ASSUME NEW d \in 1..Deviations, NEW n \in Numbers,
                 <<d, n, "sent">> \in run'[t].drafts
          PROVE  <<t, d, n>> \in Sent
      <4>1. CASE <<d, n, "sent">> \in run[t].drafts
        BY <1>1, <4>1
      <4>2. CASE \E r \in run[t].list :
                    <<d, n, "sent">> = <<run[t].at, r[1], Verdict(t)>>
        <5>1. PICK r \in run[t].list :
                    d = run[t].at /\ n = r[1] /\ Verdict(t) = "sent"
          BY <4>2
        <5>2. ~run[t].bad
          BY <5>1 DEF Verdict
        <5>3. phase[t] = "send" /\ r \notin run[t].todo
          BY <1>3, <2>3, LogStep
        <5> QED
          BY <1>1, <5>1, <5>2, <5>3 DEF InHand
      <4> QED
        BY <1>3, <2>3, <3>2, <4>1, <4>2, LogStep
    <3> QED
      BY <2>1, <3>1, <3>2
  <2> QED
    BY <2>2, <2>3
<1>4. CASE \A u \in Tasks : ~LogDeviation(u) /\ \A r \in Rows : ~Attempt(u, r)
  <2>1. Sent' = Sent
    BY <1>4, OtherStep DEF Sent
  <2>2. CASE run'[t] = run[t] /\ (phase'[t] = "send" <=> phase[t] = "send")
    BY <1>1, <2>1, <2>2 DEF InHand
  <2>3. CASE run'[t] = NoRun /\ phase'[t] # "send"
    BY <2>3 DEF NoRun, Reading
  <2>4. CASE run'[t] = Reading(book)
    BY <2>4 DEF Reading
  <2> QED
    BY <1>4, <2>2, <2>3, <2>4, OtherStep
<1> QED
  BY <1>2, <1>3, <1>4

\* What the log says of a number stays true.
LEMMA SentKeeps ==
    ASSUME NotificationAssumption, TypeOK, TypeOK', RunOK, Drafted, SentWasAccepted,
           [Next]_vars
    PROVE  SentWasAccepted'
<1>1. Sent \subseteq Sent'
  <2>1. ASSUME NEW t \in Tasks, NEW r \in Rows, Attempt(t, r) PROVE Sent \subseteq Sent'
    BY <2>1, AttemptStep
  <2>2. ASSUME NEW t \in Tasks, LogDeviation(t) PROVE Sent \subseteq Sent'
    BY <2>2, LogStep DEF Sent
  <2>3. CASE \A t \in Tasks : ~LogDeviation(t) /\ \A r \in Rows : ~Attempt(t, r)
    BY <2>3, OtherStep DEF Sent
  <2> QED
    BY <2>1, <2>2, <2>3
<1>2. ASSUME NEW t \in Tasks, NEW d \in 1..Deviations, NEW n \in Numbers,
             <<t, d, n, "sent">> \in logs'
      PROVE  <<t, d, n>> \in Sent'
  <2>1. CASE <<t, d, n, "sent">> \in logs
    <3>1. <<t, d, n>> \in Sent
      BY <2>1 DEF SentWasAccepted, Sent, Alerts
    <3> QED
      BY <1>1, <3>1
  <2>2. CASE <<t, d, n, "sent">> \notin logs
    <3>0. PICK u \in Tasks : \E x \in run[u].drafts :
                <<t, d, n, "sent">> = <<u, x[1], x[2], x[3]>>
      BY <1>2, <2>2, LogsStep
    <3>1. PICK x \in run[u].drafts : <<t, d, n, "sent">> = <<u, x[1], x[2], x[3]>>
      BY <3>0
    <3>2. x \in (1..Deviations) \X Numbers \X Statuses
      BY <3>1 DEF TypeOK, Run, Draft
    <3>3. u = t /\ x = <<d, n, "sent">>
      BY <3>1, <3>2
    <3> QED
      BY <1>1, <3>1, <3>3 DEF Drafted
  <2> QED
    BY <2>1, <2>2
<1> QED
  BY <1>2 DEF SentWasAccepted, Sent

-----------------------------------------------------------------------------
(* Repeated alerts *)

\* How the other steps move a task through its phases.
LEMMA PhaseStep ==
    ASSUME NotificationAssumption, TypeOK, [Next]_vars,
           \A t \in Tasks : ~LogDeviation(t) /\ \A r \in Rows : ~Attempt(t, r)
    PROVE  \A t \in Tasks :
              \/ begun'[t] = begun[t] /\ phase'[t] = phase[t] /\ run'[t] = run[t]
              \/ begun'[t] = begun[t] + 1 /\ phase'[t] = "report"
              \/ begun'[t] = begun[t] /\ phase'[t] \in {"queued", "done", "failed"}
              \/ begun'[t] = begun[t] /\ phase[t] = "report" /\ phase'[t] = "numbers"
              \/ /\ begun'[t] = begun[t] /\ phase[t] = "numbers" /\ phase'[t] = "send"
                 /\ run'[t] = Reading(book)
<1> USE DEF TypeOK, TaskOnly, NumbersOnly, book_vars, task_vars, sent_vars
<1> DEFINE Moves(u) ==
        \/ begun'[u] = begun[u] /\ phase'[u] = phase[u] /\ run'[u] = run[u]
        \/ begun'[u] = begun[u] + 1 /\ phase'[u] = "report"
        \/ begun'[u] = begun[u] /\ phase'[u] \in {"queued", "done", "failed"}
        \/ begun'[u] = begun[u] /\ phase[u] = "report" /\ phase'[u] = "numbers"
        \/ /\ begun'[u] = begun[u] /\ phase[u] = "numbers" /\ phase'[u] = "send"
           /\ run'[u] = Reading(book)
<1>1. ASSUME NEW t \in Tasks, Queue(t) \/ Begin(t) \/ FetchReport(t) \/ FetchNumbers(t)
      PROVE  \A u \in Tasks : Moves(u)
  BY <1>1 DEF Queue, Begin, FetchReport, FetchNumbers
<1>2. ASSUME NEW t \in Tasks, CommitLogs(t) \/ Fail(t) \/ Crash(t) \/ DeleteReport(t)
      PROVE  \A u \in Tasks : Moves(u)
  BY <1>2 DEF CommitLogs, Fail, Crash, DeleteReport
<1>3. ASSUME \/ \E q \in Requests :
                    (\E n \in Numbers : CheckUnique(q, n)) \/ CountRows(q) \/ Insert(q)
             \/ \E r \in Rows : Remove(r)
             \/ UNCHANGED vars
      PROVE  \A u \in Tasks : Moves(u)
  BY <1>3 DEF CheckUnique, CountRows, Insert, Remove, vars
<1> QED
  BY <1>1, <1>2, <1>3 DEF Next, Work

\* Every run of a task hears of one accepted message of an alert at most.
LEMMA HeardKeeps ==
    ASSUME NotificationAssumption, TypeOK, TypeOK', RunOK, Heard, [Next]_vars
    PROVE  Heard'
<1> DEFINE Slack(a) == accepted[a] + 1 <= begun[a[1]] + lost[a]
           Good(a) ==
                /\ accepted[a] <= begun[a[1]] + lost[a]
                /\ \/ phase[a[1]] \in {"report", "numbers"}
                   \/ phase[a[1]] = "send" /\ a \in Ahead(a[1])
                   => Slack(a)
<1>0. SUFFICES ASSUME NEW a \in Alerts PROVE Good(a)'
  BY DEF Heard
<1> DEFINE t == a[1]
<1>1. /\ t \in Tasks /\ a[2] \in 1..Deviations /\ a[3] \in Numbers
      /\ a = <<a[1], a[2], a[3]>>
  BY DEF Alerts
<1> HIDE DEF t
<1>2. /\ Good(a) /\ begun[t] \in Nat /\ run[t] \in Run
      /\ accepted[a] \in Nat /\ lost[a] \in Nat /\ accepted'[a] \in Nat /\ lost'[a] \in Nat
  BY <1>1 DEF Heard, TypeOK, t
<1>3. ASSUME NEW u \in Tasks, NEW r \in Rows, Attempt(u, r) PROVE Good(a)'
  <2>1. /\ UNCHANGED <<phase, begun>> /\ phase[u] = "send" /\ r \in run[u].todo
        /\ \A b \in Alerts \ {InHand(u, r)} :
                accepted'[b] = accepted[b] /\ lost'[b] = lost[b]
    BY <1>3, AttemptStep
  <2>2. ASSUME t = u PROVE run'[t].at = run[t].at /\ run'[t].todo \subseteq run[t].todo
    BY <1>3, <2>2, AttemptStep
  <2>3. Ahead(t)' \subseteq Ahead(t)
    <3>1. CASE t = u
      BY <2>2, <3>1 DEF Ahead, InHand
    <3>2. CASE t # u
      <4>1. run'[t] = run[t]
        BY <1>1, <1>3, <3>2, AttemptStep
      <4> QED
        BY <4>1 DEF Ahead, InHand
    <3> QED
      BY <3>1, <3>2
  <2>4. CASE a # InHand(u, r)
    BY <1>2, <2>1, <2>3, <2>4 DEF t
  <2>5. CASE a = InHand(u, r)
    <3>1. t = u /\ phase[t] = "send" /\ a \in Ahead(t)
      BY <2>1, <2>5 DEF InHand, Ahead, t
    <3>2. Slack(a)
      BY <1>2, <3>1 DEF t
    <3>3. CASE /\ run'[t].todo = run[t].todo \ {r}
               /\ accepted'[a] + lost[a] <= accepted[a] + lost'[a] + 1
      <4>1. accepted'[a] <= begun'[t] + lost'[a]
        BY <1>2, <2>1, <3>2, <3>3 DEF t
      <4>2. \A s \in run'[t].todo : s[1] # r[1]
        <5>1. Distinct(run[t].list) /\ run[t].todo \subseteq run[t].list
          BY <1>1 DEF RunOK, t
        <5> QED
          BY <2>1, <3>1, <3>3, <5>1 DEF Distinct
      <4>3. a \notin Ahead(t)'
        <5>1. a[2] = run[t].at /\ a[3] = r[1] /\ run'[t].at = run[t].at
          BY <2>2, <2>5, <3>1 DEF InHand
        <5>2. run[t].at \in Nat
          BY <1>2 DEF Run
        <5>3. ASSUME NEW d \in (run'[t].at + 1)..Deviations, NEW n \in Numbers
              PROVE  a # <<t, d, n>>
          BY <5>1, <5>2
        <5>4. ASSUME NEW s \in run'[t].todo PROVE a # InHand(t, s)'
          BY <4>2, <5>1 DEF InHand
        <5> QED
          BY <5>3, <5>4 DEF Ahead
      <4> QED
        BY <2>1, <3>1, <4>1, <4>3 DEF t
    <3>4. CASE accepted'[a] + lost[a] = accepted[a] + lost'[a]
      BY <1>2, <2>1, <3>2, <3>4 DEF t
    <3> QED
      BY <1>3, <2>5, <3>1, <3>3, <3>4, AttemptStep
  <2> QED
    BY <2>4, <2>5
<1>4. ASSUME NEW u \in Tasks, LogDeviation(u) PROVE Good(a)'
  <2>1. UNCHANGED <<begun, accepted, lost>> /\ phase[u] = "send"
    BY <1>4, LogStep
  <2>2. CASE u # t
    <3>1. run'[t] = run[t] /\ phase'[t] = phase[t]
      BY <1>1, <1>4, <2>2, LogStep DEF TypeOK
    <3>2. Ahead(t)' = Ahead(t)
      BY <3>1 DEF Ahead, InHand
    <3> QED
      BY <1>2, <2>1, <3>1, <3>2 DEF t
  <2>3. CASE u = t /\ phase' = [phase EXCEPT ![t] = "commit"]
    BY <1>1, <1>2, <2>1, <2>3 DEF t, TypeOK
  <2>4. CASE /\ u = t /\ run[t].at < Deviations /\ phase' = phase
             /\ run'[t].list = run[t].list /\ run'[t].at = run[t].at + 1
             /\ run'[t].todo = run[t].list
    <3>1. run[t].at \in 1..Deviations /\ Deviations \in Nat
      BY <1>2 DEF Run, NotificationAssumption
    <3>2. \A s \in run[t].list : s[1] \in Numbers
      BY <1>2 DEF Run, Rows
    <3>3. Ahead(t)' \subseteq Ahead(t)
      <4>1. ASSUME NEW d \in (run'[t].at + 1)..Deviations, NEW n \in Numbers
            PROVE  <<t, d, n>> \in Ahead(t)
        <5>1. d \in (run[t].at + 1)..Deviations
          BY <2>4, <3>1, <4>1
        <5> QED
          BY <4>1, <5>1 DEF Ahead
      <4>2. ASSUME NEW s \in run'[t].todo PROVE InHand(t, s)' \in Ahead(t)
        <5>1. InHand(t, s)' = <<t, run[t].at + 1, s[1]>> /\ s[1] \in Numbers
          BY <2>4, <3>2, <4>2 DEF InHand
        <5>2. run[t].at + 1 \in (run[t].at + 1)..Deviations
          BY <2>4, <3>1
        <5> QED
          BY <5>1, <5>2 DEF Ahead
      <4> QED
        BY <4>1, <4>2 DEF Ahead
    <3> QED
      BY <1>2, <2>1, <2>4, <3>3 DEF t
  <2> QED
    BY <1>4, <2>2, <2>3, <2>4, LogStep
<1>5. CASE \A u \in Tasks : ~LogDeviation(u) /\ \A r \in Rows : ~Attempt(u, r)
  <2>1. accepted' = accepted /\ lost' = lost
    BY <1>5, OtherStep
  <2>2. CASE begun'[t] = begun[t] /\ phase'[t] = phase[t] /\ run'[t] = run[t]
    <3>1. Ahead(t)' = Ahead(t)
      BY <2>2 DEF Ahead, InHand
    <3> QED
      BY <1>2, <2>1, <2>2, <3>1 DEF t
  <2>3. CASE begun'[t] = begun[t] + 1 /\ phase'[t] = "report"
    BY <1>2, <2>1, <2>3 DEF t
  <2>4. CASE begun'[t] = begun[t] /\ phase'[t] \in {"queued", "done", "failed"}
    BY <1>2, <2>1, <2>4 DEF t
  <2>5. CASE begun'[t] = begun[t] /\ phase[t] = "report" /\ phase'[t] = "numbers"
    BY <1>2, <2>1, <2>5 DEF t
  <2>6. CASE begun'[t] = begun[t] /\ phase[t] = "numbers"
    BY <1>2, <2>1, <2>6 DEF t
  <2> QED
    BY <1>1, <1>5, <2>2, <2>3, <2>4, <2>5, <2>6, PhaseStep
<1> QED
  BY <1>3, <1>4, <1>5

-----------------------------------------------------------------------------
(* The numbers *)

BookInv == IsFiniteSet(book) /\ BookKept /\ OneAtATime /\ Checked

\* Requests and removals keep limit and uniqueness, for none comes between the
\* checks of a request and its commit.
LEMMA BookInvKeeps ==
    ASSUME NotificationAssumption, TypeOK, BookInv, [Next]_vars
    PROVE  BookInv'
<1> USE DEF BookInv
<1>0. /\ Limit \in Nat /\ Cardinality(book) \in Nat
      /\ adding \in [Requests -> [step : {"idle", "count", "insert"},
                                  number : Numbers \union {None}]]
  BY FS_CardinalityType DEF NotificationAssumption, TypeOK
<1>1. ASSUME NEW q \in Requests, NEW n \in Numbers, CheckUnique(q, n) PROVE BookInv'
  <2>1. /\ book' = book /\ RowsOf(n) = {} /\ \A p \in Requests : adding[p].step = "idle"
        /\ adding' = [adding EXCEPT ![q] = [step |-> "count", number |-> n]]
    BY <1>1 DEF CheckUnique, Become, Unlocked
  <2>2. RowsOf(n)' = {}
    BY <2>1 DEF RowsOf
  <2> QED
    BY <1>0, <2>1, <2>2 DEF BookKept, OneAtATime, Checked
<1>2. ASSUME NEW q \in Requests, CountRows(q) PROVE BookInv'
  <2>1. book' = book /\ adding[q].step = "count"
    BY <1>2 DEF CountRows
  <2>2. \A m : RowsOf(m)' = RowsOf(m)
    BY <2>1 DEF RowsOf
  <2>3. CASE /\ Cardinality(book) >= Limit
             /\ adding' = [adding EXCEPT ![q] = [step |-> "idle", number |-> None]]
    BY <1>0, <2>1, <2>2, <2>3 DEF BookKept, OneAtATime, Checked
  <2>4. CASE /\ ~(Cardinality(book) >= Limit)
             /\ adding' = [adding EXCEPT ![q] =
                              [step |-> "insert", number |-> adding[q].number]]
    <3>1. Cardinality(book) < Limit
      BY <1>0, <2>4
    <3> QED
      BY <1>0, <2>1, <2>2, <2>4, <3>1 DEF BookKept, OneAtATime, Checked
  <2> QED
    BY <1>2, <2>3, <2>4 DEF CountRows, Become
<1>3. ASSUME NEW q \in Requests, Insert(q) PROVE BookInv'
  <2> DEFINE n == adding[q].number
  <2>1. /\ adding[q].step = "insert" /\ RowsOf(n) = {} /\ Cardinality(book) < Limit
        /\ adding' = [adding EXCEPT ![q] = [step |-> "idle", number |-> None]]
    BY <1>3 DEF Insert, Become, Checked
  <2>2. \A p \in Requests : adding'[p].step = "idle"
    BY <1>0, <2>1 DEF OneAtATime
  <2>3. IsFiniteSet(book') /\ BookKept'
    <3>1. CASE book' = book
      BY <3>1 DEF BookKept
    <3>2. CASE \E k \in Free(n) : book' = book \union {<<n, k>>}
      <4>1. PICK k \in Free(n) : book' = book \union {<<n, k>>}
        BY <3>2
      <4>2. <<n, k>> \notin book
        BY <4>1 DEF Free
      <4>3. IsFiniteSet(book') /\ Cardinality(book') = Cardinality(book) + 1
        BY <4>1, <4>2, FS_AddElement
      <4>4. Distinct(book')
        BY <2>1, <4>1 DEF BookKept, Distinct, RowsOf
      <4> QED
        BY <1>0, <2>1, <4>3, <4>4 DEF BookKept
    <3> QED
      BY <1>3, <3>1, <3>2 DEF Insert
  <2> QED
    BY <2>2, <2>3 DEF OneAtATime, Checked
<1>4. ASSUME NEW r \in Rows, Remove(r) PROVE BookInv'
  <2>1. book' = book \ {r} /\ adding' = adding /\ \A p \in Requests : adding[p].step = "idle"
    BY <1>4 DEF Remove, Unlocked
  <2>2. /\ IsFiniteSet(book') /\ Cardinality(book') <= Cardinality(book)
        /\ Cardinality(book') \in Nat
    BY <2>1, FS_Subset, FS_CardinalityType
  <2>3. Distinct(book')
    BY <2>1 DEF BookKept, Distinct
  <2> QED
    BY <1>0, <2>1, <2>2, <2>3 DEF BookKept, OneAtATime, Checked
<1>5. ASSUME UNCHANGED <<book, adding>> PROVE BookInv'
  BY <1>5 DEF BookKept, OneAtATime, Checked, RowsOf
<1>6. ASSUME NEW t \in Tasks, Queue(t) \/ Work(t) \/ Crash(t) \/ DeleteReport(t)
      PROVE  UNCHANGED <<book, adding>>
  BY <1>6 DEF Queue, Work, Crash, DeleteReport, Begin, FetchReport, FetchNumbers, Attempt,
              LogDeviation, CommitLogs, Fail, TaskOnly, book_vars
<1>7. CASE UNCHANGED vars
  BY <1>5, <1>7 DEF vars
<1> QED
  BY <1>1, <1>2, <1>3, <1>4, <1>5, <1>6, <1>7 DEF Next

-----------------------------------------------------------------------------

IInv ==
    /\ TypeOK /\ RunOK /\ Drafted /\ Heard
    /\ SentWasAccepted /\ BookInv

\* Nothing is configured, begun or sent at the start.
LEMMA InitIInv == NotificationAssumption /\ Init => IInv
<1> SUFFICES ASSUME NotificationAssumption, Init PROVE IInv
  OBVIOUS
<1>1. TypeOK
  <2>1. NoRun \in Run
    BY ReadingType
  <2> QED
    BY <2>1 DEF Init, TypeOK, Phases, NotificationAssumption
<1>2. NoRun.list = {} /\ NoRun.todo = {} /\ NoRun.tried = {} /\ NoRun.drafts = {}
  BY DEF NoRun, Reading
<1>3. RunOK /\ Drafted /\ SentWasAccepted
  BY <1>2 DEF Init, RunOK, Drafted, SentWasAccepted, Distinct
<1>4. Heard
  <2>1. \A a \in Alerts : a[1] \in Tasks
    BY DEF Alerts
  <2> QED
    BY <2>1 DEF Init, Heard
<1>5. BookInv
  BY FS_EmptySet
  DEF Init, BookInv, BookKept, Distinct, OneAtATime, Checked, NotificationAssumption
<1> QED
  BY <1>1, <1>3, <1>4, <1>5 DEF IInv

\* Every step keeps all parts of the invariant.
LEMMA NextIInv == NotificationAssumption /\ IInv /\ [Next]_vars => IInv'
<1> SUFFICES ASSUME NotificationAssumption, IInv, [Next]_vars PROVE IInv'
  OBVIOUS
<1>1. TypeOK' /\ RunOK'
  BY NextType, RunOKKeeps DEF IInv, BookInv
<1> QED
  BY <1>1, DraftedKeeps, HeardKeeps, SentKeeps, BookInvKeeps DEF IInv

\* The parts of the invariant hold in every reachable state.
THEOREM Inductive == Spec => []IInv
<1>1. NotificationAssumption
  BY NotificationAssumption
<1> QED
  BY <1>1, InitIInv, NextIInv, PTL DEF Spec

\* Every variable of the numbers and of the tasks keeps its type.
THEOREM TypeCorrect == Spec => []TypeOK
BY Inductive, PTL DEF IInv

\* add_phone_number keeps to its limit and stores no number twice, however
\* requests of the user overlap.
THEOREM BookAlwaysKept == Spec => []BookKept
<1>1. IInv => BookKept
  BY DEF IInv, BookInv
<1> QED
  BY <1>1, Inductive, PTL

\* A log row that says "sent" stands for a message WhatsApp accepted.
THEOREM SentIsTrue == Spec => []SentWasAccepted
BY Inductive, PTL DEF IInv

\* An alert is sent once more only by a task that began again, or after an
\* accepted message whose answer was lost.
THEOREM NoNeedlessRepeat == Spec => []RepeatedOnlyForAReason
<1>1. IInv => RepeatedOnlyForAReason
  BY DEF IInv, Heard, RepeatedOnlyForAReason
<1> QED
  BY <1>1, Inductive, PTL
=============================================================================
