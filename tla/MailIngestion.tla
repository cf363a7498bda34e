---------------------------- MODULE MailIngestion ----------------------------
(***************************************************************************)
(* From the mailbox to the parse queue: the poll_mailbox task that Celery  *)
(* beat starts, and the scheduler thread of the API server that polls the  *)
(* same mailbox.                                                           *)
(*                                                                         *)
(* A poll searches the unread mail, fetches it, flags it as read, writes a *)
(* row per mail in one transaction, and only then hands the rows to the    *)
(* parser.  Polls overlap: beat does not wait for the last one, retries    *)
(* are tasks of their own, and the scheduler is another process.           *)
(*                                                                         *)
(* A mail here is one of a registered sender with one attachment that      *)
(* passes the filter; the others leave no trace but the flag.  The parser  *)
(* is module ReportPipeline; all that matters of it here is whether it     *)
(* moves a row on from "received".                                         *)
(***************************************************************************)
EXTENDS Naturals, FiniteSets

CONSTANTS
    Mails,         \* mail that may arrive
    Ids,           \* keys of the rows of reports
    Tasks,         \* poll_mailbox tasks in progress at once
    Schedulers,    \* scheduler threads, one per API server
    MaxRetries,    \* max_retries of the task
    MaxFaults      \* bound on exceptions and crashes

Pollers == Tasks \union Schedulers

ASSUME MailAssumption ==
    /\ IsFiniteSet(Pollers)
    /\ IsFiniteSet(Ids)
    /\ Tasks \intersect Schedulers = {}
    /\ MaxRetries \in Nat
    /\ MaxFaults \in Nat

VARIABLES
    mailbox,    \* each mail: not there yet, unread, or flagged \Seen
    rows,       \* the table of reports, uncommitted rows included
    queued,     \* parse_report messages waiting, per row
    poll,       \* where each poller stands
    faults,     \* exceptions and crashes so far
    dropped,    \* history: mail in the hands of a poll that failed or crashed
    left        \* history: rows a poll committed and did not hand on, or the
                \* parser gave up on without a trace

vars == <<mailbox, rows, queued, poll, faults, dropped, left>>

NoRow == [state |-> "none"]
Row == [state : {"pending", "received", "handled"}, mail : Mails, by : Pollers]

Steps == {"idle", "search", "fetch", "flag", "process", "select", "commit", "queue"}

\* uids: what the search returned and process_email has not been called for;
\* batch: rows to hand to the parser; tries: retries of the task so far.
Poll == [step : Steps, uids : SUBSET Mails, batch : SUBSET Ids, tries : Nat]

Rest == [step |-> "idle", uids |-> {}, batch |-> {}, tries |-> 0]
Again(n) == [step |-> "search", uids |-> {}, batch |-> {}, tries |-> n]

Init ==
    /\ mailbox = [m \in Mails |-> "absent"]
    /\ rows = [i \in Ids |-> NoRow]
    /\ queued = [i \in Ids |-> 0]
    /\ poll = [p \in Pollers |-> Rest]
    /\ faults = 0
    /\ dropped = {}
    /\ left = {}

-----------------------------------------------------------------------------

Unseen == {m \in Mails : mailbox[m] = "unseen"}
Pending(p) == {i \in Ids : rows[i].state = "pending" /\ rows[i].by = p}
Received == {i \in Ids : rows[i].state = "received"}

MarkSeen(S) == mailbox' = [m \in Mails |-> IF m \in S THEN "seen" ELSE mailbox[m]]

Become(p, r) == poll' = [poll EXCEPT ![p] = r]
Goto(p, s) == Become(p, [poll[p] EXCEPT !.step = s])

\* A mail is delivered.
Arrive(m) ==
    /\ mailbox[m] = "absent"
    /\ mailbox' = [mailbox EXCEPT ![m] = "unseen"]
    /\ UNCHANGED <<rows, queued, poll, faults, dropped, left>>

\* beat sends the task; the interval of the scheduler is over.
Start(p) ==
    /\ poll[p].step = "idle"
    /\ Goto(p, "search")
    /\ UNCHANGED <<mailbox, rows, queued, faults, dropped, left>>

\* Mutant: all mail is searched, read or not.
MutSearch(p) ==
    LET found == {m \in Mails : mailbox[m] # "absent"} IN
    /\ poll[p].step = "search"
    /\ Become(p, IF found = {} THEN Rest
                 ELSE [poll[p] EXCEPT !.step = "fetch", !.uids = found])
    /\ UNCHANGED <<mailbox, rows, queued, faults, dropped, left>>

\* SEARCH UNSEEN; nothing found ends the poll.
Search(p) ==
    /\ poll[p].step = "search"
    /\ Become(p, IF Unseen = {} THEN Rest
                 ELSE [poll[p] EXCEPT !.step = "fetch", !.uids = Unseen])
    /\ UNCHANGED <<mailbox, rows, queued, faults, dropped, left>>

\* FETCH RFC822; a server sets \Seen when it serves the body of a message.
Fetch(p) ==
    /\ poll[p].step = "fetch"
    /\ MarkSeen(poll[p].uids) \/ UNCHANGED mailbox
    /\ Goto(p, "flag")
    /\ UNCHANGED <<rows, queued, faults, dropped, left>>

\* Mutant: the flag goes on whatever is unread by now.
MutFlag(p) ==
    /\ poll[p].step = "flag"
    /\ MarkSeen(poll[p].uids \union Unseen)
    /\ Goto(p, "process")
    /\ UNCHANGED <<rows, queued, faults, dropped, left>>

\* add_flags(uids, \Seen): after it only this poll knows of the mail.
Flag(p) ==
    /\ poll[p].step = "flag"
    /\ MarkSeen(poll[p].uids)
    /\ Goto(p, "process")
    /\ UNCHANGED <<rows, queued, faults, dropped, left>>

\* A key no row has: keys are UUIDs, any will do.
NewId == CHOOSE i \in Ids : rows[i] = NoRow

\* process_email for one mail: a row, not yet committed.
Process(p, m) ==
    /\ poll[p].step = "process"
    /\ m \in poll[p].uids
    /\ \E i \in Ids : rows[i] = NoRow
    /\ rows' = [rows EXCEPT ![NewId] = [state |-> "pending", mail |-> m, by |-> p]]
    /\ Become(p, [poll[p] EXCEPT !.uids = @ \ {m},
                                 !.step = IF poll[p].uids # {m} THEN "process"
                                          ELSE IF p \in Tasks THEN "select"
                                          ELSE "commit"])
    /\ UNCHANGED <<mailbox, queued, faults, dropped, left>>

\* The task selects every row that is "received", its own included, and
\* whoever wrote the others.
Select(p) ==
    /\ poll[p].step = "select"
    /\ Become(p, [poll[p] EXCEPT !.step = "commit", !.batch = Received \union Pending(p)])
    /\ UNCHANGED <<mailbox, rows, queued, faults, dropped, left>>

Committed(p) ==
    [i \in Ids |-> IF i \in Pending(p) THEN [rows[i] EXCEPT !.state = "received"]
                   ELSE rows[i]]

\* Mutant: the rows are handed on, but never committed.
MutCommit(p) ==
    /\ poll[p].step = "commit"
    /\ Become(p, IF poll[p].batch = {} THEN Rest ELSE [poll[p] EXCEPT !.step = "queue"])
    /\ left' = IF p \in Tasks THEN left \ poll[p].batch ELSE left \union Pending(p)
    /\ UNCHANGED <<mailbox, rows, queued, faults, dropped>>

\* The commit.  The scheduler is done with it; the task still has its batch.
Commit(p) ==
    /\ poll[p].step = "commit"
    /\ rows' = Committed(p)
    /\ Become(p, IF poll[p].batch = {} THEN Rest ELSE [poll[p] EXCEPT !.step = "queue"])
    /\ left' = IF p \in Tasks THEN left \ poll[p].batch ELSE left \union Pending(p)
    /\ UNCHANGED <<mailbox, queued, faults, dropped>>

\* Mutant: only the first row of the batch is handed on.
MutQueue(p, i) ==
    /\ poll[p].step = "queue"
    /\ i \in poll[p].batch
    /\ queued' = [queued EXCEPT ![i] = @ + 1]
    /\ Become(p, Rest)
    /\ UNCHANGED <<mailbox, rows, faults, dropped, left>>

\* _queue_parse_task for one row of the batch
Queue(p, i) ==
    /\ poll[p].step = "queue"
    /\ i \in poll[p].batch
    /\ queued' = [queued EXCEPT ![i] = @ + 1]
    /\ Become(p, IF poll[p].batch = {i} THEN Rest
                 ELSE [poll[p] EXCEPT !.batch = @ \ {i}])
    /\ UNCHANGED <<mailbox, rows, faults, dropped, left>>

\* The parser takes a message and moves the row on.
Parse(i) ==
    /\ queued[i] > 0
    /\ queued' = [queued EXCEPT ![i] = @ - 1]
    /\ rows' = IF rows[i] = NoRow THEN rows
               ELSE [rows EXCEPT ![i].state = "handled"]
    /\ UNCHANGED <<mailbox, poll, faults, dropped, left>>

\* The parser raises and _mark_report_failed raises too: the task fails before
\* self.retry, its message is acknowledged, and the row stays as it is.
ParseUnmarked(i) ==
    /\ queued[i] > 0
    /\ faults < MaxFaults
    /\ faults' = faults + 1
    /\ queued' = [queued EXCEPT ![i] = @ - 1]
    /\ left' = left \union {i}
    /\ UNCHANGED <<mailbox, rows, poll, dropped>>

-----------------------------------------------------------------------------
(* A poll ends early *)

\* The mail of the rows in S.
MailOf(S) == {rows[i].mail : i \in S}

\* The transaction is rolled back; what the poll still had to hand on stays.
Abandon(p) ==
    /\ faults < MaxFaults
    /\ poll[p].step # "idle"
    /\ faults' = faults + 1
    /\ rows' = [i \in Ids |-> IF i \in Pending(p) THEN NoRow ELSE rows[i]]
    /\ dropped' = dropped \union poll[p].uids \union MailOf(Pending(p))
    /\ left' = IF poll[p].step = "queue" THEN left \union poll[p].batch ELSE left

\* An exception: self.retry starts the task again, up to max_retries; the
\* scheduler logs it and waits for its next turn.
Fail(p) ==
    /\ Abandon(p)
    /\ Become(p, IF p \in Tasks /\ poll[p].tries < MaxRetries
                 THEN Again(poll[p].tries + 1)
                 ELSE Rest)
    /\ UNCHANGED <<mailbox, queued>>

\* The process dies: the broker delivers the unacknowledged task again
\* (task_acks_late, task_reject_on_worker_lost), the scheduler starts afresh.
Crash(p) ==
    /\ Abandon(p)
    /\ Become(p, IF p \in Tasks THEN Again(poll[p].tries) ELSE Rest)
    /\ UNCHANGED <<mailbox, queued>>

-----------------------------------------------------------------------------

Work(p) ==
    \/ Search(p) \/ Fetch(p) \/ Flag(p) \/ Select(p) \/ Commit(p)
    \/ \E m \in Mails : Process(p, m)
    \/ \E i \in Ids : Queue(p, i)

Next ==
    \/ \E m \in Mails : Arrive(m)
    \/ \E i \in Ids : Parse(i) \/ ParseUnmarked(i)
    \/ \E p \in Pollers : Start(p) \/ Work(p) \/ Fail(p) \/ Crash(p)

Spec == Init /\ [][Next]_vars

\* beat and the scheduler go on polling, and a poll that runs goes on.
FairSpec ==
    /\ Spec
    /\ \A p \in Pollers : WF_vars(Start(p)) /\ WF_vars(Work(p))
    /\ \A i \in Ids : WF_vars(Parse(i))

-----------------------------------------------------------------------------
(* Properties *)

TypeOK ==
    /\ mailbox \in [Mails -> {"absent", "unseen", "seen"}]
    /\ rows \in [Ids -> Row \union {NoRow}]
    /\ queued \in [Ids -> Nat]
    /\ poll \in [Pollers -> Poll]
    /\ faults \in Nat
    /\ dropped \subseteq Mails
    /\ left \subseteq Ids

RowsOf(m) == {i \in Ids : rows[i] # NoRow /\ rows[i].mail = m}
Holders(m) == {p \in Pollers : m \in poll[p].uids}

\* However polls overlap, retry and crash, a mail gets at most one row per
\* poller: no duplicates with one, and never more than one for each.
RowsBounded ==
    \A m \in Mails :
        Cardinality(RowsOf(m)) + Cardinality(Holders(m)) <= Cardinality(Pollers)

\* A message for the parser names a row that is committed.
QueuedIsCommitted ==
    \A i \in Ids : queued[i] > 0 => rows[i].state \in {"received", "handled"}

\* Mail that no search will return again has a row, or is in the hands of a
\* poll, unless a poll that had it failed.
LostOnlyByFailure ==
    \A m \in Mails :
        mailbox[m] = "seen" /\ RowsOf(m) = {} /\ Holders(m) = {} => m \in dropped

\* A row waits for the parser only with a message, with a poll about to send
\* one, or because the poll that wrote it failed or was the scheduler or the
\* parser failed without a trace, and then until the next batch takes it along.
WaitingIsHandedOn ==
    \A i \in Received :
        \/ queued[i] > 0
        \/ \E p \in Pollers : poll[p].step = "queue" /\ i \in poll[p].batch
        \/ i \in left

\* Mail that arrives is written down in the end, unless a poll dropped it.
MailIsWritten ==
    \A m \in Mails :
        mailbox[m] = "unseen" ~> (m \in dropped \/ RowsOf(m) # {})
=============================================================================
