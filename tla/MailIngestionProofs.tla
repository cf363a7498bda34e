------------------------- MODULE MailIngestionProofs -------------------------
(***************************************************************************)
(* The safety of MailIngestion for any mail, pollers, retries and faults.  *)
(*                                                                         *)
(* The argument turns on the flag: a mail that has a row was flagged by    *)
(* the poll that wrote it, so no later search returns it, and whoever      *)
(* still holds it searched before.  A row therefore always takes the place *)
(* of a holder (RowsBounded), and a mail that loses its last holder has a  *)
(* row or was dropped (LostOnlyByFailure).  The rows in the hands of a     *)
(* task are those of its select, which its commit makes visible before the *)
(* first of them is queued (QueuedIsCommitted, WaitingIsHandedOn).         *)
(***************************************************************************)
EXTENDS MailIngestion, FiniteSetTheorems, TLAPS

\* A mail with a row, and a mail a poll is writing down, is flagged as read.
RowsAreSeen ==
    /\ \A i \in Ids : rows[i] # NoRow => mailbox[rows[i].mail] = "seen"
    /\ \A p \in Pollers : poll[p].step = "process"
          => \A m \in poll[p].uids : mailbox[m] = "seen"

\* Only a poll between the search and the last mail has mail in its hands, and
\* only one past its select has a batch.
HandsEmpty ==
    \A p \in Pollers :
        /\ poll[p].step \notin {"fetch", "flag", "process"} => poll[p].uids = {}
        /\ poll[p].step \notin {"commit", "queue"} => poll[p].batch = {}

\* A batch about to be queued is committed; before the commit it covers what the
\* task has written.
Batches ==
    \A p \in Pollers :
        /\ poll[p].step = "queue" =>
              \A i \in poll[p].batch : rows[i].state \in {"received", "handled"}
        /\ poll[p].step = "commit" =>
              \A i \in poll[p].batch : rows[i].state \in {"received", "handled"}
                                         \/ i \in Pending(p)
        /\ poll[p].step = "commit" /\ p \in Tasks => Pending(p) \subseteq poll[p].batch

IInv ==
    /\ TypeOK
    /\ RowsAreSeen
    /\ HandsEmpty
    /\ Batches
    /\ QueuedIsCommitted
    /\ LostOnlyByFailure
    /\ WaitingIsHandedOn
    /\ RowsBounded

\* An absent row is none of the rows of the table.
LEMMA AbsentIsDistinct ==
    NoRow \notin Row /\ NoRow.state = "none" /\ \A r \in Row : r.state # "none"
  BY DEF NoRow, Row

\* The state is well typed from the start.
LEMMA InitType == Init => TypeOK
  BY MailAssumption DEF Init, TypeOK, Rest, Poll, Steps

\* Every step keeps the state well typed.
LEMMA NextType == TypeOK /\ [Next]_vars => TypeOK'
<1> SUFFICES ASSUME TypeOK, [Next]_vars PROVE TypeOK'
  OBVIOUS
<1> USE DEF TypeOK
<1>a. ASSUME NEW p \in Pollers, NEW r \in Poll, Become(p, r)
      PROVE  poll' \in [Pollers -> Poll]
  BY <1>a DEF Become
<1>b. ASSUME NEW p \in Pollers, NEW s \in Steps
      PROVE  [poll[p] EXCEPT !.step = s] \in Poll
  BY <1>b DEF Poll
<1>c. Rest \in Poll
  BY DEF Rest, Poll, Steps
<1>1. ASSUME NEW m \in Mails, Arrive(m)
      PROVE  TypeOK'
  BY <1>1 DEF Arrive
<1>2. ASSUME NEW p \in Pollers, Start(p)
      PROVE  TypeOK'
  BY <1>2, <1>a, <1>b DEF Start, Goto, Steps
<1>3. ASSUME NEW p \in Pollers, Search(p)
      PROVE  TypeOK'
  <2>1. [poll[p] EXCEPT !.step = "fetch", !.uids = Unseen] \in Poll
    BY DEF Poll, Steps, Unseen
  <2> QED
    BY <1>3, <1>a, <1>c, <2>1 DEF Search
<1>4. ASSUME NEW p \in Pollers, Fetch(p) \/ Flag(p)
      PROVE  TypeOK'
  <2>1. mailbox' \in [Mails -> {"absent", "unseen", "seen"}]
    BY <1>4 DEF Fetch, Flag, MarkSeen
  <2> QED
    BY <1>4, <1>a, <1>b, <2>1 DEF Fetch, Flag, Goto, Steps
<1>5. ASSUME NEW p \in Pollers, NEW m \in Mails, Process(p, m)
      PROVE  TypeOK'
  <2>1. [state |-> "pending", mail |-> m, by |-> p] \in Row
    BY DEF Row
  <2>2. poll' \in [Pollers -> Poll]
    BY <1>5, <1>a DEF Process, Poll, Steps
  <2> QED
    BY <1>5, <2>1, <2>2 DEF Process
<1>6. ASSUME NEW p \in Pollers, Select(p)
      PROVE  TypeOK'
  <2>1. [poll[p] EXCEPT !.step = "commit", !.batch = Received \union Pending(p)] \in Poll
    BY DEF Poll, Steps, Received, Pending
  <2> QED
    BY <1>6, <1>a, <2>1 DEF Select
<1>7. ASSUME NEW p \in Pollers, Commit(p)
      PROVE  TypeOK'
  <2>1. rows' \in [Ids -> Row \union {NoRow}]
    BY <1>7, AbsentIsDistinct DEF Commit, Committed, Pending, Row
  <2>2. poll' \in [Pollers -> Poll]
    BY <1>7, <1>a, <1>b, <1>c DEF Commit, Steps
  <2> QED
    BY <1>7, <2>1, <2>2 DEF Commit, Pending
<1>8. ASSUME NEW p \in Pollers, NEW i \in Ids, Queue(p, i)
      PROVE  TypeOK'
  <2>1. [poll[p] EXCEPT !.batch = @ \ {i}] \in Poll
    BY DEF Poll
  <2> QED
    BY <1>8, <1>a, <1>c, <2>1 DEF Queue
<1>9. ASSUME NEW i \in Ids, Parse(i)
      PROVE  TypeOK'
  <2>1. rows' \in [Ids -> Row \union {NoRow}]
    BY <1>9 DEF Parse, Row
  <2> QED
    BY <1>9, <2>1 DEF Parse
<1>10. ASSUME NEW p \in Pollers, Fail(p) \/ Crash(p)
       PROVE  TypeOK'
  <2>1. Again(poll[p].tries + 1) \in Poll /\ Again(poll[p].tries) \in Poll
    <3>1. poll[p].tries \in Nat
      BY DEF Poll
    <3> QED
      BY <3>1 DEF Poll, Again, Steps
  <2>2. poll' \in [Pollers -> Poll]
    BY <1>10, <1>a, <1>c, <2>1 DEF Fail, Crash
  <2>3. MailOf(Pending(p)) \subseteq Mails
    BY AbsentIsDistinct DEF MailOf, Pending, Row, NoRow
  <2>4. poll[p].uids \subseteq Mails /\ poll[p].batch \subseteq Ids
    BY DEF Poll
  <2> QED
    BY <1>10, <2>2, <2>3, <2>4 DEF Fail, Crash, Abandon
<1>11. CASE UNCHANGED vars
  BY <1>11 DEF vars
<1> QED
  BY <1>1, <1>2, <1>3, <1>4, <1>5, <1>6, <1>7, <1>8, <1>9, <1>10, <1>11
     DEF Next, ParseUnmarked, Work

-----------------------------------------------------------------------------

\* A step moves one poller at most.
LEMMA OnePollerMoves ==
    ASSUME TypeOK, NEW p \in Pollers, Start(p) \/ Work(p) \/ Fail(p) \/ Crash(p),
           NEW q \in Pollers, q # p
    PROVE  poll'[q] = poll[q]
  BY DEF TypeOK, Start, Work, Search, Fetch, Flag, Process, Select, Commit, Queue,
         Fail, Crash, Become, Goto

\* The poller is back at rest after the step.
Resting(p) == poll'[p].step = "idle" /\ poll'[p].uids = {} /\ poll'[p].batch = {}

\* The poller is at s after the step, with the mail and the batch it had.
MovedTo(p, s) ==
    poll'[p].step = s /\ poll'[p].uids = poll[p].uids /\ poll'[p].batch = poll[p].batch

\* Where a step leaves the poller that takes it.
LEMMA PollerAfter ==
    ASSUME TypeOK, NEW p \in Pollers
    PROVE  /\ Start(p) => MovedTo(p, "search")
           /\ Search(p) =>
                 \/ Resting(p)
                 \/ /\ poll'[p].step = "fetch" /\ poll'[p].uids = Unseen
                    /\ poll'[p].batch = poll[p].batch
           /\ Fetch(p) => MovedTo(p, "flag")
           /\ Flag(p) => MovedTo(p, "process")
           /\ \A m \in Mails : Process(p, m) =>
                 /\ poll'[p].uids = poll[p].uids \ {m}
                 /\ \/ poll'[p].step = "process"
                    \/ poll'[p].step = "select" /\ p \in Tasks /\ poll'[p].uids = {}
                    \/ poll'[p].step = "commit" /\ p \notin Tasks /\ poll'[p].uids = {}
                 /\ poll'[p].batch = poll[p].batch
           /\ Select(p) => /\ poll'[p].step = "commit" /\ poll'[p].uids = poll[p].uids
                           /\ poll'[p].batch = Received \union Pending(p)
           /\ Commit(p) => \/ poll[p].batch = {} /\ Resting(p)
                           \/ MovedTo(p, "queue")
           /\ \A i \in Ids : Queue(p, i) =>
                 \/ poll[p].batch = {i} /\ Resting(p)
                 \/ /\ poll'[p].step = "queue" /\ poll'[p].uids = poll[p].uids
                    /\ poll'[p].batch = poll[p].batch \ {i}
           /\ Fail(p) \/ Crash(p) =>
                 /\ poll'[p].step \in {"idle", "search"}
                 /\ poll'[p].uids = {} /\ poll'[p].batch = {}
<1> USE DEF TypeOK, Become, Goto, Resting, MovedTo
<1>1. poll[p] \in Poll
  OBVIOUS
<1>2. ASSUME NEW r, Become(p, r)
      PROVE  poll'[p] = r
  BY <1>2
<1>3. ASSUME Fail(p) \/ Crash(p)
      PROVE  /\ poll'[p].step \in {"idle", "search"}
             /\ poll'[p].uids = {} /\ poll'[p].batch = {}
  BY <1>1, <1>2, <1>3 DEF Fail, Crash, Rest, Again
<1>4. /\ Start(p) => MovedTo(p, "search")
      /\ Fetch(p) => MovedTo(p, "flag")
      /\ Flag(p) => MovedTo(p, "process")
      /\ Select(p) => /\ poll'[p].step = "commit" /\ poll'[p].uids = poll[p].uids
                      /\ poll'[p].batch = Received \union Pending(p)
  BY <1>1, <1>2 DEF Start, Fetch, Flag, Select, Poll
<1>5. ASSUME Search(p)
      PROVE  \/ Resting(p)
             \/ /\ poll'[p].step = "fetch" /\ poll'[p].uids = Unseen
                /\ poll'[p].batch = poll[p].batch
  BY <1>1, <1>2, <1>5 DEF Search, Poll, Rest
<1>6. ASSUME NEW m \in Mails, Process(p, m)
      PROVE  /\ poll'[p].uids = poll[p].uids \ {m}
             /\ \/ poll'[p].step = "process"
                \/ poll'[p].step = "select" /\ p \in Tasks /\ poll'[p].uids = {}
                \/ poll'[p].step = "commit" /\ p \notin Tasks /\ poll'[p].uids = {}
             /\ poll'[p].batch = poll[p].batch
  BY <1>1, <1>2, <1>6 DEF Process, Poll
<1>7. ASSUME Commit(p)
      PROVE  \/ poll[p].batch = {} /\ Resting(p)
             \/ MovedTo(p, "queue")
  BY <1>1, <1>2, <1>7 DEF Commit, Poll, Rest
<1>8. ASSUME NEW i \in Ids, Queue(p, i)
      PROVE  \/ poll[p].batch = {i} /\ Resting(p)
             \/ /\ poll'[p].step = "queue" /\ poll'[p].uids = poll[p].uids
                /\ poll'[p].batch = poll[p].batch \ {i}
  BY <1>1, <1>2, <1>8 DEF Queue, Poll, Rest
<1> QED
  BY <1>3, <1>4, <1>5, <1>6, <1>7, <1>8

\* What a step does to the rows: Process adds one, a commit makes those of the
\* poll visible, a fault removes them, and the parser moves one on.
LEMMA RowsAfter ==
    ASSUME TypeOK, NEW i \in Ids
    PROVE  /\ \A p \in Pollers, m \in Mails : Process(p, m) =>
                 \/ rows'[i] = rows[i]
                 \/ /\ i = NewId /\ rows[i] = NoRow
                    /\ rows'[i] = [state |-> "pending", mail |-> m, by |-> p]
           /\ \A p \in Pollers : Commit(p) =>
                 IF i \in Pending(p)
                 THEN /\ rows'[i] # NoRow /\ rows'[i].state = "received"
                      /\ rows'[i].mail = rows[i].mail /\ rows'[i].by = p
                 ELSE rows'[i] = rows[i]
           /\ \A p \in Pollers : Fail(p) \/ Crash(p) =>
                 rows'[i] = IF i \in Pending(p) THEN NoRow ELSE rows[i]
           /\ \A j \in Ids : Parse(j) =>
                 \/ rows'[i] = rows[i]
                 \/ /\ i = j /\ rows[i] # NoRow /\ rows'[i] # NoRow
                    /\ rows'[i].state = "handled"
                    /\ rows'[i].mail = rows[i].mail /\ rows'[i].by = rows[i].by
<1> USE AbsentIsDistinct DEF TypeOK
<1>1. ASSUME NEW p \in Pollers, NEW m \in Mails, Process(p, m)
      PROVE  \/ rows'[i] = rows[i]
             \/ /\ i = NewId /\ rows[i] = NoRow
                /\ rows'[i] = [state |-> "pending", mail |-> m, by |-> p]
  <2>1. NewId \in Ids /\ rows[NewId] = NoRow
    BY <1>1 DEF Process, NewId
  <2> QED
    BY <1>1, <2>1 DEF Process
<1>2. ASSUME NEW p \in Pollers, Commit(p)
      PROVE  IF i \in Pending(p)
             THEN /\ rows'[i] # NoRow /\ rows'[i].state = "received"
                  /\ rows'[i].mail = rows[i].mail /\ rows'[i].by = p
             ELSE rows'[i] = rows[i]
  <2>1. CASE i \in Pending(p)
    <3>1. rows[i] \in Row /\ rows[i].by = p
      BY <2>1 DEF Pending
    <3>2. rows'[i] = [rows[i] EXCEPT !.state = "received"]
      BY <1>2, <2>1 DEF Commit, Committed
    <3> QED
      BY <2>1, <3>1, <3>2 DEF Row
  <2>2. CASE i \notin Pending(p)
    BY <1>2, <2>2 DEF Commit, Committed
  <2> QED
    BY <2>1, <2>2
<1>3. ASSUME NEW p \in Pollers, Fail(p) \/ Crash(p)
      PROVE  rows'[i] = IF i \in Pending(p) THEN NoRow ELSE rows[i]
  BY <1>3 DEF Fail, Crash, Abandon
<1>4. ASSUME NEW j \in Ids, Parse(j)
      PROVE  \/ rows'[i] = rows[i]
             \/ /\ i = j /\ rows[i] # NoRow /\ rows'[i] # NoRow
                /\ rows'[i].state = "handled"
                /\ rows'[i].mail = rows[i].mail /\ rows'[i].by = rows[i].by
  BY <1>4 DEF Parse, Row
<1> QED
  BY <1>1, <1>2, <1>3, <1>4

\* Flags are only ever added, and by the polls that hold the mail.
LEMMA MailboxAfter ==
    ASSUME TypeOK, NEW m \in Mails
    PROVE  /\ \A p \in Pollers : Flag(p) =>
                 mailbox'[m] = IF m \in poll[p].uids THEN "seen" ELSE mailbox[m]
           /\ \A p \in Pollers : Fetch(p) =>
                 \/ mailbox'[m] = mailbox[m]
                 \/ mailbox'[m] = "seen" /\ m \in poll[p].uids
           /\ \A n \in Mails : Arrive(n) =>
                 \/ mailbox'[m] = mailbox[m]
                 \/ mailbox'[m] = "unseen" /\ mailbox[m] = "absent"
           /\ [Next]_vars /\ mailbox[m] = "seen" => mailbox'[m] = "seen"
<1> USE DEF TypeOK, MarkSeen
<1>1. ASSUME NEW p \in Pollers, Flag(p)
      PROVE  mailbox'[m] = IF m \in poll[p].uids THEN "seen" ELSE mailbox[m]
  BY <1>1 DEF Flag
<1>2. ASSUME NEW p \in Pollers, Fetch(p)
      PROVE  \/ mailbox'[m] = mailbox[m]
             \/ mailbox'[m] = "seen" /\ m \in poll[p].uids
  BY <1>2 DEF Fetch
<1>3. ASSUME NEW n \in Mails, Arrive(n)
      PROVE  \/ mailbox'[m] = mailbox[m]
             \/ mailbox'[m] = "unseen" /\ mailbox[m] = "absent"
  BY <1>3 DEF Arrive
<1>4. ASSUME [Next]_vars, mailbox[m] = "seen"
      PROVE  mailbox'[m] = "seen"
  BY <1>1, <1>2, <1>3, <1>4
     DEF Next, ParseUnmarked, vars, Work, Start, Search, Process, Select, Commit, Queue, Parse, Fail, Crash
<1> QED
  BY <1>1, <1>2, <1>3, <1>4

\* A row is written for a mail the poll has flagged.
LEMMA NextSeen == IInv /\ TypeOK' /\ [Next]_vars => RowsAreSeen'
<1> SUFFICES ASSUME IInv, TypeOK', [Next]_vars PROVE RowsAreSeen'
  OBVIOUS
<1> USE AbsentIsDistinct DEF IInv, TypeOK
<1>a. \A i \in Ids : rows[i] # NoRow => rows[i].mail \in Mails
  BY DEF Row
<1>b. \A p \in Pollers : poll[p].uids \subseteq Mails
  BY DEF Poll
<1>1. ASSUME NEW i \in Ids, rows'[i] # NoRow
      PROVE  mailbox'[rows'[i].mail] = "seen"
  <2>1. CASE rows[i] # NoRow /\ rows'[i].mail = rows[i].mail
    BY <1>a, <2>1, MailboxAfter DEF RowsAreSeen
  <2>2. ASSUME NEW p \in Pollers, NEW m \in Mails, Process(p, m),
               rows'[i] = [state |-> "pending", mail |-> m, by |-> p]
        PROVE  mailbox'[rows'[i].mail] = "seen"
    BY <2>2 DEF RowsAreSeen, Process
  <2>3. rows'[i] = rows[i] => rows[i] # NoRow /\ rows'[i].mail = rows[i].mail
    BY <1>1
  <2> QED
    BY <1>1, <2>1, <2>2, <2>3, RowsAfter
       DEF Next, ParseUnmarked, vars, Work, Arrive, Start, Search, Fetch, Flag, Select, Queue, Pending
<1>2. ASSUME NEW p \in Pollers, poll'[p].step = "process", NEW m \in poll'[p].uids
      PROVE  mailbox'[m] = "seen"
  <2>0. m \in Mails
    BY <1>2 DEF Poll
  <2>1. CASE poll'[p] = poll[p]
    BY <1>2, <2>0, <2>1, MailboxAfter DEF RowsAreSeen
  <2>2. CASE Flag(p)
    BY <1>2, <2>0, <2>2, MailboxAfter, PollerAfter DEF MovedTo
  <2>3. ASSUME NEW n \in Mails, Process(p, n)
        PROVE  mailbox'[m] = "seen"
    <3>1. poll[p].step = "process" /\ m \in poll[p].uids
      BY <1>2, <2>3, PollerAfter DEF Process
    <3> QED
      BY <2>0, <3>1, MailboxAfter DEF RowsAreSeen
  <2>4. CASE Start(p) \/ Search(p) \/ Fetch(p)
    BY <1>2, <2>4, PollerAfter DEF Resting, MovedTo
  <2>6. CASE Select(p) \/ Commit(p) \/ Fail(p) \/ Crash(p)
    BY <1>2, <2>6, PollerAfter DEF Resting, MovedTo
  <2>7. ASSUME NEW i \in Ids, Queue(p, i)
        PROVE  FALSE
    BY <1>2, <2>7, PollerAfter DEF Resting, MovedTo
  <2>5. ASSUME NEW q \in Pollers, q # p, Start(q) \/ Work(q) \/ Fail(q) \/ Crash(q)
        PROVE  poll'[p] = poll[p]
    BY <2>5, OnePollerMoves
  <2> QED
    BY <2>1, <2>2, <2>3, <2>4, <2>5, <2>6, <2>7 DEF Next, ParseUnmarked, vars, Work, Arrive, Parse
<1> QED
  BY <1>1, <1>2 DEF RowsAreSeen

\* A poll lets go of its mail only by writing it down, or by failing.
LEMMA NextHands == IInv /\ TypeOK' /\ [Next]_vars => HandsEmpty'
<1> SUFFICES ASSUME IInv, TypeOK', [Next]_vars, NEW p \in Pollers
             PROVE  /\ poll'[p].step \notin {"fetch", "flag", "process"} => poll'[p].uids = {}
                    /\ poll'[p].step \notin {"commit", "queue"} => poll'[p].batch = {}
  BY DEF HandsEmpty
<1> USE DEF IInv, TypeOK, HandsEmpty, Resting, MovedTo
<1>1. CASE poll'[p] = poll[p]
  BY <1>1
<1>2. ASSUME NEW m \in Mails, Process(p, m)
      PROVE  /\ poll'[p].step \notin {"fetch", "flag", "process"} => poll'[p].uids = {}
             /\ poll'[p].step \notin {"commit", "queue"} => poll'[p].batch = {}
  BY <1>2, PollerAfter DEF Process
<1>3. CASE Start(p) \/ Select(p) \/ Commit(p)
  BY <1>3, PollerAfter DEF Start, Select, Commit
<1>5. CASE Search(p) \/ Fetch(p) \/ Flag(p)
  BY <1>5, PollerAfter DEF Search, Fetch, Flag
<1>7. CASE Fail(p) \/ Crash(p)
  BY <1>7, PollerAfter
<1>6. ASSUME NEW i \in Ids, Queue(p, i)
      PROVE  /\ poll'[p].step \notin {"fetch", "flag", "process"} => poll'[p].uids = {}
             /\ poll'[p].step \notin {"commit", "queue"} => poll'[p].batch = {}
  BY <1>6, PollerAfter DEF Queue
<1>4. ASSUME NEW q \in Pollers, q # p, Start(q) \/ Work(q) \/ Fail(q) \/ Crash(q)
      PROVE  poll'[p] = poll[p]
  BY <1>4, OnePollerMoves
<1> QED
  BY <1>1, <1>2, <1>3, <1>4, <1>5, <1>6, <1>7 DEF Next, ParseUnmarked, vars, Work, Arrive, Parse

\* A mail that loses its last holder has a row, or was dropped.
LEMMA NextLost == IInv /\ TypeOK' /\ [Next]_vars => LostOnlyByFailure'
<1> SUFFICES ASSUME IInv, TypeOK', [Next]_vars, NEW m \in Mails,
                    mailbox'[m] = "seen", RowsOf(m)' = {}, Holders(m)' = {}
             PROVE  m \in dropped'
  BY DEF LostOnlyByFailure
<1> USE AbsentIsDistinct DEF IInv, TypeOK
<1>0. dropped \subseteq dropped'
  BY DEF Next, ParseUnmarked, vars, Work, Arrive, Parse, Start, Search, Fetch, Flag, Process,
         Select, Commit, Queue, Fail, Crash, Abandon
<1>1. CASE mailbox[m] = "seen" /\ RowsOf(m) = {} /\ Holders(m) = {}
  BY <1>0, <1>1 DEF LostOnlyByFailure
<1>2. CASE mailbox[m] # "seen"
  <2>1. PICK p \in Pollers : (Flag(p) \/ Fetch(p)) /\ m \in poll[p].uids
    BY <1>2, MailboxAfter
       DEF Next, ParseUnmarked, vars, Work, Start, Search, Process, Select, Commit, Queue, Parse,
           Fail, Crash
  <2>2. p \in Holders(m)'
    BY <2>1, PollerAfter DEF Holders, MovedTo
  <2> QED
    BY <2>2
<1>3. ASSUME NEW i \in RowsOf(m)
      PROVE  m \in dropped'
  <2>1. i \in Ids /\ (rows'[i] = NoRow \/ rows'[i].mail # m)
    BY <1>3 DEF RowsOf
  <2>2. PICK p \in Pollers : (Fail(p) \/ Crash(p)) /\ i \in Pending(p)
    BY <1>3, <2>1, RowsAfter
       DEF RowsOf, Next, ParseUnmarked, vars, Work, Arrive, Start, Search, Fetch, Flag, Select, Queue
  <2> QED
    BY <1>3, <2>2 DEF Fail, Crash, Abandon, MailOf, RowsOf
<1>4. ASSUME NEW p \in Holders(m)
      PROVE  m \in dropped'
  <2>1. p \in Pollers /\ m \in poll[p].uids /\ m \notin poll'[p].uids
    BY <1>4 DEF Holders
  <2>2. CASE Fail(p) \/ Crash(p)
    BY <2>1, <2>2 DEF Fail, Crash, Abandon
  <2>3. ASSUME Process(p, m)
        PROVE  FALSE
    <3>1. NewId \in Ids /\ rows'[NewId] = [state |-> "pending", mail |-> m, by |-> p]
      BY <2>3 DEF Process, NewId
    <3> QED
      BY <3>1 DEF RowsOf, Row
  <2>4. ASSUME NEW n \in Mails, n # m, Process(p, n)
        PROVE  FALSE
    BY <2>1, <2>4, PollerAfter
  <2>5. CASE Start(p) \/ Fetch(p) \/ Flag(p) \/ Search(p) \/ Select(p) \/ Commit(p)
             \/ \E i \in Ids : Queue(p, i)
    BY <2>1, <2>5, PollerAfter DEF HandsEmpty, MovedTo, Search, Select, Commit, Queue
  <2>6. ASSUME NEW q \in Pollers, q # p, Start(q) \/ Work(q) \/ Fail(q) \/ Crash(q)
        PROVE  FALSE
    BY <2>1, <2>6, OnePollerMoves
  <2> QED
    BY <2>1, <2>2, <2>3, <2>4, <2>5, <2>6 DEF Next, ParseUnmarked, vars, Work, Arrive, Parse
<1> QED
  BY <1>1, <1>2, <1>3, <1>4

\* What is pending after a step was pending before, or has just been written.
LEMMA PendingAfter ==
    ASSUME TypeOK, [Next]_vars, NEW p \in Pollers, NEW i \in Pending(p)'
    PROVE  i \in Pending(p) \/ \E m \in Mails : Process(p, m)
<1>0. i \in Ids /\ rows'[i].state = "pending" /\ rows'[i].by = p
  BY DEF Pending
<1>1. CASE rows'[i] = rows[i]
  BY <1>0, <1>1 DEF Pending
<1>2. ASSUME NEW q \in Pollers, NEW m \in Mails, Process(q, m)
      PROVE  i \in Pending(p) \/ \E n \in Mails : Process(p, n)
  <2>1. CASE rows'[i] = [state |-> "pending", mail |-> m, by |-> q]
    BY <1>0, <1>2, <2>1
  <2> QED
    BY <1>0, <1>1, <1>2, <2>1, RowsAfter
<1>3. ASSUME NEW q \in Pollers, Commit(q)
      PROVE  rows'[i] = rows[i]
  BY <1>0, <1>3, RowsAfter
<1>4. ASSUME NEW q \in Pollers, Fail(q) \/ Crash(q)
      PROVE  rows'[i] = rows[i]
  BY <1>0, <1>4, RowsAfter, AbsentIsDistinct
<1>5. ASSUME NEW j \in Ids, Parse(j)
      PROVE  rows'[i] = rows[i]
  BY <1>0, <1>5, RowsAfter
<1> QED
  BY <1>1, <1>2, <1>3, <1>4, <1>5
     DEF Next, ParseUnmarked, vars, Work, Arrive, Start, Search, Fetch, Flag, Select, Queue

\* A committed row stays committed, and a pending one of a poll stays so until
\* the poll commits or fails.
LEMMA CommittedStays ==
    ASSUME TypeOK, [Next]_vars, NEW i \in Ids
    PROVE  /\ rows[i].state \in {"received", "handled"}
                 => rows'[i].state \in {"received", "handled"}
           /\ \A p \in Pollers : i \in Pending(p) =>
                 \/ rows'[i].state \in {"received", "handled"}
                 \/ i \in Pending(p)'
                 \/ Fail(p) \/ Crash(p)
<1> USE AbsentIsDistinct
<1>1. CASE rows'[i] = rows[i]
  BY <1>1 DEF Pending
<1>2. ASSUME NEW q \in Pollers, NEW m \in Mails, Process(q, m), rows'[i] # rows[i]
      PROVE  rows[i].state = "none"
  BY <1>2, RowsAfter
<1>3. ASSUME NEW q \in Pollers, Commit(q), rows'[i] # rows[i]
      PROVE  rows'[i].state = "received"
  BY <1>3, RowsAfter
<1>4. ASSUME NEW q \in Pollers, Fail(q) \/ Crash(q), rows'[i] # rows[i]
      PROVE  rows[i].state = "pending" /\ rows[i].by = q
  BY <1>4, RowsAfter DEF Pending
<1>5. ASSUME NEW j \in Ids, Parse(j), rows'[i] # rows[i]
      PROVE  rows'[i].state = "handled"
  BY <1>5, RowsAfter
<1> QED
  BY <1>1, <1>2, <1>3, <1>4, <1>5
     DEF Next, ParseUnmarked, vars, Work, Arrive, Start, Search, Fetch, Flag, Select, Queue, Pending

\* A batch is committed before it is queued, and covers what its task wrote.
LEMMA NextBatches == IInv /\ TypeOK' /\ [Next]_vars => Batches'
<1> SUFFICES ASSUME IInv, TypeOK', [Next]_vars, NEW p \in Pollers
             PROVE  /\ poll'[p].step = "queue" =>
                          \A i \in poll'[p].batch : rows'[i].state \in {"received", "handled"}
                    /\ poll'[p].step = "commit" =>
                          \A i \in poll'[p].batch :
                              rows'[i].state \in {"received", "handled"} \/ i \in Pending(p)'
                    /\ poll'[p].step = "commit" /\ p \in Tasks
                          => Pending(p)' \subseteq poll'[p].batch
  BY DEF Batches
<1> USE DEF IInv, TypeOK
<1>0. poll[p].batch \subseteq Ids /\ poll'[p].batch \subseteq Ids
  BY DEF Poll
<1>1. CASE poll'[p] = poll[p] /\ ~Fail(p) /\ ~Crash(p) /\ ~\E m \in Mails : Process(p, m)
  <2>1. Pending(p)' \subseteq Pending(p)
    BY <1>1, PendingAfter
  <2> QED
    BY <1>0, <1>1, <2>1, CommittedStays DEF Batches
<1>2. CASE Select(p)
  <2>1. rows' = rows /\ Pending(p)' = Pending(p)
    BY <1>2 DEF Select, Pending
  <2> QED
    BY <1>2, <2>1, PollerAfter DEF Received
<1>3. CASE Commit(p)
  <2>1. ASSUME poll[p].batch # {}, NEW i \in poll[p].batch
        PROVE  rows'[i].state \in {"received", "handled"}
    BY <1>0, <1>3, <2>1, RowsAfter DEF Batches, Commit
  <2> QED
    BY <1>3, <2>1, PollerAfter DEF Resting, MovedTo
<1>4. ASSUME NEW i \in Ids, Queue(p, i)
      PROVE  poll'[p].step # "commit" /\
             (poll'[p].step = "queue" =>
                  \A j \in poll'[p].batch : rows'[j].state \in {"received", "handled"})
  <2>1. rows' = rows
    BY <1>4 DEF Queue
  <2> QED
    BY <1>4, <2>1, PollerAfter DEF Batches, Resting, Queue
<1>5. ASSUME NEW m \in Mails, Process(p, m), poll'[p].step \in {"queue", "commit"}
      PROVE  p \notin Tasks /\ poll'[p].step = "commit" /\ poll'[p].batch = {}
  BY <1>5, PollerAfter DEF Process, HandsEmpty
<1>6. CASE Start(p) \/ Search(p) \/ Fetch(p) \/ Flag(p) \/ Fail(p) \/ Crash(p)
  BY <1>6, PollerAfter DEF Resting, MovedTo
<1>7. ASSUME NEW q \in Pollers, q # p, Start(q) \/ Work(q) \/ Fail(q) \/ Crash(q)
      PROVE  poll'[p] = poll[p]
  BY <1>7, OnePollerMoves
<1> QED
  BY <1>1, <1>2, <1>3, <1>4, <1>5, <1>6, <1>7 DEF Next, ParseUnmarked, vars, Work, Arrive, Parse

\* A message is sent for a row of a batch that is committed, and no row that is
\* committed goes away.
LEMMA NextQueued == IInv /\ TypeOK' /\ [Next]_vars => QueuedIsCommitted'
<1> SUFFICES ASSUME IInv, TypeOK', [Next]_vars, NEW i \in Ids, queued'[i] > 0
             PROVE  rows'[i].state \in {"received", "handled"}
  BY DEF QueuedIsCommitted
<1> USE DEF IInv, TypeOK
<1>1. CASE queued[i] > 0
  BY <1>1, CommittedStays DEF QueuedIsCommitted
<1>2. ASSUME NEW p \in Pollers, Queue(p, i)
      PROVE  rows'[i].state \in {"received", "handled"}
  BY <1>2, CommittedStays DEF Queue, Batches
<1>3. ASSUME NEW p \in Pollers, NEW j \in Ids, j # i, Queue(p, j)
      PROVE  queued[i] > 0
  BY <1>3 DEF Queue
<1>4. ASSUME NEW j \in Ids, Parse(j)
      PROVE  queued[i] > 0
  BY <1>4 DEF Parse
<1> QED
  BY <1>1, <1>2, <1>3, <1>4
     DEF Next, ParseUnmarked, vars, Work, Arrive, Start, Search, Fetch, Flag, Process, Select,
         Commit, Fail, Crash

\* A row that waits is never forgotten by a step: a commit puts it into a batch
\* or leaves it to the next, a fault leaves what was in the batch.
LEMMA NextWaiting == IInv /\ TypeOK' /\ [Next]_vars => WaitingIsHandedOn'
<1> DEFINE Waits(i) ==
       \/ queued[i] > 0
       \/ \E p \in Pollers : poll[p].step = "queue" /\ i \in poll[p].batch
       \/ i \in left
<1> SUFFICES ASSUME IInv, TypeOK', [Next]_vars, NEW i \in Ids, rows'[i].state = "received"
             PROVE  Waits(i)'
  BY DEF WaitingIsHandedOn, Received
<1> USE DEF IInv, TypeOK
<1>1. ASSUME NEW p \in Pollers, Commit(p), i \in Pending(p)
      PROVE  Waits(i)'
  <2>1. CASE p \in Tasks
    <3>1. i \in poll[p].batch
      BY <1>1, <2>1 DEF Commit, Batches
    <3> QED
      BY <1>1, <3>1, PollerAfter DEF MovedTo
  <2>2. CASE p \notin Tasks
    BY <1>1, <2>2 DEF Commit
  <2> QED
    BY <2>1, <2>2
<1>2. CASE rows[i].state = "received"
  <2>0. Waits(i)
    BY <1>2 DEF WaitingIsHandedOn, Received
  <2>1. ASSUME NEW p \in Pollers, Commit(p)
        PROVE  Waits(i)'
    <3>1. CASE queued[i] > 0
      BY <2>1, <3>1 DEF Commit
    <3>2. ASSUME NEW q \in Pollers, poll[q].step = "queue", i \in poll[q].batch
          PROVE  poll'[q].step = "queue" /\ i \in poll'[q].batch
      <4>1. q # p
        BY <2>1, <3>2 DEF Commit
      <4> QED
        BY <2>1, <3>2, <4>1, OnePollerMoves DEF Work
    <3>3. CASE i \in left
      BY <2>1, <3>3, PollerAfter DEF Commit, MovedTo
    <3> QED
      BY <2>0, <3>1, <3>2, <3>3
  <2>2. ASSUME NEW p \in Pollers, Fail(p) \/ Crash(p)
        PROVE  Waits(i)'
    <3>1. CASE queued[i] > 0 \/ i \in left
      BY <2>2, <3>1 DEF Fail, Crash, Abandon
    <3>2. ASSUME NEW q \in Pollers, poll[q].step = "queue", i \in poll[q].batch
          PROVE  Waits(i)'
      <4>1. CASE q = p
        BY <2>2, <3>2, <4>1 DEF Fail, Crash, Abandon
      <4>2. CASE q # p
        BY <2>2, <3>2, <4>2, OnePollerMoves
      <4> QED
        BY <4>1, <4>2
    <3> QED
      BY <2>0, <3>1, <3>2
  <2>3. ASSUME NEW p \in Pollers, NEW j \in Ids, Queue(p, j)
        PROVE  Waits(i)'
    <3>1. CASE queued[i] > 0 \/ i \in left
      BY <2>3, <3>1 DEF Queue
    <3>2. ASSUME NEW q \in Pollers, poll[q].step = "queue", i \in poll[q].batch
          PROVE  Waits(i)'
      <4>1. CASE q # p
        BY <2>3, <3>2, <4>1, OnePollerMoves DEF Work
      <4>2. CASE i = j
        BY <2>3, <4>2 DEF Queue
      <4>3. CASE q = p /\ i # j
        BY <2>3, <3>2, <4>3, PollerAfter
      <4> QED
        BY <4>1, <4>2, <4>3
    <3> QED
      BY <2>0, <3>1, <3>2
  <2>4. ASSUME NEW j \in Ids, Parse(j)
        PROVE  Waits(i)'
    <3>1. i # j
      BY <1>2, <2>4, AbsentIsDistinct DEF Parse, Row
    <3>2. queued'[i] = queued[i] /\ poll' = poll /\ left' = left
      BY <2>4, <3>1 DEF Parse
    <3> QED
      BY <2>0, <3>2
  <2>7. ASSUME NEW j \in Ids, ParseUnmarked(j)
        PROVE  Waits(i)'
    <3>1. poll' = poll /\ (i # j => queued'[i] = queued[i]) /\ left' = left \union {j}
      BY <2>7 DEF ParseUnmarked
    <3> QED
      BY <2>0, <3>1
  <2>5. ASSUME NEW p \in Pollers,
               \/ Start(p) \/ Search(p) \/ Fetch(p) \/ Flag(p) \/ Select(p)
               \/ \E m \in Mails : Process(p, m)
        PROVE  Waits(i)'
    <3>1. queued' = queued /\ left' = left /\ poll[p].step # "queue"
      BY <2>5 DEF Start, Search, Fetch, Flag, Select, Process
    <3>2. \A q \in Pollers : poll[q].step = "queue" => poll'[q] = poll[q]
      BY <2>5, <3>1, OnePollerMoves DEF Work
    <3> QED
      BY <2>0, <3>1, <3>2
  <2>6. CASE UNCHANGED vars \/ \E m \in Mails : Arrive(m)
    BY <2>0, <2>6 DEF vars, Arrive
  <2> QED
    BY <2>1, <2>2, <2>3, <2>4, <2>5, <2>6, <2>7 DEF Next, Work
<1>3. CASE rows[i].state # "received"
  <2>1. rows'[i] # rows[i]
    BY <1>3
  <2>2. ASSUME NEW p \in Pollers, NEW m \in Mails, Process(p, m)
        PROVE  FALSE
    BY <2>1, <2>2, RowsAfter
  <2>3. ASSUME NEW p \in Pollers, Fail(p) \/ Crash(p)
        PROVE  FALSE
    BY <2>1, <2>3, RowsAfter, AbsentIsDistinct
  <2>4. ASSUME NEW j \in Ids, Parse(j)
        PROVE  FALSE
    BY <2>1, <2>4, RowsAfter
  <2>5. PICK p \in Pollers : Commit(p)
    BY <2>1, <2>2, <2>3, <2>4
       DEF Next, ParseUnmarked, vars, Work, Arrive, Start, Search, Fetch, Flag, Select, Queue
  <2>6. i \in Pending(p)
    BY <2>1, <2>5, RowsAfter
  <2> QED
    BY <1>1, <2>5, <2>6
<1> QED
  BY <1>2, <1>3

-----------------------------------------------------------------------------

\* The two sets the bound adds up are finite, so their sizes are numbers.
LEMMA FiniteParts ==
    ASSUME TypeOK, NEW m \in Mails
    PROVE  /\ IsFiniteSet(RowsOf(m)) /\ Cardinality(RowsOf(m)) \in Nat
           /\ IsFiniteSet(Holders(m)) /\ Cardinality(Holders(m)) \in Nat
           /\ Cardinality(Holders(m)) <= Cardinality(Pollers)
           /\ Cardinality(Pollers) \in Nat
<1>1. RowsOf(m) \subseteq Ids /\ Holders(m) \subseteq Pollers
  BY DEF RowsOf, Holders
<1> QED
  BY <1>1, MailAssumption, FS_Subset, FS_CardinalityType

\* No more rows and no more holders keep the sum within the bound.
LEMMA FewerIsWithin ==
    ASSUME TypeOK, TypeOK', RowsBounded, NEW m \in Mails,
           RowsOf(m)' \subseteq RowsOf(m), Holders(m)' \subseteq Holders(m)
    PROVE  Cardinality(RowsOf(m)') + Cardinality(Holders(m)') <= Cardinality(Pollers)
<1>1. /\ Cardinality(RowsOf(m)') <= Cardinality(RowsOf(m))
      /\ Cardinality(Holders(m)') <= Cardinality(Holders(m))
      /\ Cardinality(RowsOf(m)') \in Nat /\ Cardinality(Holders(m)') \in Nat
  BY FiniteParts, FS_Subset, FS_CardinalityType
<1> QED
  BY <1>1, FiniteParts DEF RowsBounded

\* Each row of a mail has taken the place of a poller that held it.
LEMMA NextBounded == IInv /\ TypeOK' /\ [Next]_vars => RowsBounded'
<1> SUFFICES ASSUME IInv, TypeOK', [Next]_vars, NEW m \in Mails
             PROVE  Cardinality(RowsOf(m)') + Cardinality(Holders(m)') <= Cardinality(Pollers)
  BY DEF RowsBounded
<1> USE AbsentIsDistinct DEF IInv, TypeOK
<1>1. ASSUME NEW p \in Pollers, Process(p, m)
      PROVE  Cardinality(RowsOf(m)') + Cardinality(Holders(m)') <= Cardinality(Pollers)
  <2>1. Holders(m)' = Holders(m) \ {p} /\ p \in Holders(m)
    <3>1. p \in Holders(m)
      BY <1>1 DEF Holders, Process
    <3>2. poll'[p].uids = poll[p].uids \ {m}
      BY <1>1, PollerAfter
    <3>3. \A q \in Pollers \ {p} : poll'[q] = poll[q]
      BY <1>1, OnePollerMoves DEF Work
    <3> QED
      BY <3>1, <3>2, <3>3 DEF Holders
  <2>2. PICK i \in Ids : i \notin RowsOf(m) /\ RowsOf(m)' \subseteq RowsOf(m) \union {i}
    <3>1. NewId \in Ids /\ rows[NewId] = NoRow
      BY <1>1 DEF Process, NewId
    <3>2. PICK i \in Ids : i = NewId
      BY <3>1
    <3>3. \A j \in Ids \ {i} : rows'[j] = rows[j]
      BY <1>1, <3>2 DEF Process
    <3> QED
      BY <3>1, <3>2, <3>3 DEF RowsOf
  <2>3. /\ Cardinality(RowsOf(m) \union {i}) = Cardinality(RowsOf(m)) + 1
        /\ IsFiniteSet(RowsOf(m) \union {i})
    BY <2>2, FiniteParts, FS_AddElement
  <2>4. /\ Cardinality(RowsOf(m)') <= Cardinality(RowsOf(m)) + 1
        /\ Cardinality(RowsOf(m)') \in Nat
    BY <2>2, <2>3, FS_Subset, FS_CardinalityType
  <2>5. Cardinality(Holders(m)') = Cardinality(Holders(m)) - 1
    BY <2>1, FiniteParts, FS_RemoveElement
  <2> QED
    BY <2>4, <2>5, FiniteParts DEF RowsBounded
<1>2. ASSUME NEW p \in Pollers, Search(p)
      PROVE  Cardinality(RowsOf(m)') + Cardinality(Holders(m)') <= Cardinality(Pollers)
  <2>0. rows' = rows /\ RowsOf(m)' = RowsOf(m)
    BY <1>2 DEF Search, RowsOf
  <2>1. CASE m \in Unseen
    <3>1. RowsOf(m)' = {}
      BY <2>0, <2>1 DEF RowsOf, RowsAreSeen, Unseen
    <3>2. Holders(m)' \subseteq Pollers
      BY DEF Holders
    <3>3. /\ Cardinality(Holders(m)') <= Cardinality(Pollers)
          /\ Cardinality(Holders(m)') \in Nat
      BY <3>2, MailAssumption, FS_Subset, FS_CardinalityType
    <3> QED
      BY <3>1, <3>3, FS_EmptySet, FiniteParts
  <2>2. CASE m \notin Unseen
    <3>1. Holders(m)' \subseteq Holders(m)
      BY <1>2, <2>2, PollerAfter, OnePollerMoves DEF Holders, Resting, Work
    <3> QED
      BY <2>0, <3>1, FewerIsWithin
  <2> QED
    BY <2>1, <2>2
<1>3. ASSUME NEW p \in Pollers,
             \/ Start(p) \/ Fetch(p) \/ Flag(p) \/ Select(p) \/ Commit(p)
             \/ Fail(p) \/ Crash(p)
             \/ \E i \in Ids : Queue(p, i)
             \/ \E n \in Mails : n # m /\ Process(p, n)
      PROVE  Holders(m)' \subseteq Holders(m)
  <2>1. poll'[p].uids \subseteq poll[p].uids
    BY <1>3, PollerAfter DEF MovedTo, Resting
  <2> QED
    BY <1>3, <2>1, OnePollerMoves DEF Holders, Work
<1>4. ASSUME NEW n \in Mails, n # m, NEW p \in Pollers, Process(p, n)
      PROVE  RowsOf(m)' \subseteq RowsOf(m)
  <2> SUFFICES ASSUME NEW i \in Ids, rows'[i] # NoRow, rows'[i].mail = m
               PROVE  rows[i] # NoRow /\ rows[i].mail = m
    BY DEF RowsOf
  <2> QED
    BY <1>4, RowsAfter
<1>5. ASSUME NEW p \in Pollers, Commit(p) \/ Fail(p) \/ Crash(p)
      PROVE  RowsOf(m)' \subseteq RowsOf(m)
  <2> SUFFICES ASSUME NEW i \in Ids, rows'[i] # NoRow, rows'[i].mail = m
               PROVE  rows[i] # NoRow /\ rows[i].mail = m
    BY DEF RowsOf
  <2> QED
    BY <1>5, RowsAfter DEF Pending
<1>6. ASSUME NEW j \in Ids, Parse(j)
      PROVE  RowsOf(m)' \subseteq RowsOf(m) /\ Holders(m)' \subseteq Holders(m)
  <2>1. RowsOf(m)' \subseteq RowsOf(m)
    <3> SUFFICES ASSUME NEW i \in Ids, rows'[i] # NoRow, rows'[i].mail = m
                 PROVE  rows[i] # NoRow /\ rows[i].mail = m
      BY DEF RowsOf
    <3> QED
      BY <1>6, RowsAfter
  <2> QED
    BY <1>6, <2>1 DEF Parse, Holders
<1>7. ASSUME NEW p \in Pollers,
             \/ Start(p) \/ Fetch(p) \/ Flag(p) \/ Select(p) \/ \E i \in Ids : Queue(p, i)
      PROVE  RowsOf(m)' \subseteq RowsOf(m)
  BY <1>7 DEF Start, Fetch, Flag, Select, Queue, RowsOf
<1>8. CASE UNCHANGED vars \/ (\E n \in Mails : Arrive(n)) \/ \E j \in Ids : ParseUnmarked(j)
  <2>1. RowsOf(m)' \subseteq RowsOf(m) /\ Holders(m)' \subseteq Holders(m)
    BY <1>8 DEF vars, Arrive, ParseUnmarked, RowsOf, Holders
  <2> QED
    BY <2>1, FewerIsWithin
<1> QED
  BY <1>1, <1>2, <1>3, <1>4, <1>5, <1>6, <1>7, <1>8, FewerIsWithin DEF Next, ParseUnmarked, Work

-----------------------------------------------------------------------------

\* The conjuncts hold together, always.
THEOREM Inductive == Spec => []IInv
<1>1. Init => IInv
  <2> SUFFICES ASSUME Init PROVE IInv
    OBVIOUS
  <2>1. TypeOK
    BY InitType
  <2>2. \A m \in Mails : RowsOf(m) = {} /\ Holders(m) = {}
    BY DEF Init, RowsOf, Holders, Rest
  <2>3. RowsBounded
    <3>1. Cardinality(Pollers) \in Nat
      BY MailAssumption, FS_CardinalityType
    <3>2. ASSUME NEW m \in Mails
          PROVE  Cardinality(RowsOf(m)) = 0 /\ Cardinality(Holders(m)) = 0
      BY <2>2, FS_EmptySet
    <3> QED
      BY <3>1, <3>2 DEF RowsBounded
  <2> QED
    BY <2>1, <2>2, <2>3, AbsentIsDistinct
       DEF IInv, Init, RowsAreSeen, HandsEmpty, Batches, QueuedIsCommitted,
           LostOnlyByFailure, WaitingIsHandedOn, Received, Rest
<1>2. IInv /\ [Next]_vars => IInv'
  <2>1. IInv => TypeOK
    BY DEF IInv
  <2> QED
    BY <2>1, NextType, NextSeen, NextHands, NextBatches, NextQueued, NextLost,
       NextWaiting, NextBounded DEF IInv
<1> QED
  BY <1>1, <1>2, PTL DEF Spec

\* The state is always well typed.
THEOREM TypeCorrect == Spec => []TypeOK
<1>1. IInv => TypeOK
  BY DEF IInv
<1> QED
  BY <1>1, Inductive, PTL

\* A mail never gets more rows than there are pollers, however they overlap,
\* retry and crash.
THEOREM DuplicatesBounded == Spec => []RowsBounded
<1>1. IInv => RowsBounded
  BY DEF IInv
<1> QED
  BY <1>1, Inductive, PTL

\* The parser is only ever asked for committed rows.
THEOREM QueuesCommitted == Spec => []QueuedIsCommitted
<1>1. IInv => QueuedIsCommitted
  BY DEF IInv
<1> QED
  BY <1>1, Inductive, PTL

\* Flagged mail without a row and without a holder was dropped by a fault.
THEOREM NothingLostUnnoticed == Spec => []LostOnlyByFailure
<1>1. IInv => LostOnlyByFailure
  BY DEF IInv
<1> QED
  BY <1>1, Inductive, PTL

\* A committed row that waits is queued, about to be, or accounted for.
THEOREM WaitingAlwaysHandedOn == Spec => []WaitingIsHandedOn
<1>1. IInv => WaitingIsHandedOn
  BY DEF IInv
<1> QED
  BY <1>1, Inductive, PTL
=============================================================================
