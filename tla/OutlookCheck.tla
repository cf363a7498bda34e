---------------------------- MODULE OutlookCheck ----------------------------
(***************************************************************************)
(* Mail through Microsoft Graph (EMAIL_PROVIDER=outlook_graph): the route  *)
(* check-email of app/api/upload.py and the scheduler's poll of            *)
(* app/scheduler.py over one mailbox, with app/services/outlook_graph.py   *)
(* and report_matcher.py.  A check lists the unread mail, stores mail      *)
(* after mail in one transaction, marks each as read on the server as soon *)
(* as it is done with it, and commits at the end.                          *)
(*                                                                         *)
(* A mail has one attachment, and NameOf says which report name its rules, *)
(* its subject or its file name lead to.  A request appends to the report  *)
(* of that name or creates it, and fails when there are two; the scheduler *)
(* never looks and always creates.  Two requests are those of two          *)
(* administrators: requests of one wait for each other (see Accounts).     *)
(***************************************************************************)
EXTENDS Naturals, FiniteSets

CONSTANTS
    Mails,        \* mail that may arrive
    Known,        \* the mail of registered senders
    Names,        \* names of reports
    NameOf,       \* the name the attachment of a mail is matched to
    Requests,     \* check-email requests at a time
    Schedulers,   \* the background job of the server, if enabled
    MaxFaults,    \* bound on lost checks and on marks that fail
    MaxUploads    \* bound on reports created by upload

Checks == Requests \union Schedulers

None == "none"

ASSUME OutlookAssumption ==
    /\ Known \subseteq Mails
    /\ NameOf \in [Mails -> Names]
    /\ IsFiniteSet(Checks) /\ IsFiniteSet(Mails)
    /\ Requests \intersect Schedulers = {}
    /\ None \notin Mails
    /\ MaxFaults \in Nat /\ MaxUploads \in Nat

VARIABLES
    mailbox,    \* "absent", "unread" or "read" on the server
    reports,    \* committed reports of each name
    written,    \* how often the data of a mail has been committed
    check,      \* what each check does next and what it has in its session
    faults,     \* faults so far
    uploads,    \* reports uploaded so far
    unmarked,   \* history: how often marking a mail as read has failed
    excused     \* history: mail a check gave up, read or not

vars == <<mailbox, reports, written, check, faults, uploads, unmarked, excused>>

Steps == {"idle", "loop", "fetch", "process", "mark", "commit"}

\* list: mail still to be looked at; mail: the one in hand; made: mail a new
\* report was created for; done: mail whose data is in the session.
Check ==
    [step : Steps, list : SUBSET Mails, mail : Mails \union {None},
     made : SUBSET Mails, done : SUBSET Mails]

Rest == [step |-> "idle", list |-> {}, mail |-> None, made |-> {}, done |-> {}]

Init ==
    /\ mailbox = [m \in Mails |-> "absent"]
    /\ reports = [n \in Names |-> 0]
    /\ written = [m \in Mails |-> 0]
    /\ check = [c \in Checks |-> Rest]
    /\ faults = 0
    /\ uploads = 0
    /\ unmarked = [m \in Mails |-> 0]
    /\ excused = {}

-----------------------------------------------------------------------------
(* Around the checks *)

Unread == {m \in Mails : mailbox[m] = "unread"}

Arrive(m) ==
    /\ mailbox[m] = "absent"
    /\ mailbox' = [mailbox EXCEPT ![m] = "unread"]
    /\ UNCHANGED <<reports, written, check, faults, uploads, unmarked, excused>>

\* create_report: nothing keeps a name from being used twice.
Upload(n) ==
    /\ uploads < MaxUploads
    /\ uploads' = uploads + 1
    /\ reports' = [reports EXCEPT ![n] = @ + 1]
    /\ UNCHANGED <<mailbox, written, check, faults, unmarked, excused>>

\* delete_report of the dashboard
Delete(n) ==
    /\ reports[n] > 0
    /\ reports' = [reports EXCEPT ![n] = @ - 1]
    /\ UNCHANGED <<mailbox, written, check, faults, uploads, unmarked, excused>>

-----------------------------------------------------------------------------
(* A check *)

Tables == UNCHANGED <<mailbox, reports, written, faults, uploads, unmarked>>

\* Mutant: all mail is listed, read or not.
MutPoll(c) ==
    /\ check[c].step = "idle"
    /\ \E m \in Mails : mailbox[m] # "absent"
    /\ check' = [check EXCEPT ![c] = [Rest EXCEPT !.step = "loop",
                                          !.list = {m \in Mails : mailbox[m] # "absent"}]]
    /\ UNCHANGED excused /\ Tables

\* poll_mailbox; without mail, or with an error, the check is over.
Poll(c) ==
    /\ check[c].step = "idle"
    /\ Unread # {}
    /\ check' = [check EXCEPT ![c] = [Rest EXCEPT !.step = "loop", !.list = Unread]]
    /\ UNCHANGED excused /\ Tables

\* The next mail: that of unknown senders is only marked.
Look(c, m) ==
    /\ check[c].step = "loop"
    /\ m \in check[c].list
    /\ check' = [check EXCEPT ![c].list = @ \ {m}, ![c].mail = m,
                              ![c].step = IF m \in Known THEN "fetch" ELSE "mark"]
    /\ UNCHANGED excused /\ Tables

\* get_attachments: an error gives the same empty list as a mail without any.
Fetch(c) ==
    /\ check[c].step = "fetch"
    /\ \/ /\ check' = [check EXCEPT ![c].step = "process"]
          /\ UNCHANGED excused
       \/ /\ check' = [check EXCEPT ![c].step = "mark"]
          /\ excused' = excused \union {check[c].mail}
    /\ Tables

\* The reports of the name of the mail in hand that the session can see
Visible(c) ==
    LET n == NameOf[check[c].mail]
    IN  reports[n] + Cardinality({m \in check[c].made : NameOf[m] = n})

\* Mutant: the scheduler matches as well.
MutAmbiguous(c) == Visible(c) > 1

\* scalar_one_or_none raises, in the matcher or after it.
Ambiguous(c) == c \in Requests /\ Visible(c) > 1

Creates(c) == c \in Schedulers \/ Visible(c) = 0

\* The report is found or created and the file parsed: its data is stored, or
\* the parser refuses it.
Process(c) ==
    LET m == check[c].mail
        made == IF Creates(c) THEN check[c].made \union {m} ELSE check[c].made
    IN
    /\ check[c].step = "process"
    /\ ~Ambiguous(c)
    /\ \/ /\ check' = [check EXCEPT ![c].step = "mark", ![c].made = made,
                                    ![c].done = @ \union {m}]
          /\ UNCHANGED excused
       \/ /\ check' = [check EXCEPT ![c].step = "mark", ![c].made = made]
          /\ excused' = excused \union {m}
    /\ Tables

\* On to the next mail or to the commit
Onward(c) ==
    check' = [check EXCEPT ![c].mail = None,
                           ![c].step = IF check[c].list = {} THEN "commit" ELSE "loop"]

\* Mutant: all mail that is unread by now is marked, not only the one in hand.
MutMark(c) ==
    /\ check[c].step = "mark"
    /\ mailbox' = [m \in Mails |-> IF mailbox[m] = "unread" THEN "read" ELSE mailbox[m]]
    /\ Onward(c)
    /\ UNCHANGED <<reports, written, faults, uploads, unmarked, excused>>

\* mark_as_read
Mark(c) ==
    /\ check[c].step = "mark"
    /\ mailbox' = [mailbox EXCEPT ![check[c].mail] = "read"]
    /\ Onward(c)
    /\ UNCHANGED <<reports, written, faults, uploads, unmarked, excused>>

\* mark_as_read returns False, which nobody looks at.
MarkFails(c) ==
    /\ check[c].step = "mark"
    /\ faults < MaxFaults
    /\ faults' = faults + 1
    /\ unmarked' = [unmarked EXCEPT ![check[c].mail] = @ + 1]
    /\ Onward(c)
    /\ UNCHANGED <<mailbox, reports, written, uploads, excused>>

Commit(c) ==
    /\ check[c].step = "commit"
    /\ reports' = [n \in Names |->
            reports[n] + Cardinality({m \in check[c].made : NameOf[m] = n})]
    /\ written' = [m \in Mails |-> IF m \in check[c].done THEN written[m] + 1 ELSE written[m]]
    /\ check' = [check EXCEPT ![c] = Rest]
    /\ UNCHANGED <<mailbox, faults, uploads, unmarked, excused>>

\* The session is gone; the mail that was marked stays marked.
Rollback(c) ==
    /\ check' = [check EXCEPT ![c] = Rest]
    /\ excused' = excused \union check[c].done \union ({check[c].mail} \ {None})

Raise(c) ==
    /\ check[c].step = "process"
    /\ Ambiguous(c)
    /\ Rollback(c) /\ Tables

\* Any other exception, or the end of the server
Fail(c) ==
    /\ check[c].step # "idle"
    /\ faults < MaxFaults
    /\ faults' = faults + 1
    /\ Rollback(c)
    /\ UNCHANGED <<mailbox, reports, written, uploads, unmarked>>

Work(c) ==
    \/ \E m \in Mails : Look(c, m)
    \/ Fetch(c) \/ Process(c) \/ Mark(c) \/ MarkFails(c) \/ Commit(c) \/ Raise(c)

Next ==
    \/ \E m \in Mails : Arrive(m)
    \/ \E n \in Names : Upload(n) \/ Delete(n)
    \/ \E c \in Checks : Poll(c) \/ Work(c) \/ Fail(c)

Spec == Init /\ [][Next]_vars

\* A check that has begun goes on; the scheduler goes on polling, while nobody
\* has to press the button of check-email.
FairSpec ==
    /\ Spec
    /\ \A c \in Checks : WF_vars(Work(c))
    /\ \A c \in Schedulers : WF_vars(Poll(c))

-----------------------------------------------------------------------------
(* Properties *)

TypeOK ==
    /\ mailbox \in [Mails -> {"absent", "unread", "read"}]
    /\ reports \in [Names -> Nat]
    /\ written \in [Mails -> Nat]
    /\ check \in [Checks -> Check]
    /\ \A c \in Checks : check[c].step = "idle" => check[c] = Rest
    /\ faults \in 0..MaxFaults /\ uploads \in 0..MaxUploads
    /\ unmarked \in [Mails -> Nat]
    /\ excused \subseteq Mails

\* Checks that have the mail before them, in hand or in their session
Holders(m) ==
    {c \in Checks : m \in check[c].list \union {check[c].mail} \union check[c].done}

\* However checks overlap and fail, the data of a mail is stored at most once
\* per check that can run at a time, and once more for each failed mark.
CopiesBounded ==
    \A m \in Mails :
        written[m] + Cardinality(Holders(m)) <= Cardinality(Checks) + unmarked[m]

\* Mail that no check lists again has been stored or is in the hands of a
\* check, unless its sender is unknown or a check gave it up: with an error of
\* the download, a file that does not parse, or a transaction rolled back.
LostOnlyByFailure ==
    \A m \in Known :
        mailbox[m] = "read" /\ written[m] = 0 /\ Holders(m) = {} => m \in excused

\* While the scheduler runs mail does not stay unread, also when a name has
\* two reports and every request fails at its mail.
MailIsRead == \A m \in Mails : mailbox[m] = "unread" ~> mailbox[m] = "read"
=============================================================================
