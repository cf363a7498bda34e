------------------------- MODULE OutlookCheckProofs -------------------------
(***************************************************************************)
(* Mail through Microsoft Graph for any number of mails, names, requests,  *)
(* schedulers and faults.                                                  *)
(*                                                                         *)
(* A check that lists a mail found it unread; then every earlier storing   *)
(* of the mail, committed or not, was followed by a mark that failed       *)
(* (Fresh).  A mail that is read is in some session, written or excused    *)
(* (Settled), for a check marks a mail only after one of the three.        *)
(***************************************************************************)
EXTENDS OutlookCheck, FiniteSetTheorems, TLAPS

\* Checks that have stored the mail and tried to mark it
Served(m) == {c \in Checks : m \in check[c].done /\ check[c].mail # m}

\* What a check has in hand, before it and in its session
CheckOK ==
    \A c \in Checks :
        /\ check[c].step \in {"fetch", "process", "mark"} => check[c].mail \in Mails
        /\ check[c].step \in {"idle", "loop", "commit"} => check[c].mail = None
        /\ check[c].list \intersect check[c].done = {}
        /\ check[c].mail \notin check[c].list
        /\ check[c].step # "mark" => check[c].mail \notin check[c].done

\* A mail that has not arrived is nowhere.
AbsentOK ==
    \A m \in Mails : mailbox[m] = "absent" => written[m] = 0 /\ Holders(m) = {}

Fresh ==
    \A m \in Mails : mailbox[m] = "unread" =>
        written[m] + Cardinality(Served(m)) <= unmarked[m]

\* Written, given up or in a session
Safe(m) == written[m] > 0 \/ m \in excused \/ \E c \in Checks : m \in check[c].done

Settled ==
    \A m \in Known :
        mailbox[m] = "read" \/ (\E c \in Checks : check[c].step = "mark" /\ check[c].mail = m)
            => Safe(m)

IInv == TypeOK /\ CheckOK /\ AbsentOK /\ Fresh /\ CopiesBounded /\ Settled

-----------------------------------------------------------------------------
(* Types *)

\* Nothing in hand, nothing in the session.
LEMMA RestType == OutlookAssumption => Rest \in Check
BY DEF Rest, Check, Steps

\* A rollback keeps the types of the checks.
LEMMA RollbackType ==
    ASSUME OutlookAssumption, TypeOK, NEW c \in Checks, Rollback(c)
    PROVE  /\ check' = [check EXCEPT ![c] = Rest]
           /\ check' \in [Checks -> Check]
           /\ excused \subseteq excused' /\ excused' \subseteq Mails
<1>1. check[c] \in Check
  BY DEF TypeOK
<1>2. check[c].done \subseteq Mails /\ check[c].mail \in Mails \union {None}
  BY <1>1 DEF Check
<1> QED
  BY <1>2, RestType DEF Rollback, TypeOK

\* What is counted of a set of mail is a number.
LEMMA CountType ==
    ASSUME OutlookAssumption, NEW S \in SUBSET Mails, NEW n \in Names
    PROVE  Cardinality({m \in S : NameOf[m] = n}) \in Nat
<1>1. {m \in S : NameOf[m] = n} \subseteq Mails
  OBVIOUS
<1> QED
  BY <1>1, FS_Subset, FS_CardinalityType DEF OutlookAssumption

\* Every step keeps the types.
LEMMA NextType == OutlookAssumption /\ TypeOK /\ CheckOK /\ [Next]_vars => TypeOK'
<1> SUFFICES ASSUME OutlookAssumption, TypeOK, CheckOK, [Next]_vars PROVE TypeOK'
  OBVIOUS
<1> USE DEF Tables
<1>1. ASSUME NEW m \in Mails, Arrive(m) PROVE TypeOK'
  BY <1>1 DEF Arrive, TypeOK
<1>2. ASSUME NEW n \in Names, Upload(n) \/ Delete(n) PROVE TypeOK'
  BY <1>2 DEF Upload, Delete, TypeOK, OutlookAssumption
<1>3. ASSUME NEW c \in Checks, Poll(c) PROVE TypeOK'
  BY <1>3 DEF Poll, Unread, Rest, TypeOK, Check, Steps
<1>4. ASSUME NEW c \in Checks, NEW m \in Mails, Look(c, m) PROVE TypeOK'
  BY <1>4 DEF Look, TypeOK, Check, Steps
<1>5. ASSUME NEW c \in Checks, Fetch(c) PROVE TypeOK'
  <2>1. check[c] \in Check /\ check[c].mail \in Mails /\ check[c].step = "fetch"
    BY <1>5 DEF Fetch, TypeOK, CheckOK
  <2>2. excused' \subseteq Mails
    BY <1>5, <2>1 DEF Fetch, TypeOK
  <2>3. PICK s \in {"process", "mark"} : check' = [check EXCEPT ![c].step = s]
    BY <1>5 DEF Fetch
  <2>4. check' \in [Checks -> Check] /\ check'[c].step # "idle"
    BY <2>3 DEF TypeOK, Check, Steps
  <2> QED
    BY <1>5, <2>2, <2>3, <2>4 DEF Fetch, TypeOK
<1>6. ASSUME NEW c \in Checks, Process(c) PROVE TypeOK'
  BY <1>6 DEF Process, TypeOK, CheckOK, Check, Steps
<1>7. ASSUME NEW c \in Checks, Mark(c) \/ MarkFails(c) PROVE TypeOK'
  BY <1>7 DEF Mark, MarkFails, Onward, TypeOK, CheckOK, Check, Steps, OutlookAssumption
<1>8. ASSUME NEW c \in Checks, Commit(c) PROVE TypeOK'
  <2>1. check[c].made \in SUBSET Mails
    BY DEF TypeOK, Check
  <2>2. reports' \in [Names -> Nat]
    <3> DEFINE new(n) == Cardinality({m \in check[c].made : NameOf[m] = n})
    <3>1. \A n \in Names : new(n) \in Nat
      BY <2>1, CountType
    <3> HIDE DEF new
    <3>2. reports' = [n \in Names |-> reports[n] + new(n)]
      BY <1>8 DEF Commit, new
    <3> QED
      BY <3>1, <3>2 DEF TypeOK
  <2>3. written' \in [Mails -> Nat]
    BY <1>8 DEF Commit, TypeOK
  <2> QED
    BY <1>8, <2>2, <2>3, RestType DEF Commit, TypeOK
<1>9. ASSUME NEW c \in Checks, Raise(c) \/ Fail(c) PROVE TypeOK'
  BY <1>9, RollbackType DEF Raise, Fail, TypeOK, OutlookAssumption
<1>10. CASE UNCHANGED vars
  BY <1>10 DEF vars, TypeOK
<1> QED
  BY <1>1, <1>2, <1>3, <1>4, <1>5, <1>6, <1>7, <1>8, <1>9, <1>10 DEF Next, Work

-----------------------------------------------------------------------------
(* One check steps *)

\* What a step of a check does to that check, and that it leaves the others.
LEMMA StepOfOne ==
    ASSUME OutlookAssumption, TypeOK, CheckOK, NEW c \in Checks,
           Poll(c) \/ Work(c) \/ Fail(c)
    PROVE  /\ \A d \in Checks \ {c} : check'[d] = check[d]
           /\ CheckOK'
<1>1. check \in [Checks -> Check] /\ check[c] \in Check
  BY DEF TypeOK
<1> USE DEF CheckOK
<1>2. CASE Poll(c)
  BY <1>1, <1>2 DEF Poll, Rest, OutlookAssumption, Unread
<1>3. ASSUME NEW m \in Mails, Look(c, m) PROVE (\A d \in Checks \ {c} : check'[d] = check[d]) /\ CheckOK'
  BY <1>1, <1>3 DEF Look, Check
<1>4. CASE Fetch(c)
  BY <1>1, <1>4 DEF Fetch, Check
<1>5. CASE Process(c)
  BY <1>1, <1>5 DEF Process, Check
<1>6. CASE Mark(c) \/ MarkFails(c)
  BY <1>1, <1>6 DEF Mark, MarkFails, Onward, Check, OutlookAssumption
<1>7. CASE Commit(c)
  BY <1>1, <1>7 DEF Commit, Rest, Check, OutlookAssumption
<1>8. CASE Raise(c) \/ Fail(c)
  BY <1>1, <1>8 DEF Raise, Fail, Rollback, Rest, Check, OutlookAssumption
<1> QED
  BY <1>2, <1>3, <1>4, <1>5, <1>6, <1>7, <1>8 DEF Work

\* Sets of checks are finite, and grow or shrink by the one that steps.
LEMMA Counting ==
    ASSUME OutlookAssumption
    PROVE  /\ Cardinality(Checks) \in Nat
           /\ \A S \in SUBSET Checks :
                /\ Cardinality(S) \in Nat
                /\ Cardinality(S) <= Cardinality(Checks)
                /\ \A T \in SUBSET S : Cardinality(T) <= Cardinality(S)
                /\ \A c \in S : Cardinality(S \ {c}) = Cardinality(S) - 1
                /\ \A c \in Checks : Cardinality(S \union {c}) <= Cardinality(S) + 1
<1>1. \A S \in SUBSET Checks : IsFiniteSet(S) /\ Cardinality(S) \in Nat
  BY FS_Subset, FS_CardinalityType DEF OutlookAssumption
<1>2. \A S \in SUBSET Checks : \A T \in SUBSET S : Cardinality(T) <= Cardinality(S)
  BY <1>1, FS_Subset
<1>3. \A S \in SUBSET Checks : \A c \in S : Cardinality(S \ {c}) = Cardinality(S) - 1
  BY <1>1, FS_RemoveElement
<1>4. \A S \in SUBSET Checks : \A c \in Checks : Cardinality(S \union {c}) <= Cardinality(S) + 1
  <2> TAKE S \in SUBSET Checks
  <2> TAKE c \in Checks
  <2>1. CASE c \in S
    <3>1. S \union {c} = S
      BY <2>1
    <3> QED
      BY <1>1, <3>1
  <2>2. CASE c \notin S
    BY <1>1, <2>2, FS_AddElement
  <2> QED
    BY <2>1, <2>2
<1> QED
  BY <1>1, <1>2, <1>3, <1>4

\* When a check holds and has served no more mail than before, and nothing is
\* written, the bounds stay.
LEMMA BoundsKept ==
    ASSUME OutlookAssumption, TypeOK, TypeOK', Fresh, CopiesBounded,
           \A m \in Mails :
              /\ written'[m] = written[m] /\ unmarked'[m] >= unmarked[m]
              /\ mailbox'[m] = "unread" => mailbox[m] = "unread"
              /\ Holders(m)' \subseteq Holders(m)
              /\ mailbox'[m] = "unread" => Served(m)' \subseteq Served(m)
    PROVE  Fresh' /\ CopiesBounded'
<1>1. \A m \in Mails : /\ Holders(m) \in SUBSET Checks /\ Holders(m)' \in SUBSET Checks
                       /\ Served(m) \in SUBSET Checks /\ Served(m)' \in SUBSET Checks
                       /\ written[m] \in Nat /\ unmarked[m] \in Nat /\ unmarked'[m] \in Nat
  BY DEF Holders, Served, TypeOK
<1>2. ASSUME NEW m \in Mails, mailbox'[m] = "unread"
      PROVE  written'[m] + Cardinality(Served(m)') <= unmarked'[m]
  <2>1. written[m] + Cardinality(Served(m)) <= unmarked[m]
    BY <1>2 DEF Fresh
  <2>2. Cardinality(Served(m)') <= Cardinality(Served(m))
    BY <1>1, <1>2, Counting
  <2>3. /\ Cardinality(Served(m)) \in Nat /\ Cardinality(Served(m)') \in Nat
        /\ written[m] \in Nat /\ unmarked[m] \in Nat /\ unmarked'[m] \in Nat
        /\ written'[m] = written[m] /\ unmarked'[m] >= unmarked[m]
    BY <1>1, Counting
  <2> QED
    BY <2>1, <2>2, <2>3
<1>3. ASSUME NEW m \in Mails
      PROVE  written'[m] + Cardinality(Holders(m)') <= Cardinality(Checks) + unmarked'[m]
  <2>1. written[m] + Cardinality(Holders(m)) <= Cardinality(Checks) + unmarked[m]
    BY DEF CopiesBounded
  <2>2. Cardinality(Holders(m)') <= Cardinality(Holders(m))
    BY <1>1, Counting
  <2>3. /\ Cardinality(Holders(m)) \in Nat /\ Cardinality(Holders(m)') \in Nat
        /\ Cardinality(Checks) \in Nat
        /\ written[m] \in Nat /\ unmarked[m] \in Nat /\ unmarked'[m] \in Nat
        /\ written'[m] = written[m] /\ unmarked'[m] >= unmarked[m]
    BY <1>1, Counting
  <2> QED
    BY <2>1, <2>2, <2>3
<1> QED
  BY <1>2, <1>3 DEF Fresh, CopiesBounded

-----------------------------------------------------------------------------
(* The bounds *)

\* Before the mark a mail in hand is held and not yet served.
LEMMA BeforeMark ==
    ASSUME OutlookAssumption, TypeOK, CheckOK, NEW c \in Checks,
           (\E m \in Mails : Look(c, m)) \/ Fetch(c) \/ Process(c)
    PROVE  \A m \in Mails : Holders(m)' \subseteq Holders(m) /\ Served(m)' \subseteq Served(m)
<1>1. \A d \in Checks \ {c} : check'[d] = check[d]
  BY StepOfOne DEF Work
<1>2. check[c] \in Check /\ check \in [Checks -> Check]
  BY DEF TypeOK
<1>3. ASSUME NEW m \in Mails,
             /\ check'[c].list \union {check'[c].mail} \union check'[c].done
                    \subseteq check[c].list \union {check[c].mail} \union check[c].done
             /\ m \in check'[c].done /\ check'[c].mail # m
                    => m \in check[c].done /\ check[c].mail # m
      PROVE  Holders(m)' \subseteq Holders(m) /\ Served(m)' \subseteq Served(m)
  BY <1>1, <1>3 DEF Holders, Served
<1>4. ASSUME NEW l \in Mails, Look(c, l), NEW m \in Mails
      PROVE  Holders(m)' \subseteq Holders(m) /\ Served(m)' \subseteq Served(m)
  <2>1. /\ check'[c].list = check[c].list \ {l} /\ check'[c].mail = l
        /\ check'[c].done = check[c].done /\ l \in check[c].list
        /\ check[c].step = "loop"
    BY <1>2, <1>4 DEF Look, Check
  <2>2. check[c].mail = None
    BY <2>1 DEF CheckOK
  <2>3. m # None
    BY DEF OutlookAssumption
  <2> QED
    BY <1>3, <2>1, <2>2, <2>3
<1>5. ASSUME Fetch(c), NEW m \in Mails
      PROVE  Holders(m)' \subseteq Holders(m) /\ Served(m)' \subseteq Served(m)
  <2>1. /\ check'[c].list = check[c].list /\ check'[c].mail = check[c].mail
        /\ check'[c].done = check[c].done
    BY <1>2, <1>5 DEF Fetch, Check
  <2> QED
    BY <1>3, <2>1
<1>6. ASSUME Process(c), NEW m \in Mails
      PROVE  Holders(m)' \subseteq Holders(m) /\ Served(m)' \subseteq Served(m)
  <2>1. /\ check'[c].list = check[c].list /\ check'[c].mail = check[c].mail
        /\ check'[c].done \subseteq check[c].done \union {check[c].mail}
    BY <1>2, <1>6 DEF Process, Check
  <2> QED
    BY <1>3, <2>1
<1> QED
  BY <1>4, <1>5, <1>6

\* Everything but the failed mark, the commit, the poll and the arrival of
\* mail lets go of mail and writes nothing.
LEMMA LettingGo ==
    ASSUME OutlookAssumption, TypeOK, TypeOK', CheckOK, Fresh, CopiesBounded,
           NEW c \in Checks,
           \/ (\E m \in Mails : Look(c, m)) \/ Fetch(c) \/ Process(c)
           \/ Mark(c) \/ Raise(c) \/ Fail(c)
    PROVE  Fresh' /\ CopiesBounded'
<1>1. \A d \in Checks \ {c} : check'[d] = check[d]
  BY StepOfOne DEF Work
<1>2. check[c] \in Check /\ check \in [Checks -> Check]
  BY DEF TypeOK
<1>3. written' = written /\ unmarked' = unmarked
  BY DEF Look, Fetch, Process, Mark, Raise, Fail, Tables
<1>4. \A m \in Mails : unmarked'[m] >= unmarked[m]
  BY <1>3 DEF TypeOK
<1>5. CASE (\E m \in Mails : Look(c, m)) \/ Fetch(c) \/ Process(c)
  <2>1. mailbox' = mailbox
    BY <1>5 DEF Look, Fetch, Process, Tables
  <2> QED
    BY <1>3, <1>4, <1>5, <2>1, BeforeMark, BoundsKept
<1>6. CASE Mark(c)
  <2>1. /\ check'[c].list = check[c].list /\ check'[c].mail = None
        /\ check'[c].done = check[c].done
        /\ mailbox' = [mailbox EXCEPT ![check[c].mail] = "read"]
        /\ check[c].mail \in Mails
    BY <1>2, <1>6 DEF Mark, Onward, Check, CheckOK
  <2>2. ASSUME NEW m \in Mails
        PROVE  /\ mailbox'[m] = "unread" => mailbox[m] = "unread" /\ m # check[c].mail
               /\ Holders(m)' \subseteq Holders(m)
               /\ mailbox'[m] = "unread" => Served(m)' \subseteq Served(m)
    <3>1. mailbox'[m] = "unread" => mailbox[m] = "unread" /\ m # check[c].mail
      BY <2>1 DEF TypeOK
    <3>2. m # None
      BY DEF OutlookAssumption
    <3> QED
      BY <1>1, <2>1, <3>1, <3>2 DEF Holders, Served
  <2> QED
    BY <1>3, <1>4, <2>2, BoundsKept
<1>7. CASE Raise(c) \/ Fail(c)
  <2>1. check'[c] = Rest /\ mailbox' = mailbox
    BY <1>7, RollbackType DEF Raise, Fail, Tables, TypeOK
  <2>2. ASSUME NEW m \in Mails
        PROVE  Holders(m)' \subseteq Holders(m) /\ Served(m)' \subseteq Served(m)
    <3>1. m # None
      BY DEF OutlookAssumption
    <3> QED
      BY <1>1, <2>1, <3>1 DEF Holders, Served, Rest
  <2> QED
    BY <1>3, <1>4, <2>1, <2>2, BoundsKept
<1> QED
  BY <1>5, <1>6, <1>7

\* A failed mark pays for one more storing of its mail.
LEMMA MarkFailsBound ==
    ASSUME OutlookAssumption, TypeOK, TypeOK', CheckOK, Fresh, CopiesBounded,
           NEW c \in Checks, MarkFails(c)
    PROVE  Fresh' /\ CopiesBounded'
<1>1. \A d \in Checks \ {c} : check'[d] = check[d]
  BY StepOfOne DEF Work
<1>2. check[c] \in Check /\ check \in [Checks -> Check]
  BY DEF TypeOK
<1> DEFINE x == check[c].mail
<1>3. /\ check'[c].list = check[c].list /\ check'[c].mail = None
      /\ check'[c].done = check[c].done
      /\ mailbox' = mailbox /\ written' = written
      /\ unmarked' = [unmarked EXCEPT ![x] = unmarked[x] + 1]
      /\ x \in Mails
  BY <1>2 DEF MarkFails, Onward, Check, CheckOK
<1> HIDE DEF x
<1>4. ASSUME NEW m \in Mails
      PROVE  /\ Holders(m)' \subseteq Holders(m)
             /\ Served(m)' \subseteq Served(m) \union {c}
             /\ m # x => Served(m)' \subseteq Served(m)
  <2>1. m # None
    BY DEF OutlookAssumption
  <2> QED
    BY <1>1, <1>3, <2>1 DEF Holders, Served, x
<1>5. \A m \in Mails : /\ unmarked[m] \in Nat /\ written[m] \in Nat
                       /\ unmarked'[m] = IF m = x THEN unmarked[m] + 1 ELSE unmarked[m]
  BY <1>3 DEF TypeOK
<1>6. ASSUME NEW m \in Mails
      PROVE  written'[m] + Cardinality(Holders(m)') <= Cardinality(Checks) + unmarked'[m]
  <2>1. Holders(m) \in SUBSET Checks /\ Holders(m)' \in SUBSET Holders(m)
    BY <1>4 DEF Holders
  <2>2. /\ Cardinality(Holders(m)') <= Cardinality(Holders(m))
        /\ Cardinality(Holders(m)') \in Nat /\ Cardinality(Holders(m)) \in Nat
        /\ Cardinality(Checks) \in Nat
    BY <2>1, Counting
  <2>3. written[m] + Cardinality(Holders(m)) <= Cardinality(Checks) + unmarked[m]
    BY DEF CopiesBounded
  <2> QED
    BY <1>3, <1>5, <2>2, <2>3
<1>7. ASSUME NEW m \in Mails, mailbox'[m] = "unread"
      PROVE  written'[m] + Cardinality(Served(m)') <= unmarked'[m]
  <2>1. Served(m) \in SUBSET Checks /\ Served(m)' \in SUBSET Checks
    BY DEF Served
  <2>2. written[m] + Cardinality(Served(m)) <= unmarked[m]
    BY <1>3, <1>7 DEF Fresh
  <2>3. Cardinality(Served(m)) \in Nat /\ Cardinality(Served(m)') \in Nat
    BY <2>1, Counting
  <2>4. CASE m = x
    <3>1. Served(m) \union {c} \in SUBSET Checks
      BY <2>1
    <3>2. /\ Cardinality(Served(m)') <= Cardinality(Served(m) \union {c})
          /\ Cardinality(Served(m) \union {c}) <= Cardinality(Served(m)) + 1
          /\ Cardinality(Served(m) \union {c}) \in Nat
      BY <1>4, <2>1, <3>1, Counting
    <3> QED
      BY <1>3, <1>5, <2>2, <2>3, <2>4, <3>2
  <2>5. CASE m # x
    <3>1. Cardinality(Served(m)') <= Cardinality(Served(m))
      BY <1>4, <2>1, <2>5, Counting
    <3> QED
      BY <1>3, <1>5, <2>2, <2>3, <2>5, <3>1
  <2> QED
    BY <2>4, <2>5
<1> QED
  BY <1>6, <1>7 DEF Fresh, CopiesBounded

\* A commit writes what its check held and had served.
LEMMA CommitBound ==
    ASSUME OutlookAssumption, TypeOK, TypeOK', CheckOK, Fresh, CopiesBounded,
           NEW c \in Checks, Commit(c)
    PROVE  Fresh' /\ CopiesBounded'
<1>1. \A d \in Checks \ {c} : check'[d] = check[d]
  BY StepOfOne DEF Work
<1>2. /\ check'[c] = Rest /\ mailbox' = mailbox /\ unmarked' = unmarked
      /\ check[c].mail = None
  BY DEF Commit, TypeOK, CheckOK
<1>3. \A m \in Mails :
        /\ written[m] \in Nat /\ unmarked[m] \in Nat
        /\ written'[m] = IF m \in check[c].done THEN written[m] + 1 ELSE written[m]
  BY DEF Commit, TypeOK
<1>4. ASSUME NEW m \in Mails
      PROVE  /\ Holders(m)' = Holders(m) \ {c} /\ Served(m)' = Served(m) \ {c}
             /\ m \in check[c].done => c \in Holders(m) /\ c \in Served(m)
             /\ Holders(m) \in SUBSET Checks /\ Served(m) \in SUBSET Checks
  <2>1. m # None
    BY DEF OutlookAssumption
  <2> QED
    BY <1>1, <1>2, <2>1 DEF Holders, Served, Rest
<1>5. ASSUME NEW m \in Mails, NEW S \in SUBSET Checks, NEW b \in Nat,
             m \in check[c].done => c \in S, written[m] + Cardinality(S) <= b
      PROVE  written'[m] + Cardinality(S \ {c}) <= b
  <2>1. /\ Cardinality(S) \in Nat /\ S \ {c} \in SUBSET S
        /\ Cardinality(S \ {c}) <= Cardinality(S) /\ Cardinality(S \ {c}) \in Nat
    BY Counting
  <2>2. m \in check[c].done => Cardinality(S \ {c}) = Cardinality(S) - 1
    BY <1>5, Counting
  <2> QED
    BY <1>3, <1>5, <2>1, <2>2
<1>6. CopiesBounded'
  <2>1. ASSUME NEW m \in Mails
        PROVE  written'[m] + Cardinality(Holders(m)') <= Cardinality(Checks) + unmarked'[m]
    <3>1. Cardinality(Checks) + unmarked[m] \in Nat
      BY <1>3, Counting
    <3>2. written[m] + Cardinality(Holders(m)) <= Cardinality(Checks) + unmarked[m]
      BY DEF CopiesBounded
    <3> QED
      BY <1>2, <1>4, <1>5, <3>1, <3>2
  <2> QED
    BY <2>1 DEF CopiesBounded
<1>7. Fresh'
  <2>1. ASSUME NEW m \in Mails, mailbox'[m] = "unread"
        PROVE  written'[m] + Cardinality(Served(m)') <= unmarked'[m]
    <3>1. written[m] + Cardinality(Served(m)) <= unmarked[m]
      BY <1>2, <2>1 DEF Fresh
    <3> QED
      BY <1>2, <1>3, <1>4, <1>5, <3>1
  <2> QED
    BY <2>1 DEF Fresh
<1> QED
  BY <1>6, <1>7

\* A poll takes unread mail, which has been written no more often than marks
\* have failed.
LEMMA PollBound ==
    ASSUME OutlookAssumption, TypeOK, TypeOK', CheckOK, Fresh, CopiesBounded,
           NEW c \in Checks, Poll(c)
    PROVE  Fresh' /\ CopiesBounded'
<1>1. \A d \in Checks \ {c} : check'[d] = check[d]
  BY StepOfOne
<1>2. /\ check'[c].list = Unread /\ check'[c].mail = None /\ check'[c].done = {}
      /\ mailbox' = mailbox /\ unmarked' = unmarked /\ written' = written
  BY DEF Poll, Rest, Tables, TypeOK
<1>3. ASSUME NEW m \in Mails
      PROVE  /\ Holders(m)' \in SUBSET Checks /\ Served(m)' \subseteq Served(m)
             /\ mailbox[m] # "unread" => Holders(m)' \subseteq Holders(m)
             /\ Holders(m) \in SUBSET Checks /\ Served(m) \in SUBSET Checks
             /\ Served(m)' \in SUBSET Checks
             /\ written[m] \in Nat /\ unmarked[m] \in Nat
  <2>1. m # None
    BY DEF OutlookAssumption
  <2> QED
    BY <1>1, <1>2, <2>1 DEF Holders, Served, Unread, TypeOK
<1>4. ASSUME NEW m \in Mails, mailbox'[m] = "unread"
      PROVE  written'[m] + Cardinality(Served(m)') <= unmarked'[m]
  <2>1. /\ Cardinality(Served(m)') <= Cardinality(Served(m))
        /\ Cardinality(Served(m)') \in Nat /\ Cardinality(Served(m)) \in Nat
    BY <1>3, Counting
  <2>2. written[m] + Cardinality(Served(m)) <= unmarked[m]
    BY <1>2, <1>4 DEF Fresh
  <2> QED
    BY <1>2, <1>3, <2>1, <2>2
<1>5. ASSUME NEW m \in Mails
      PROVE  written'[m] + Cardinality(Holders(m)') <= Cardinality(Checks) + unmarked'[m]
  <2>1. /\ Cardinality(Holders(m)') <= Cardinality(Checks)
        /\ Cardinality(Holders(m)') \in Nat /\ Cardinality(Holders(m)) \in Nat
        /\ Cardinality(Checks) \in Nat /\ Cardinality(Served(m)) \in Nat
    BY <1>3, Counting
  <2>2. CASE mailbox[m] = "unread"
    <3>1. written[m] + Cardinality(Served(m)) <= unmarked[m]
      BY <2>2 DEF Fresh
    <3> QED
      BY <1>2, <1>3, <2>1, <3>1
  <2>3. CASE mailbox[m] # "unread"
    <3>1. Cardinality(Holders(m)') <= Cardinality(Holders(m))
      BY <1>3, <2>3, Counting
    <3>2. written[m] + Cardinality(Holders(m)) <= Cardinality(Checks) + unmarked[m]
      BY DEF CopiesBounded
    <3> QED
      BY <1>2, <1>3, <2>1, <3>1, <3>2
  <2> QED
    BY <2>2, <2>3
<1> QED
  BY <1>4, <1>5 DEF Fresh, CopiesBounded

\* Mail that arrives is held by nobody and was never written.
LEMMA ArriveBound ==
    ASSUME OutlookAssumption, TypeOK, AbsentOK, Fresh, CopiesBounded,
           NEW x \in Mails, Arrive(x)
    PROVE  Fresh' /\ CopiesBounded'
<1>1. /\ UNCHANGED <<written, check, unmarked>> /\ mailbox[x] = "absent"
      /\ \A m \in Mails \ {x} : mailbox'[m] = mailbox[m]
  BY DEF Arrive, TypeOK
<1>2. \A m \in Mails : Holders(m)' = Holders(m) /\ Served(m)' = Served(m)
  BY <1>1 DEF Holders, Served
<1>3. written[x] = 0 /\ Served(x) = {} /\ unmarked[x] \in Nat
  BY <1>1 DEF AbsentOK, Holders, Served, TypeOK
<1>4. Cardinality(Served(x)) = 0
  BY <1>3, FS_EmptySet
<1>5. Fresh'
  BY <1>1, <1>2, <1>3, <1>4 DEF Fresh
<1>6. CopiesBounded'
  BY <1>1, <1>2 DEF CopiesBounded
<1> QED
  BY <1>5, <1>6

-----------------------------------------------------------------------------
(* Mail that is settled *)

\* A mail that is safe stays safe: its data is committed, or it is excused
\* with the transaction.
LEMMA SafeStays ==
    ASSUME OutlookAssumption, TypeOK, TypeOK', CheckOK, [Next]_vars,
           NEW m \in Mails, Safe(m)
    PROVE  Safe(m)'
<1>1. written[m] \in Nat /\ written'[m] \in Nat /\ check \in [Checks -> Check]
  BY DEF TypeOK
<1>2. ASSUME NEW c \in Checks, Commit(c) PROVE Safe(m)'
  <2>1. written' = [x \in Mails |-> IF x \in check[c].done THEN written[x] + 1 ELSE written[x]]
        /\ excused' = excused /\ \A d \in Checks \ {c} : check'[d] = check[d]
    BY <1>2, StepOfOne DEF Commit, Work
  <2> QED
    BY <1>1, <2>1 DEF Safe
<1>3. ASSUME NEW c \in Checks, Raise(c) \/ Fail(c) PROVE Safe(m)'
  <2>1. /\ written' = written /\ excused \union check[c].done \subseteq excused'
        /\ \A d \in Checks \ {c} : check'[d] = check[d]
    BY <1>3, StepOfOne DEF Raise, Fail, Rollback, Tables, Work
  <2> QED
    BY <2>1 DEF Safe
<1>4. ASSUME NEW c \in Checks,
             \/ Poll(c) \/ (\E l \in Mails : Look(c, l)) \/ Fetch(c) \/ Process(c)
             \/ Mark(c) \/ MarkFails(c)
      PROVE  Safe(m)'
  <2>1. written' = written /\ excused \subseteq excused'
    BY <1>4 DEF Poll, Look, Fetch, Process, Mark, MarkFails, Tables
  <2>2. \A d \in Checks \ {c} : check'[d] = check[d]
    BY <1>4, StepOfOne DEF Work
  <2>3. check[c].done \subseteq check'[c].done
    <3>1. CASE Poll(c)
      BY <3>1 DEF Poll, TypeOK, Rest
    <3>2. CASE (\E l \in Mails : Look(c, l)) \/ Fetch(c) \/ Process(c)
      <4>1. CASE \E l \in Mails : Look(c, l)
        <5>1. PICK l \in Mails : Look(c, l)
          BY <4>1
        <5> QED
          BY <1>1, <5>1 DEF Look, Check
      <4>2. CASE Fetch(c)
        BY <1>1, <4>2 DEF Fetch, Check
      <4>3. CASE Process(c)
        BY <1>1, <4>3 DEF Process, Check
      <4> QED
        BY <3>2, <4>1, <4>2, <4>3
    <3>3. CASE Mark(c) \/ MarkFails(c)
      BY <1>1, <3>3 DEF Mark, MarkFails, Onward, Check
    <3> QED
      BY <1>4, <3>1, <3>2, <3>3
  <2> QED
    BY <2>1, <2>2, <2>3 DEF Safe
<1>5. CASE UNCHANGED <<written, check, excused>>
  BY <1>5 DEF Safe
<1> QED
  BY <1>2, <1>3, <1>4, <1>5 DEF Next, Work, Arrive, Upload, Delete, vars

\* A check comes to the mark of a known mail only when the mail is safe.
LEMMA SettledKeeps ==
    ASSUME OutlookAssumption, TypeOK, TypeOK', CheckOK, Settled, [Next]_vars
    PROVE  Settled'
<1> SUFFICES ASSUME NEW m \in Known,
                    \/ mailbox'[m] = "read"
                    \/ \E c \in Checks : check'[c].step = "mark" /\ check'[c].mail = m
             PROVE  Safe(m)'
  BY DEF Settled
<1>1. m \in Mails /\ m # None
  BY DEF OutlookAssumption
<1>2. CASE Safe(m)
  BY <1>1, <1>2, SafeStays
<1>3. CASE ~Safe(m)
  <2>1. /\ mailbox[m] # "read"
        /\ \A c \in Checks : check[c].step = "mark" => check[c].mail # m
    BY <1>3 DEF Settled
  <2>2. check \in [Checks -> Check]
    BY DEF TypeOK
  <2>3. ASSUME NEW c \in Checks, Fetch(c) \/ Process(c) PROVE Safe(m)'
    <3>1. mailbox' = mailbox /\ \A d \in Checks \ {c} : check'[d] = check[d]
      BY <2>3, StepOfOne DEF Fetch, Process, Tables, Work
    <3>2. check'[c].step = "mark" /\ check'[c].mail = m
      BY <2>1, <3>1
    <3>3. check[c].mail = m
      BY <2>2, <2>3, <3>2 DEF Fetch, Process, Check
    <3> QED
      BY <2>2, <2>3, <3>2, <3>3 DEF Fetch, Process, Safe, Check
  <2>4. ASSUME NEW c \in Checks,
               \/ Poll(c) \/ (\E l \in Mails : Look(c, l)) \/ Commit(c)
               \/ Mark(c) \/ MarkFails(c) \/ Raise(c) \/ Fail(c)
        PROVE  FALSE
    <3>1. \A d \in Checks \ {c} : check'[d] = check[d]
      BY <2>4, StepOfOne DEF Work
    <3>2. check'[c].step = "mark" /\ check'[c].mail = m => m \notin Known
      <4>1. CASE Poll(c)
        BY <2>2, <4>1 DEF Poll, Rest
      <4>2. CASE \E l \in Mails : Look(c, l)
        <5>1. PICK l \in Mails : Look(c, l)
          BY <4>2
        <5> QED
          BY <2>2, <5>1 DEF Look, Check
      <4>3. CASE Commit(c) \/ Raise(c) \/ Fail(c)
        BY <2>2, <4>3 DEF Commit, Raise, Fail, Rollback, Rest
      <4>4. CASE Mark(c) \/ MarkFails(c)
        BY <2>2, <4>4 DEF Mark, MarkFails, Onward, Check
      <4> QED
        BY <2>4, <4>1, <4>2, <4>3, <4>4
    <3>3. mailbox'[m] # "read"
      <4>1. CASE Mark(c)
        <5>1. check[c].mail # m /\ mailbox' = [mailbox EXCEPT ![check[c].mail] = "read"]
          BY <2>1, <4>1 DEF Mark
        <5> QED
          BY <1>1, <2>1, <5>1 DEF TypeOK
      <4>2. CASE ~Mark(c)
        BY <2>1, <2>4, <4>2 DEF Poll, Look, Commit, MarkFails, Raise, Fail, Tables
      <4> QED
        BY <4>1, <4>2
    <3> QED
      BY <2>1, <3>1, <3>2, <3>3
  <2>5. CASE \E x \in Mails : Arrive(x)
    BY <1>1, <2>1, <2>5 DEF Arrive, TypeOK
  <2>6. CASE (\E n \in Names : Upload(n) \/ Delete(n)) \/ UNCHANGED vars
    BY <2>1, <2>6 DEF Upload, Delete, vars
  <2> QED
    BY <2>3, <2>4, <2>5, <2>6 DEF Next, Work
<1> QED
  BY <1>2, <1>3

\* Mail that has not arrived is listed and written by nobody.
LEMMA AbsentKeeps ==
    ASSUME OutlookAssumption, TypeOK, TypeOK', CheckOK, AbsentOK, [Next]_vars
    PROVE  AbsentOK'
<1> SUFFICES ASSUME NEW m \in Mails, mailbox'[m] = "absent"
             PROVE  written'[m] = 0 /\ Holders(m)' = {}
  BY DEF AbsentOK
<1>1. mailbox[m] = "absent"
  BY DEF Next, Work, Arrive, Upload, Delete, Poll, Look, Fetch, Process, Mark, MarkFails,
         Commit, Raise, Fail, Tables, vars, TypeOK
<1>2. /\ written[m] = 0
      /\ \A c \in Checks : m \notin check[c].list \union {check[c].mail} \union check[c].done
  BY <1>1 DEF AbsentOK, Holders
<1>3. m # None /\ check \in [Checks -> Check]
  BY DEF OutlookAssumption, TypeOK
<1>4. ASSUME NEW c \in Checks, Poll(c) \/ Work(c) \/ Fail(c)
      PROVE  written'[m] = 0 /\ Holders(m)' = {}
  <2>1. \A d \in Checks \ {c} : check'[d] = check[d]
    BY <1>4, StepOfOne
  <2>2. m \notin check'[c].list \union {check'[c].mail} \union check'[c].done
    <3>1. CASE Poll(c)
      BY <1>1, <1>3, <3>1 DEF Poll, Rest, Unread
    <3>2. CASE (\E l \in Mails : Look(c, l)) \/ Fetch(c) \/ Process(c)
      <4>1. CASE \E l \in Mails : Look(c, l)
        <5>1. PICK l \in Mails : Look(c, l)
          BY <4>1
        <5> QED
          BY <1>2, <1>3, <5>1 DEF Look, Check
      <4>2. CASE Fetch(c)
        BY <1>2, <1>3, <4>2 DEF Fetch, Check
      <4>3. CASE Process(c)
        BY <1>2, <1>3, <4>3 DEF Process, Check
      <4> QED
        BY <3>2, <4>1, <4>2, <4>3
    <3>3. CASE Mark(c) \/ MarkFails(c)
      BY <1>2, <1>3, <3>3 DEF Mark, MarkFails, Onward, Check
    <3>4. CASE Commit(c) \/ Raise(c) \/ Fail(c)
      BY <1>3, <3>4 DEF Commit, Raise, Fail, Rollback, Rest
    <3> QED
      BY <1>4, <3>1, <3>2, <3>3, <3>4 DEF Work
  <2>3. written'[m] = written[m]
    BY <1>2, <1>4 DEF Work, Poll, Look, Fetch, Process, Mark, MarkFails, Commit, Raise, Fail,
                      Tables
  <2> QED
    BY <1>2, <2>1, <2>2, <2>3 DEF Holders
<1>5. CASE UNCHANGED <<written, check>>
  BY <1>2, <1>5 DEF Holders
<1> QED
  BY <1>4, <1>5 DEF Next, Arrive, Upload, Delete, vars

-----------------------------------------------------------------------------
(* The theorems *)

\* No mail, no checks.
LEMMA InitIInv == OutlookAssumption /\ Init => IInv
<1> SUFFICES ASSUME OutlookAssumption, Init PROVE IInv
  OBVIOUS
<1>1. TypeOK
  BY RestType DEF Init, TypeOK, OutlookAssumption
<1>2. CheckOK /\ Settled
  BY DEF Init, CheckOK, Settled, Rest, OutlookAssumption
<1>3. \A m \in Mails : Holders(m) = {} /\ written[m] = 0 /\ unmarked[m] = 0
                        /\ mailbox[m] = "absent"
  BY DEF Init, Holders, Rest, OutlookAssumption
<1>4. Cardinality({}) = 0 /\ Cardinality(Checks) \in Nat
  BY FS_EmptySet, Counting
<1>5. AbsentOK /\ Fresh /\ CopiesBounded
  <2>1. AbsentOK /\ Fresh
    BY <1>3 DEF AbsentOK, Fresh
  <2>2. CopiesBounded
    <3>1. \A m \in Mails : Cardinality(Holders(m)) = 0
      BY <1>3, <1>4
    <3> QED
      BY <1>3, <1>4, <3>1 DEF CopiesBounded
  <2> QED
    BY <2>1, <2>2
<1> QED
  BY <1>1, <1>2, <1>5 DEF IInv

\* Every step keeps all parts of the invariant.
LEMMA NextIInv == OutlookAssumption /\ IInv /\ [Next]_vars => IInv'
<1> SUFFICES ASSUME OutlookAssumption, IInv, [Next]_vars PROVE IInv'
  OBVIOUS
<1> USE DEF IInv
<1>1. TypeOK'
  BY NextType
<1>2. AbsentOK' /\ Settled'
  BY <1>1, AbsentKeeps, SettledKeeps
<1>3. CASE UNCHANGED <<check, written, mailbox, unmarked>>
  <2>1. CheckOK'
    BY <1>3 DEF CheckOK
  <2>2. Fresh' /\ CopiesBounded'
    BY <1>3 DEF Fresh, CopiesBounded, Served, Holders
  <2> QED
    BY <1>1, <1>2, <2>1, <2>2
<1>4. ASSUME NEW m \in Mails, Arrive(m) PROVE IInv'
  <2>1. CheckOK'
    BY <1>4 DEF Arrive, CheckOK
  <2> QED
    BY <1>1, <1>2, <1>4, <2>1, ArriveBound
<1>5. ASSUME NEW c \in Checks, Poll(c) \/ Work(c) \/ Fail(c) PROVE IInv'
  <2>1. CheckOK'
    BY <1>5, StepOfOne
  <2>2. Fresh' /\ CopiesBounded'
    BY <1>1, <1>5, LettingGo, MarkFailsBound, CommitBound, PollBound DEF Work
  <2> QED
    BY <1>1, <1>2, <2>1, <2>2
<1> QED
  BY <1>3, <1>4, <1>5 DEF Next, Upload, Delete, vars

\* The parts of the invariant hold in every reachable state.
THEOREM Inductive == Spec => []IInv
<1>1. OutlookAssumption
  BY OutlookAssumption
<1> QED
  BY <1>1, InitIInv, NextIInv, PTL DEF Spec

\* Every variable of the mailbox and of the checks keeps its type.
THEOREM TypeCorrect == Spec => []TypeOK
BY Inductive, PTL DEF IInv

\* The data of a mail is stored at most once per check that runs at a time and
\* once more for each mark that failed.
THEOREM CopiesStayBounded == Spec => []CopiesBounded
BY Inductive, PTL DEF IInv

\* Known mail that is read is written or held, unless a check gave it up.
THEOREM NothingLostUnnoticed == Spec => []LostOnlyByFailure
<1>1. OutlookAssumption
  BY OutlookAssumption
<1>2. IInv => LostOnlyByFailure
  <2> SUFFICES ASSUME IInv, NEW m \in Known, mailbox[m] = "read",
                      written[m] = 0, Holders(m) = {}
               PROVE  m \in excused
    BY DEF LostOnlyByFailure
  <2>1. Safe(m)
    BY DEF IInv, Settled
  <2> QED
    BY <2>1 DEF Safe, Holders
<1> QED
  BY <1>2, Inductive, PTL
=============================================================================
