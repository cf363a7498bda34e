---------------------------- MODULE LoginLimiter ----------------------------
(***************************************************************************)
(* The login limiter of the AIOps backend: RateLimiter (security.py) as    *)
(* the login route uses it.  A login is a request that asks is_locked,     *)
(* reads the user, and then records a failure, or records a success and    *)
(* deletes the failures.  Each of these is a database statement of its own *)
(* (asyncpg, no transaction), so requests interleave between them.         *)
(*                                                                         *)
(* Whether the credentials match is left open.  Rows of successful logins  *)
(* are never counted and are left out, and so is the moment between the    *)
(* utcnow() a statement carries and the statement.                         *)
(***************************************************************************)
EXTENDS Naturals, Sequences, FiniteSets

CONSTANTS
    Users,         \* user names
    Requests,      \* requests the server can have in progress
    MaxAttempts,   \* RATE_LIMIT_MAX_ATTEMPTS
    Window,        \* RATE_LIMIT_WINDOW_MINUTES
    MaxTime        \* bound on the clock

ASSUME LimiterAssumption ==
    /\ IsFiniteSet(Requests)
    /\ MaxAttempts \in Nat \ {0}
    /\ Window \in Nat \ {0}
    /\ MaxTime \in Nat

VARIABLES
    now,        \* datetime.utcnow(), in units of the window
    failures,   \* attempted_at of the failed rows of a user, oldest first
    step,       \* what each request does next
    user        \* the user name each request is for

vars == <<now, failures, step, user>>

Steps == {"idle", "check", "verify", "fail", "clear"}

Init ==
    /\ now = 0
    /\ failures = [u \in Users |-> <<>>]
    /\ step = [q \in Requests |-> "idle"]
    /\ user \in [Requests -> Users]

-----------------------------------------------------------------------------

\* The rows of u that are inside the window, by index.
Recent(u) == {i \in DOMAIN failures[u] : failures[u][i] + Window > now}

\* Mutant: the count is compared with > instead of >=.
MutIsLocked(u) == Cardinality(Recent(u)) > MaxAttempts

\* RateLimiter.is_locked
IsLocked(u) == Cardinality(Recent(u)) >= MaxAttempts

Goto(q, s) == step' = [step EXCEPT ![q] = s]

Tick ==
    /\ now < MaxTime
    /\ now' = now + 1
    /\ UNCHANGED <<failures, step, user>>

Submit(q, u) ==
    /\ step[q] = "idle"
    /\ Goto(q, "check")
    /\ user' = [user EXCEPT ![q] = u]
    /\ UNCHANGED <<now, failures>>

\* 429 without looking at the credentials.
Refuse(q) ==
    /\ step[q] = "check"
    /\ IsLocked(user[q])
    /\ Goto(q, "idle")
    /\ UNCHANGED <<now, failures, user>>

Admit(q) ==
    /\ step[q] = "check"
    /\ ~IsLocked(user[q])
    /\ Goto(q, "verify")
    /\ UNCHANGED <<now, failures, user>>

\* The user row is read and the password compared with its hash.
Verify(q) ==
    /\ step[q] = "verify"
    /\ \E s \in {"fail", "clear"} : Goto(q, s)
    /\ UNCHANGED <<now, failures, user>>

\* record_attempt(success=False), then 401.
RecordFailure(q) ==
    /\ step[q] = "fail"
    /\ failures' = [failures EXCEPT ![user[q]] = Append(@, now)]
    /\ Goto(q, "idle")
    /\ UNCHANGED <<now, user>>

\* reset: the failed rows of the user go, whoever recorded them.
Reset(q) ==
    /\ step[q] = "clear"
    /\ failures' = [failures EXCEPT ![user[q]] = <<>>]
    /\ Goto(q, "idle")
    /\ UNCHANGED <<now, user>>

Handle(q) ==
    Refuse(q) \/ Admit(q) \/ Verify(q) \/ RecordFailure(q) \/ Reset(q)

Next ==
    \/ Tick
    \/ \E q \in Requests : Handle(q) \/ (\E u \in Users : Submit(q, u))

Spec == Init /\ [][Next]_vars

-----------------------------------------------------------------------------
(* Properties *)

TypeOK ==
    /\ now \in Nat
    /\ failures \in [Users -> Seq(Nat)]
    /\ step \in [Requests -> Steps]
    /\ user \in [Requests -> Users]

\* Requests for u that passed the check and have not recorded an outcome.
InFlight(u) == {q \in Requests : step[q] \in {"verify", "fail"} /\ user[q] = u}

\* However the requests interleave between the check and the record, no window
\* ever holds more failures of a user than the limit plus the requests that
\* can be past the check at once, less one.
OverrunBounded ==
    \A u \in Users :
        Cardinality(Recent(u)) + Cardinality(InFlight(u))
            <= (MaxAttempts - 1) + Cardinality(Requests)
=============================================================================
