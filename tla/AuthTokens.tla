----------------------------- MODULE AuthTokens -----------------------------
(***************************************************************************)
(* Accounts and access tokens of the AIOps backend: login, logout, change  *)
(* and reset of a password, creation of users, the middleware that every   *)
(* other route depends on, and the task that purges the blacklist.         *)
(*                                                                         *)
(* The token carries what the login read; the routes never read the user   *)
(* again.  A request is cut at its database statements: between the        *)
(* statement and the next the event loop serves other requests.            *)
(*                                                                         *)
(* Credentials and their hashes are left out: any login of an existing     *)
(* account may succeed.  Requests that fail a check and change nothing are *)
(* not steps.  The limiter in front of the login is module LoginLimiter.   *)
(***************************************************************************)
EXTENDS Naturals, FiniteSets

CONSTANTS
    Users,          \* user names
    Admins,         \* the users with role Admin
    Tokens,         \* jtis of the tokens that may be issued
    ResetTokens,    \* password reset tokens that may be generated
    Requests,       \* requests the server can have in progress
    TokenTTL,       \* ACCESS_TOKEN_EXPIRE_MINUTES
    BlacklistTTL,   \* life of a blacklist entry
    ResetTTL,       \* life of a reset token
    MaxTime         \* bound on the clock

ASSUME AuthAssumption ==
    /\ Admins \subseteq Users
    /\ TokenTTL \in Nat
    /\ BlacklistTTL \in Nat
    /\ TokenTTL <= BlacklistTTL
    /\ ResetTTL \in Nat
    /\ MaxTime \in Nat

VARIABLES
    now,        \* the clock, in half seconds
    account,    \* the row of a user: absent, first_time_flag set, or cleared
    tokens,     \* the claims of each token, once issued
    blacklist,  \* rows of token_blacklist
    resets,     \* rows of reset_tokens
    req,        \* where each request stands
    loggedOut   \* history: tokens a logout was answered for

vars == <<now, account, tokens, blacklist, resets, req, loggedOut>>

NoToken == [user |-> "none"]
NoReset == [user |-> "none"]

Claims == [user : Users, first : BOOLEAN, exp : Nat]
ResetRow == [user : Users, expires : Nat, used : BOOLEAN, tried : BOOLEAN]

Operations == {"logout", "change", "create", "use"}

\* A request that presents a token: its next step, what it asks for, and whether
\* the token had already been logged out when the request began (history).
Call == [step : {"blacklist", "logout", "verify", "update", "check", "act"},
         op : Operations, token : Tokens, late : BOOLEAN]

\* A request about to issue a token, with the flag it read or has just cleared.
Grant == [step : {"issue"}, user : Users, first : BOOLEAN]

\* A request about to insert a user.
Insertion == [step : {"insert"}, user : Users]

Idle == [step |-> "idle"]

\* The seeded administrator, who may have changed the password before.
Init ==
    /\ now = 0
    /\ account \in [Users -> {"none", "first_time", "active"}]
    /\ \A u \in Users : account[u] = "none" <=> u \notin Admins
    /\ tokens = [t \in Tokens |-> NoToken]
    /\ blacklist = {}
    /\ resets = [r \in ResetTokens |-> NoReset]
    /\ req = [q \in Requests |-> Idle]
    /\ loggedOut = {}

-----------------------------------------------------------------------------
(* The clock and the background task *)

\* jose keeps whole seconds: an exp is cut down to one, and so is the time it
\* is compared with.
Second(t) == t - (t % 2)

Tick ==
    /\ now < MaxTime
    /\ now' = now + 1
    /\ UNCHANGED <<account, tokens, blacklist, resets, req, loggedOut>>

\* Mutant: the entries that expire within the next tick go as well.
MutCleanup ==
    /\ blacklist' = {b \in blacklist : b.expires > now}
    /\ UNCHANGED <<now, account, tokens, resets, req, loggedOut>>

\* cleanup_blacklist, whenever its timer fires
Cleanup ==
    /\ blacklist' = {b \in blacklist : b.expires >= now}
    /\ UNCHANGED <<now, account, tokens, resets, req, loggedOut>>

-----------------------------------------------------------------------------
(* Login and the tokens it issues *)

Become(q, r) == req' = [req EXCEPT ![q] = r]
Goto(q, s) == Become(q, [req[q] EXCEPT !.step = s])
Finish(q) == Become(q, Idle)

\* login: the row is read, and its flag kept for the token.
LoginRead(q, u) ==
    /\ req[q].step = "idle"
    /\ account[u] # "none"
    /\ Become(q, [step |-> "issue", user |-> u, first |-> account[u] = "first_time"])
    /\ UNCHANGED <<now, account, tokens, blacklist, resets, loggedOut>>

\* Mutant: first_time is not taken from the row.
MutIssue(q, t) ==
    /\ req[q].step = "issue"
    /\ tokens[t] = NoToken
    /\ tokens' = [tokens EXCEPT ![t] =
            [user |-> req[q].user, first |-> FALSE,
             exp |-> Second(now + TokenTTL)]]
    /\ Finish(q)
    /\ UNCHANGED <<now, account, blacklist, resets, loggedOut>>

\* create_access_token, at the end of a login and of a change of password
Issue(q, t) ==
    /\ req[q].step = "issue"
    /\ tokens[t] = NoToken
    /\ tokens' = [tokens EXCEPT ![t] =
            [user |-> req[q].user, first |-> req[q].first,
             exp |-> Second(now + TokenTTL)]]
    /\ Finish(q)
    /\ UNCHANGED <<now, account, blacklist, resets, loggedOut>>

-----------------------------------------------------------------------------
(* The middleware *)

\* decode_access_token: an exp in the past is refused.
Decode(q, t, op) ==
    /\ req[q].step = "idle"
    /\ tokens[t] # NoToken
    /\ tokens[t].exp >= Second(now)
    /\ Become(q, [step |-> "blacklist", op |-> op, token |-> t,
                  late |-> t \in loggedOut])
    /\ UNCHANGED <<now, account, tokens, blacklist, resets, loggedOut>>

Blacklisted(t) == \E b \in blacklist : b.jti = t

\* The claims of the token a request presents
Claim(q) == tokens[req[q].token]

\* require_not_first_time and require_role decide on the claims alone.
Permitted(q) ==
    /\ req[q].op \in {"use", "create"} => ~Claim(q).first
    /\ req[q].op = "create" => Claim(q).user \in Admins

First == [logout |-> "logout", change |-> "verify", create |-> "check", use |-> "act"]

\* 401 or 403
Reject(q) ==
    /\ req[q].step = "blacklist"
    /\ Blacklisted(req[q].token) \/ ~Permitted(q)
    /\ Finish(q)
    /\ UNCHANGED <<now, account, tokens, blacklist, resets, loggedOut>>

\* The lookup in token_blacklist finds no row, and the route begins.
Accept(q) ==
    /\ req[q].step = "blacklist"
    /\ ~Blacklisted(req[q].token)
    /\ Permitted(q)
    /\ Goto(q, First[req[q].op])
    /\ UNCHANGED <<now, account, tokens, blacklist, resets, loggedOut>>

-----------------------------------------------------------------------------
(* The routes behind it *)

\* A route that needs full access: costs, status, query, documents, ...
Act(q) ==
    /\ req[q].step = "act"
    /\ Finish(q)
    /\ UNCHANGED <<now, account, tokens, blacklist, resets, loggedOut>>

\* logout: ON CONFLICT DO NOTHING leaves an earlier entry as it is.
Logout(q) ==
    LET t == req[q].token IN
    /\ req[q].step = "logout"
    /\ blacklist' = IF Blacklisted(t) THEN blacklist
                    ELSE blacklist \union {[jti |-> t, expires |-> now + BlacklistTTL]}
    /\ loggedOut' = loggedOut \union {t}
    /\ Finish(q)
    /\ UNCHANGED <<now, account, tokens, resets>>

\* change_password: the row is read, the current password compared and the new
\* one held against the policy; either may end the request.
ChangeVerify(q) ==
    /\ req[q].step = "verify"
    /\ Goto(q, "update") \/ Finish(q)
    /\ UNCHANGED <<now, account, tokens, blacklist, resets, loggedOut>>

\* The hash is replaced and first_time_flag cleared in one statement.
ChangeUpdate(q) ==
    /\ req[q].step = "update"
    /\ account' = [account EXCEPT ![Claim(q).user] = "active"]
    /\ Become(q, [step |-> "issue", user |-> Claim(q).user, first |-> FALSE])
    /\ UNCHANGED <<now, tokens, blacklist, resets, loggedOut>>

\* create_user: the name must be free when it is looked up ...
CreateCheck(q, u) ==
    /\ req[q].step = "check"
    /\ Become(q, IF account[u] = "none" THEN [step |-> "insert", user |-> u] ELSE Idle)
    /\ UNCHANGED <<now, account, tokens, blacklist, resets, loggedOut>>

\* ... and the insert fails on the unique name if it no longer is.
CreateInsert(q) ==
    /\ req[q].step = "insert"
    /\ account' = [account EXCEPT ![req[q].user] =
                      IF @ = "none" THEN "first_time" ELSE @]
    /\ Finish(q)
    /\ UNCHANGED <<now, tokens, blacklist, resets, loggedOut>>

-----------------------------------------------------------------------------
(* Reset tokens *)

\* reset_request: rows of users are never deleted, so the insert finds the user
\* the select found.
ResetRequest(u, r) ==
    /\ account[u] # "none"
    /\ resets[r] = NoReset
    /\ resets' = [resets EXCEPT ![r] =
            [user |-> u, expires |-> now + ResetTTL, used |-> FALSE, tried |-> FALSE]]
    /\ UNCHANGED <<now, account, tokens, blacklist, req, loggedOut>>

\* The token is known, unused and within its life.
ValidReset(r) ==
    /\ resets[r] # NoReset
    /\ ~resets[r].used
    /\ now <= resets[r].expires

\* reset_password with a password that meets the policy.  The row is read; its
\* expires_at is made timezone-aware and compared with the naive utcnow(),
\* which raises TypeError.  The statements behind the comparison never run.
\* tried records that the request was a valid one (history).
ResetPassword(r) ==
    /\ ValidReset(r)
    /\ resets' = [resets EXCEPT ![r].tried = TRUE]
    /\ UNCHANGED <<now, account, tokens, blacklist, req, loggedOut>>

-----------------------------------------------------------------------------

Handle(q) ==
    \/ \E u \in Users : LoginRead(q, u) \/ CreateCheck(q, u)
    \/ \E t \in Tokens : Issue(q, t) \/ (\E op \in Operations : Decode(q, t, op))
    \/ Reject(q) \/ Accept(q) \/ Act(q) \/ Logout(q)
    \/ ChangeVerify(q) \/ ChangeUpdate(q) \/ CreateInsert(q)

Next ==
    \/ Tick
    \/ Cleanup
    \/ \E q \in Requests : Handle(q)
    \/ \E r \in ResetTokens : ResetPassword(r) \/ (\E u \in Users : ResetRequest(u, r))

Spec == Init /\ [][Next]_vars

-----------------------------------------------------------------------------
(* Properties *)

TypeOK ==
    /\ now \in Nat
    /\ account \in [Users -> {"none", "first_time", "active"}]
    /\ tokens \in [Tokens -> Claims \union {NoToken}]
    /\ blacklist \subseteq [jti : Tokens, expires : Nat]
    /\ resets \in [ResetTokens -> ResetRow \union {NoReset}]
    /\ req \in [Requests -> Call \union Grant \union Insertion \union {Idle}]
    /\ loggedOut \subseteq Tokens

\* A request whose token was logged out before it began gets past the
\* middleware only when the life of the token is over, whatever the purge of
\* the blacklist, other logouts and the clock do between decode and lookup.
RevokedRefused ==
    [][\A q \in Requests : Accept(q) /\ req[q].late => Claim(q).exp < now]_vars

\* A request that acts with full access is one of a user whose temporary
\* password is gone for good, although the routes only look at the claims a
\* login read from the row some time ago (auth-rbac-ui-redesign 4.3).
FullAccessIsEarned ==
    \A q \in Requests :
        req[q].step \in {"act", "check"} => account[Claim(q).user] = "active"

\* auth-rbac-ui-redesign 3.2: a valid reset token and a new password update the
\* password and use up the token.
ResetHonoured ==
    \A r \in ResetTokens :
        resets[r] # NoReset /\ resets[r].tried => resets[r].used
=============================================================================
