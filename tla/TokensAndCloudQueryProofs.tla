--------------------- MODULE TokensAndCloudQueryProofs ----------------------
(***************************************************************************)
(* Two parts of the AIOps backend: the accounts and tokens of its users,   *)
(* and the route that turns a question into an action on a cloud. Each is  *)
(* specified alone; here are the theorems about both.                      *)
(***************************************************************************)
EXTENDS AuthTokens, CloudQuery, FiniteSetTheorems, TLAPS

-----------------------------------------------------------------------------
(***************************************************************************)
(* Accounts and tokens                                                     *)
(*                                                                         *)
(* Two promises for any users, tokens and requests: a token that was       *)
(* logged out is dead for the rest of its life, and full access is only    *)
(* ever exercised by users who have replaced their temporary password.     *)
(*                                                                         *)
(* Revocation rests on a blacklist entry outliving its token: an entry is  *)
(* made after the token was (TokenTTL <= BlacklistTTL), so the purge that  *)
(* removes it finds the token expired. Access rests on accounts never      *)
(* falling back from "active": what a login read of the row stays true.    *)
(***************************************************************************)

Requesting == Call \union Grant \union Insertion \union {Idle}

CallSteps == {"blacklist", "logout", "verify", "update", "check", "act"}

\* The step of a request tells what kind of record it is.
LEMMA KindByStep ==
    ASSUME NEW r \in Requesting
    PROVE  /\ r.step \in CallSteps => r \in Call
           /\ r.step = "issue" => r \in Grant
           /\ r.step = "insert" => r \in Insertion
  BY DEF Requesting, Call, Grant, Insertion, Idle, CallSteps

\* And the kind tells the step.
LEMMA StepByKind ==
    ASSUME NEW r \in Requesting
    PROVE  /\ r \in Call => r.step \in CallSteps
           /\ r \in Grant => r.step = "issue"
           /\ r \in Insertion => r.step = "insert"
           /\ r = Idle => r.step = "idle"
           /\ Idle \notin Call /\ Idle \notin Grant
           /\ r \in Call => r \notin Grant
  BY DEF Requesting, Call, Grant, Insertion, Idle, CallSteps

\* A token that was never issued has no claims, and a reset row is not absent.
LEMMA AbsentIsDistinct == NoToken \notin Claims /\ NoReset \notin ResetRow
  BY DEF NoToken, Claims, NoReset, ResetRow

\* Cutting a time down to the second never makes it later.
LEMMA SecondIsEarlier ==
    ASSUME NEW t \in Nat
    PROVE  Second(t) \in Nat /\ Second(t) <= t
  BY DEF Second

\* What a request presents is a token with claims: only issued tokens decode.
CallsHaveClaims ==
    \A q \in Requests : req[q] \in Call => tokens[req[q].token] \in Claims

Typed == TypeOK /\ CallsHaveClaims

\* Of the many handlers, only Issue changes the tokens.
LEMMA TokensStay ==
    ASSUME Typed, NEW t \in Tokens, tokens[t] \in Claims, [Next]_vars
    PROVE  tokens'[t] = tokens[t]
<1> USE AbsentIsDistinct DEF Typed, TypeOK
<1>1. ASSUME NEW q \in Requests, NEW s \in Tokens, Issue(q, s)
      PROVE  tokens'[t] = tokens[t]
  BY <1>1 DEF Issue
<1> QED
  BY <1>1 DEF Next, vars, Tick, Cleanup, Handle, LoginRead, CreateCheck, Decode,
              Reject, Accept, Act, Logout, ChangeVerify, ChangeUpdate,
              CreateInsert, ResetPassword, ResetRequest

\* Every step keeps the state well typed and the presented tokens issued.
LEMMA NextTyped == Typed /\ [Next]_vars => Typed'
<1> SUFFICES ASSUME Typed, [Next]_vars PROVE Typed'
  OBVIOUS
<1> DEFINE CallOK(r) == r \in Call => tokens'[r.token] \in Claims
<1>a. ASSUME NEW q \in Requests, NEW r \in Requesting, Become(q, r), CallOK(r)
      PROVE  req' \in [Requests -> Requesting] /\ CallsHaveClaims'
  <2>1. /\ req' \in [Requests -> Requesting] /\ req'[q] = r
        /\ \A p \in Requests \ {q} : req'[p] = req[p]
    BY <1>a DEF Typed, TypeOK, Become, Requesting
  <2>2. ASSUME NEW p \in Requests, req'[p] \in Call, p # q
        PROVE  tokens'[req'[p].token] \in Claims
    BY <2>1, <2>2, TokensStay DEF Typed, CallsHaveClaims, Call
  <2> QED
    BY <1>a, <2>1, <2>2 DEF CallsHaveClaims
<1>b. ASSUME req' = req
      PROVE  CallsHaveClaims'
  <2> SUFFICES ASSUME NEW p \in Requests, req[p] \in Call
               PROVE  tokens'[req[p].token] \in Claims
    BY <1>b DEF CallsHaveClaims
  <2> QED
    BY TokensStay DEF Typed, CallsHaveClaims, Call
<1>c. Idle \in Requesting /\ CallOK(Idle)
  BY StepByKind DEF Requesting
<1>d. ASSUME NEW q \in Requests, req[q].step \in CallSteps, NEW s \in CallSteps
      PROVE  [req[q] EXCEPT !.step = s] \in Requesting /\ CallOK([req[q] EXCEPT !.step = s])
  <2>1. req[q] \in Call
    BY <1>d, KindByStep DEF Typed, TypeOK, Requesting
  <2>2. [req[q] EXCEPT !.step = s] \in Call /\ [req[q] EXCEPT !.step = s].token = req[q].token
    BY <1>d, <2>1 DEF Call, CallSteps
  <2>3. tokens[req[q].token] \in Claims /\ req[q].token \in Tokens
    BY <2>1 DEF Typed, CallsHaveClaims, Call
  <2> QED
    BY <2>2, <2>3, TokensStay DEF Requesting
<1> USE DEF Requesting
<1>1. CASE Tick
  BY <1>1, <1>b DEF Typed, TypeOK, Tick
<1>2. CASE Cleanup
  BY <1>2, <1>b DEF Typed, TypeOK, Cleanup
<1>3. ASSUME NEW q \in Requests, NEW u \in Users, LoginRead(q, u)
      PROVE  Typed'
  <2> DEFINE r == [step |-> "issue", user |-> u, first |-> account[u] = "first_time"]
  <2>1. r \in Grant
    BY DEF Grant
  <2>2. CallOK(r)
    BY <2>1, StepByKind
  <2> QED
    BY <1>3, <1>a, <2>1, <2>2 DEF Typed, TypeOK, LoginRead
<1>4. ASSUME NEW q \in Requests, NEW u \in Users, CreateCheck(q, u)
      PROVE  Typed'
  <2> DEFINE r == [step |-> "insert", user |-> u]
  <2>1. r \in Insertion
    BY DEF Insertion
  <2>2. CallOK(r)
    BY DEF Call
  <2> QED
    BY <1>4, <1>a, <1>c, <2>1, <2>2 DEF Typed, TypeOK, CreateCheck
<1>5. ASSUME NEW q \in Requests, NEW t \in Tokens, Issue(q, t)
      PROVE  Typed'
  <2>1. req[q] \in Grant
    BY <1>5, KindByStep DEF Typed, TypeOK, Issue
  <2>2. Second(now + TokenTTL) \in Nat
    BY AuthAssumption, SecondIsEarlier DEF Typed, TypeOK
  <2>3. [user |-> req[q].user, first |-> req[q].first,
         exp |-> Second(now + TokenTTL)] \in Claims
    BY <2>1, <2>2 DEF Grant, Claims
  <2>4. req' \in [Requests -> Requesting] /\ CallsHaveClaims'
    BY <1>5, <1>a, <1>c DEF Issue, Finish
  <2> QED
    BY <1>5, <2>3, <2>4 DEF Typed, TypeOK, Issue
<1>6. ASSUME NEW q \in Requests, NEW t \in Tokens, NEW op \in Operations, Decode(q, t, op)
      PROVE  Typed'
  <2> DEFINE r == [step |-> "blacklist", op |-> op, token |-> t, late |-> t \in loggedOut]
  <2>1. r \in Call
    BY DEF Call
  <2>2. CallOK(r)
    BY <1>6 DEF Typed, TypeOK, Decode
  <2> QED
    BY <1>6, <1>a, <2>1, <2>2 DEF Typed, TypeOK, Decode
<1>7. ASSUME NEW q \in Requests, Reject(q) \/ Act(q)
      PROVE  Typed'
  BY <1>7, <1>a, <1>c DEF Typed, TypeOK, Reject, Act, Finish
<1>8. ASSUME NEW q \in Requests, Accept(q)
      PROVE  Typed'
  <2>1. req[q].step \in CallSteps /\ req[q] \in Call
    BY <1>8, KindByStep DEF Typed, TypeOK, Accept, CallSteps
  <2>2. First[req[q].op] \in CallSteps
    BY <2>1 DEF Call, Operations, First, CallSteps
  <2> QED
    BY <1>8, <1>a, <1>d, <2>1, <2>2 DEF Typed, TypeOK, Accept, Goto
<1>9. ASSUME NEW q \in Requests, Logout(q)
      PROVE  Typed'
  <2>1. req[q] \in Call
    BY <1>9, KindByStep DEF Typed, TypeOK, Logout, CallSteps
  <2>2. req[q].token \in Tokens /\ now + BlacklistTTL \in Nat
    BY <2>1, AuthAssumption DEF Typed, TypeOK, Call
  <2>3. req' \in [Requests -> Requesting] /\ CallsHaveClaims'
    BY <1>9, <1>a, <1>c DEF Logout, Finish
  <2> QED
    BY <1>9, <2>2, <2>3 DEF Typed, TypeOK, Logout
<1>10. ASSUME NEW q \in Requests, ChangeVerify(q)
       PROVE  Typed'
  <2>1. req[q].step \in CallSteps /\ "update" \in CallSteps
    BY <1>10 DEF ChangeVerify, CallSteps
  <2> QED
    BY <1>10, <1>a, <1>c, <1>d, <2>1 DEF Typed, TypeOK, ChangeVerify, Goto, Finish
<1>11. ASSUME NEW q \in Requests, ChangeUpdate(q)
       PROVE  Typed'
  <2> DEFINE r == [step |-> "issue", user |-> Claim(q).user, first |-> FALSE]
  <2>1. req[q] \in Call
    BY <1>11, KindByStep DEF Typed, TypeOK, ChangeUpdate, CallSteps
  <2>2. r \in Grant
    BY <2>1 DEF Typed, CallsHaveClaims, Claim, Claims, Grant
  <2>3. CallOK(r)
    BY <2>2, StepByKind
  <2> QED
    BY <1>11, <1>a, <2>2, <2>3 DEF Typed, TypeOK, ChangeUpdate
<1>12. ASSUME NEW q \in Requests, CreateInsert(q)
       PROVE  Typed'
  <2>1. req' \in [Requests -> Requesting] /\ CallsHaveClaims'
    BY <1>12, <1>a, <1>c DEF CreateInsert, Finish
  <2> QED
    BY <1>12, <2>1 DEF Typed, TypeOK, CreateInsert
<1>13. ASSUME NEW r \in ResetTokens, ResetPassword(r)
       PROVE  Typed'
  <2>1. resets[r] \in ResetRow
    BY <1>13 DEF Typed, TypeOK, ResetPassword, ValidReset
  <2>2. [resets[r] EXCEPT !.tried = TRUE] \in ResetRow
    BY <2>1 DEF ResetRow
  <2> QED
    BY <1>13, <1>b, <2>2 DEF Typed, TypeOK, ResetPassword
<1>14. ASSUME NEW r \in ResetTokens, NEW u \in Users, ResetRequest(u, r)
       PROVE  Typed'
  <2>1. [user |-> u, expires |-> now + ResetTTL, used |-> FALSE, tried |-> FALSE]
            \in ResetRow
    BY AuthAssumption DEF Typed, TypeOK, ResetRow
  <2> QED
    BY <1>14, <1>b, <2>1 DEF Typed, TypeOK, ResetRequest
<1>15. CASE UNCHANGED vars
  BY <1>15, <1>b DEF Typed, TypeOK, vars
<1> QED
  BY <1>1, <1>2, <1>3, <1>4, <1>5, <1>6, <1>7, <1>8, <1>9, <1>10, <1>11, <1>12,
     <1>13, <1>14, <1>15 DEF Next, Handle

\* The state is well typed, and every request that presents a token presents
\* one that was issued.
THEOREM AlwaysTyped == Spec => []Typed
<1>1. Init => Typed
  BY AuthAssumption, StepByKind
     DEF Init, Typed, TypeOK, CallsHaveClaims, Requesting
<1> QED
  BY <1>1, NextTyped, PTL DEF Spec

\* The part of it that the runs check.
THEOREM TokensTypeCorrect == Spec => []TypeOK
<1>1. Typed => TypeOK
  BY DEF Typed
<1> QED
  BY <1>1, AlwaysTyped, PTL

-----------------------------------------------------------------------------
(* Revocation *)

\* No token outlives one issued now, no blacklist entry expires before its token,
\* and a token that was logged out is on the blacklist or past its life.
Revocation ==
    /\ \A t \in Tokens : tokens[t] \in Claims => tokens[t].exp <= now + TokenTTL
    /\ \A b \in blacklist : tokens[b.jti] \in Claims /\ tokens[b.jti].exp <= b.expires
    /\ \A t \in loggedOut :
          tokens[t] \in Claims /\ (Blacklisted(t) \/ tokens[t].exp < now)
    /\ \A q \in Requests : req[q] \in Call /\ req[q].late => req[q].token \in loggedOut

\* The purge only takes entries whose token has expired.
LEMMA PurgedIsExpired ==
    ASSUME Typed, Revocation, Cleanup, NEW t \in loggedOut
    PROVE  Blacklisted(t)' \/ tokens[t].exp < now
<1>1. CASE tokens[t].exp < now
  BY <1>1
<1>2. ASSUME NEW b \in blacklist, b.jti = t
      PROVE  b \in blacklist' \/ tokens[t].exp < now
  BY <1>2 DEF Typed, TypeOK, Revocation, Cleanup, Claims
<1> QED
  BY <1>1, <1>2 DEF Revocation, Blacklisted

\* A request is marked late only if its token was logged out before it began.
LEMMA NextLate ==
    ASSUME Typed, Typed', Revocation, [Next]_vars,
           NEW q \in Requests, req'[q] \in Call, req'[q].late
    PROVE  req'[q].token \in loggedOut'
<1> USE StepByKind DEF Typed, TypeOK, Requesting
<1>0. loggedOut \subseteq loggedOut'
  BY DEF Next, vars, Tick, Cleanup, Handle, LoginRead, CreateCheck, Issue, Decode,
         Reject, Accept, Act, Logout, ChangeVerify, ChangeUpdate,
         CreateInsert, ResetPassword, ResetRequest
<1>1. CASE req'[q] = req[q]
  BY <1>0, <1>1 DEF Revocation
<1>2. ASSUME NEW t \in Tokens, NEW op \in Operations, Decode(q, t, op)
      PROVE  req'[q].token \in loggedOut'
  BY <1>2 DEF Decode, Become
<1>3. ASSUME req[q] \in Call, NEW s \in CallSteps, Goto(q, s)
      PROVE  req'[q].token \in loggedOut'
  <2>1. req'[q].token = req[q].token /\ req'[q].late = req[q].late
    BY <1>3 DEF Goto, Become, Call
  <2> QED
    BY <1>0, <1>3, <2>1 DEF Revocation
<1>4. CASE Accept(q) \/ ChangeVerify(q)
  <2>1. req[q] \in Call
    BY <1>4, KindByStep DEF Accept, ChangeVerify, CallSteps
  <2>2. First[req[q].op] \in CallSteps /\ "update" \in CallSteps
    BY <2>1 DEF Call, Operations, First, CallSteps
  <2>3. CASE Finish(q)
    BY <2>3 DEF Finish, Become
  <2> QED
    BY <1>3, <1>4, <2>1, <2>2, <2>3 DEF Accept, ChangeVerify
<1>5. CASE Reject(q) \/ Act(q) \/ Logout(q) \/ CreateInsert(q)
           \/ \E t \in Tokens : Issue(q, t)
  BY <1>5 DEF Reject, Act, Logout, CreateInsert, Issue, Finish, Become
<1>6. ASSUME NEW u \in Users, LoginRead(q, u) \/ CreateCheck(q, u)
      PROVE  FALSE
  BY <1>6 DEF LoginRead, CreateCheck, Become, Call
<1>7. CASE ChangeUpdate(q)
  BY <1>7 DEF ChangeUpdate, Become, Call
<1>8. ASSUME NEW p \in Requests, p # q, Handle(p)
      PROVE  req'[q] = req[q]
  BY <1>8 DEF Handle, LoginRead, CreateCheck, Issue, Decode, Reject, Accept, Act,
              Logout, ChangeVerify, ChangeUpdate, CreateInsert, Become, Finish, Goto
<1>9. CASE Tick \/ Cleanup \/ UNCHANGED vars
  BY <1>1, <1>9 DEF Tick, Cleanup, vars
<1>10. ASSUME NEW r \in ResetTokens,
              ResetPassword(r) \/ \E u \in Users : ResetRequest(u, r)
       PROVE  req'[q] = req[q]
  BY <1>10 DEF ResetPassword, ResetRequest
<1> QED
  BY <1>1, <1>2, <1>4, <1>5, <1>6, <1>7, <1>8, <1>9, <1>10 DEF Next, Handle

\* Every step keeps the blacklist sufficient.
LEMMA NextRevocation ==
    Typed /\ Typed' /\ Revocation /\ [Next]_vars => Revocation'
<1> SUFFICES ASSUME Typed, Typed', Revocation, [Next]_vars PROVE Revocation'
  OBVIOUS
<1> USE AuthAssumption DEF Typed, TypeOK
<1>0. \A q \in Requests : req'[q] \in Call /\ req'[q].late => req'[q].token \in loggedOut'
  BY NextLate
<1>1. CASE Tick
  <2>1. now' = now + 1 /\ \A t \in Tokens : Blacklisted(t)' = Blacklisted(t)
    BY <1>1 DEF Tick, Blacklisted
  <2> QED
    BY <1>0, <1>1, <2>1 DEF Revocation, Tick, Claims
<1>2. CASE Cleanup
  <2>1. \A t \in loggedOut : Blacklisted(t)' \/ tokens[t].exp < now
    BY <1>2, PurgedIsExpired
  <2> QED
    BY <1>0, <1>2, <2>1 DEF Revocation, Cleanup
<1>3. ASSUME NEW q \in Requests, NEW t \in Tokens, Issue(q, t)
      PROVE  Revocation'
  <2>1. \A s \in Tokens : tokens[s] \in Claims => tokens'[s] = tokens[s] /\ s # t
    BY <1>3, AbsentIsDistinct DEF Issue
  <2>2. now' = now /\ tokens'[t].exp <= now + TokenTTL
    BY <1>3, SecondIsEarlier DEF Issue
  <2>3. \A s \in Tokens : s # t => tokens'[s] = tokens[s]
    BY <1>3 DEF Issue
  <2>4. blacklist' = blacklist /\ loggedOut' = loggedOut
    BY <1>3 DEF Issue
  <2>5. \A s \in Tokens : Blacklisted(s)' = Blacklisted(s)
    BY <2>4 DEF Blacklisted
  <2>6. \A s \in Tokens : tokens'[s] \in Claims => tokens'[s].exp <= now' + TokenTTL
    BY <2>2, <2>3 DEF Revocation
  <2>7. \A b \in blacklist' : tokens'[b.jti] \in Claims /\ tokens'[b.jti].exp <= b.expires
    BY <2>1, <2>4 DEF Revocation
  <2>8. \A s \in loggedOut' :
            tokens'[s] \in Claims /\ (Blacklisted(s)' \/ tokens'[s].exp < now')
    BY <2>1, <2>2, <2>4, <2>5 DEF Revocation
  <2> QED
    BY <1>0, <2>6, <2>7, <2>8 DEF Revocation
<1>4. ASSUME NEW q \in Requests, Logout(q)
      PROVE  Revocation'
  <2>0. req[q] \in Call
    BY <1>4, KindByStep DEF Logout, CallSteps, Requesting
  <2>1. PICK t \in Tokens : t = req[q].token /\ tokens[t] \in Claims
    BY <2>0 DEF CallsHaveClaims, Call
  <2>2. tokens[t].exp <= now + BlacklistTTL
    BY <2>1 DEF Revocation, Claims
  <2>3. Blacklisted(t)' /\ \A s \in Tokens : Blacklisted(s) => Blacklisted(s)'
    <3>1. CASE Blacklisted(t)
      <4>1. blacklist' = blacklist
        BY <1>4, <2>1, <3>1 DEF Logout
      <4> QED
        BY <3>1, <4>1 DEF Blacklisted
    <3>2. CASE ~Blacklisted(t)
      <4> DEFINE entry == [jti |-> t, expires |-> now + BlacklistTTL]
      <4>1. blacklist' = blacklist \union {entry} /\ entry.jti = t
        BY <1>4, <2>1, <3>2 DEF Logout
      <4> HIDE DEF entry
      <4> QED
        BY <4>1 DEF Blacklisted
    <3> QED
      BY <3>1, <3>2
  <2>4. now' = now /\ tokens' = tokens /\ loggedOut' = loggedOut \union {t}
    BY <1>4, <2>1 DEF Logout
  <2>5. \A b \in blacklist' : tokens[b.jti] \in Claims /\ tokens[b.jti].exp <= b.expires
    BY <1>4, <2>1, <2>2 DEF Logout, Revocation
  <2>6. \A s \in Tokens : tokens'[s] \in Claims => tokens'[s].exp <= now' + TokenTTL
    BY <2>4 DEF Revocation
  <2>7. \A s \in loggedOut' :
            tokens'[s] \in Claims /\ (Blacklisted(s)' \/ tokens'[s].exp < now')
    BY <2>1, <2>3, <2>4 DEF Revocation
  <2> QED
    BY <1>0, <2>4, <2>5, <2>6, <2>7 DEF Revocation
<1>5. CASE UNCHANGED <<now, tokens, blacklist, loggedOut>>
  <2>1. \A t \in Tokens : Blacklisted(t)' = Blacklisted(t)
    BY <1>5 DEF Blacklisted
  <2> QED
    BY <1>0, <1>5, <2>1 DEF Revocation
<1> QED
  BY <1>1, <1>2, <1>3, <1>4, <1>5
     DEF Next, vars, Handle, LoginRead, CreateCheck, Decode, Reject, Accept, Act,
         ChangeVerify, ChangeUpdate, CreateInsert, ResetPassword, ResetRequest

\* The blacklist always suffices to tell a token that was logged out.
THEOREM RevocationHolds == Spec => []Revocation
<1>1. Init => Revocation
  BY AbsentIsDistinct, StepByKind
     DEF Init, Revocation, Requesting
<1>2. Typed /\ Typed' /\ Revocation /\ [Next]_vars => Revocation'
  BY NextRevocation
<1> QED
  BY <1>1, <1>2, AlwaysTyped, PTL DEF Spec

\* A request whose token was logged out before it began gets past the middleware
\* only when the life of the token is over.
THEOREM RevokedStaysOut == Spec => RevokedRefused
<1>1. Typed /\ Revocation /\ [Next]_vars
      => [\A q \in Requests : Accept(q) /\ req[q].late => Claim(q).exp < now]_vars
  <2> SUFFICES ASSUME Typed, Revocation, NEW q \in Requests, Accept(q), req[q].late
               PROVE  Claim(q).exp < now
    OBVIOUS
  <2>1. req[q] \in Call
    BY KindByStep DEF Typed, TypeOK, Accept, CallSteps, Requesting
  <2> QED
    BY <2>1 DEF Revocation, Accept, Claim
<1> QED
  BY <1>1, AlwaysTyped, RevocationHolds, PTL DEF Spec, RevokedRefused

-----------------------------------------------------------------------------
(* Access *)

\* What was read as "not the first time" stays true: in tokens, in requests
\* about to issue one, and in requests past require_not_first_time.
Access ==
    /\ \A t \in Tokens : tokens[t] \in Claims /\ ~tokens[t].first
          => account[tokens[t].user] = "active"
    /\ \A q \in Requests : req[q] \in Grant /\ ~req[q].first
          => account[req[q].user] = "active"
    /\ \A q \in Requests : req[q].step \in {"act", "check"} => ~Claim(q).first

\* An account that is active is so for good.
LEMMA ActiveStays ==
    ASSUME Typed, [Next]_vars, NEW u \in Users, account[u] = "active"
    PROVE  account'[u] = "active"
<1> USE DEF Typed, TypeOK
<1>1. ASSUME NEW q \in Requests, ChangeUpdate(q) \/ CreateInsert(q)
      PROVE  account'[u] = "active"
  BY <1>1 DEF ChangeUpdate, CreateInsert
<1> QED
  BY <1>1 DEF Next, vars, Tick, Cleanup, Handle, LoginRead, CreateCheck, Issue, Decode,
              Reject, Accept, Act, Logout, ChangeVerify, ResetPassword, ResetRequest

\* What a request knows is fixed by its token, or by the row it just read.
LEMMA NextAccess ==
    Typed /\ Typed' /\ Access /\ [Next]_vars => Access'
<1> SUFFICES ASSUME Typed, Typed', Access, [Next]_vars PROVE Access'
  OBVIOUS
<1> USE DEF Typed, TypeOK, Requesting
<1>1. \A t \in Tokens : tokens'[t] \in Claims /\ ~tokens'[t].first
          => account'[tokens'[t].user] = "active"
  <2> SUFFICES ASSUME NEW t \in Tokens, tokens'[t] \in Claims, ~tokens'[t].first
               PROVE  account'[tokens'[t].user] = "active"
    OBVIOUS
  <2>1. CASE tokens'[t] = tokens[t]
    BY <2>1, ActiveStays DEF Access, Claims
  <2>2. ASSUME NEW q \in Requests, Issue(q, t)
        PROVE  account'[tokens'[t].user] = "active"
    <3>1. req[q] \in Grant /\ tokens'[t].user = req[q].user
            /\ tokens'[t].first = req[q].first
      BY <2>2, KindByStep DEF Issue
    <3> QED
      BY <3>1, ActiveStays DEF Access, Grant
  <2>3. ASSUME NEW q \in Requests, NEW s \in Tokens, s # t, Issue(q, s)
        PROVE  tokens'[t] = tokens[t]
    BY <2>3 DEF Issue
  <2> QED
    BY <2>1, <2>2, <2>3
       DEF Next, vars, Tick, Cleanup, Handle, LoginRead, CreateCheck, Decode,
           Reject, Accept, Act, Logout, ChangeVerify, ChangeUpdate,
           CreateInsert, ResetPassword, ResetRequest
<1>2. ASSUME NEW q \in Requests,
             \/ req'[q] = req[q]
             \/ req'[q] = Idle
             \/ \E u \in Users : LoginRead(q, u) \/ CreateCheck(q, u)
             \/ \E t \in Tokens, op \in Operations : Decode(q, t, op)
             \/ Accept(q) \/ ChangeUpdate(q)
             \/ req[q] \in Call /\ Goto(q, "update")
      PROVE  /\ req'[q] \in Grant /\ ~req'[q].first
                   => account'[req'[q].user] = "active"
             /\ req'[q].step \in {"act", "check"} => ~Claim(q)'.first
  <2>1. CASE req'[q] = req[q]
    <3>1. ASSUME req[q] \in Grant, ~req[q].first
          PROVE  account'[req[q].user] = "active"
      BY <3>1, ActiveStays DEF Access, Grant
    <3>2. ASSUME req[q].step \in {"act", "check"}
          PROVE  Claim(q)' = Claim(q)
      BY <2>1, <3>2, KindByStep, TokensStay DEF Claim, CallsHaveClaims, Call, CallSteps
    <3> QED
      BY <2>1, <3>1, <3>2 DEF Access
  <2>2. CASE req'[q] = Idle
    BY <2>2, StepByKind
  <2>3. ASSUME NEW u \in Users, LoginRead(q, u)
        PROVE  /\ req'[q].step = "issue" /\ req'[q].user = u
               /\ ~req'[q].first => account'[u] = "active"
    BY <2>3 DEF LoginRead, Become
  <2>4. ASSUME NEW u \in Users, CreateCheck(q, u)
        PROVE  req'[q].step \in {"insert", "idle"}
    BY <2>4, StepByKind DEF CreateCheck, Become
  <2>5. ASSUME NEW t \in Tokens, NEW op \in Operations, Decode(q, t, op)
        PROVE  req'[q].step = "blacklist"
    BY <2>5 DEF Decode, Become
  <2>6. CASE Accept(q)
    <3>1. req[q] \in Call
      BY <2>6, KindByStep DEF Accept, CallSteps
    <3>2. /\ req'[q].step = First[req[q].op] /\ req'[q].token = req[q].token
          /\ tokens' = tokens
      BY <2>6, <3>1 DEF Accept, Goto, Become, Call
    <3>3. CASE req[q].op \in {"use", "create"}
      BY <2>6, <3>2, <3>3 DEF Accept, Permitted, Claim, First, Grant
    <3>4. CASE req[q].op \in {"logout", "change"}
      BY <3>2, <3>4 DEF First, Grant
    <3> QED
      BY <3>1, <3>3, <3>4 DEF Call, Operations
  <2>7. CASE ChangeUpdate(q)
    <3>1. req[q] \in Call
      BY <2>7, KindByStep DEF ChangeUpdate, CallSteps
    <3>2. Claim(q).user \in Users
      BY <3>1 DEF CallsHaveClaims, Claim, Claims
    <3> QED
      BY <2>7, <3>2 DEF ChangeUpdate, Become
  <2>8. CASE req[q] \in Call /\ Goto(q, "update")
    BY <2>8 DEF Goto, Become, Call, Grant
  <2> QED
    BY <1>2, <2>1, <2>2, <2>3, <2>4, <2>5, <2>6, <2>7, <2>8 DEF Grant
<1>3. ASSUME NEW q \in Requests
      PROVE  /\ req'[q] \in Grant /\ ~req'[q].first
                   => account'[req'[q].user] = "active"
             /\ req'[q].step \in {"act", "check"} => ~Claim(q)'.first
  <2>1. CASE Reject(q) \/ Act(q) \/ Logout(q) \/ CreateInsert(q)
             \/ \E t \in Tokens : Issue(q, t)
    <3>1. req'[q] = Idle
      BY <2>1 DEF Reject, Act, Logout, CreateInsert, Issue, Finish, Become
    <3> QED
      BY <1>2, <3>1
  <2>2. CASE ChangeVerify(q)
    <3>1. req[q] \in Call
      BY <2>2, KindByStep DEF ChangeVerify, CallSteps
    <3>2. CASE Finish(q)
      BY <1>2, <3>2 DEF Finish, Become
    <3> QED
      BY <1>2, <2>2, <3>1, <3>2 DEF ChangeVerify
  <2>3. ASSUME NEW p \in Requests, p # q, Handle(p)
        PROVE  req'[q] = req[q]
    BY <2>3 DEF Handle, LoginRead, CreateCheck, Issue, Decode, Reject, Accept, Act,
                Logout, ChangeVerify, ChangeUpdate, CreateInsert, Become, Finish, Goto
  <2>4. CASE UNCHANGED req
    BY <1>2, <2>4
  <2> QED
    BY <1>2, <2>1, <2>2, <2>3, <2>4
       DEF Next, vars, Handle, Tick, Cleanup, ResetPassword, ResetRequest
<1> QED
  BY <1>1, <1>3 DEF Access

\* A request that acts with full access, or is about to look up a name to create,
\* is one of a user who has replaced the temporary password.
THEOREM FullAccessAlwaysEarned == Spec => []FullAccessIsEarned
<1>1. Init => Access
  BY AbsentIsDistinct, StepByKind
     DEF Init, Access, Requesting, Idle
<1>2. Typed /\ Typed' /\ Access /\ [Next]_vars => Access'
  BY NextAccess
<1>3. Typed /\ Access => FullAccessIsEarned
  <2> SUFFICES ASSUME Typed, Access, NEW q \in Requests, req[q].step \in {"act", "check"}
               PROVE  account[Claim(q).user] = "active"
    BY DEF FullAccessIsEarned
  <2>1. req[q] \in Call
    BY KindByStep DEF Typed, TypeOK, Requesting, CallSteps
  <2> QED
    BY <2>1 DEF Typed, CallsHaveClaims, Access, Claim, Call
<1> QED
  BY <1>1, <1>2, <1>3, AlwaysTyped, PTL DEF Spec

-----------------------------------------------------------------------------
(***************************************************************************)
(* Cloud orchestration                                                     *)
(*                                                                         *)
(* How far the platform can create instances beyond its limit, for every   *)
(* number of requests, instances and stops.                                *)
(*                                                                         *)
(* OverrunBounded alone is not inductive: when a request counts, what      *)
(* keeps the uncounted instances within the bound is that each of them was *)
(* stopped by someone (StopsCounted). Then counting leaves room for every  *)
(* request at once, and creating an instance takes the place of the        *)
(* request that was about to.                                              *)
(***************************************************************************)

Stopping == InState({"stopping"})

\* Instances that are stopping were stopped, each by a stop of its own.
StopsCounted == Cardinality(Stopping) <= stops

QueryInv == QueryTypeOK /\ StopsCounted /\ OverrunBounded

\* Every query step keeps the types, and a request carries an intent exactly
\* from the parser to its answer.
LEMMA NextType == QueryAssumption /\ QueryTypeOK /\ [QueryNext]_queryVars => QueryTypeOK'
<1> SUFFICES ASSUME QueryAssumption, QueryTypeOK, [QueryNext]_queryVars PROVE QueryTypeOK'
  OBVIOUS
<1> USE DEF QueryTypeOK, Steps, Answers, Move, Answer, Ec2States
<1>0. NoIntent \notin Intent
  BY DEF QueryAssumption, NoIntent, Intent, Conditions, PowerActions, ReadActions
<1>1. ASSUME NEW q \in Queries, Submit(q) PROVE QueryTypeOK'
  BY <1>1 DEF Submit
<1>2. ASSUME NEW q \in Queries, Parse(q) PROVE QueryTypeOK'
  BY <1>0, <1>2 DEF Parse
<1>3. ASSUME NEW q \in Queries, ParseError(q) \/ Chat(q) PROVE QueryTypeOK'
  BY <1>0, <1>3 DEF ParseError, Chat
<1>4. ASSUME NEW q \in Queries, Route(q) PROVE QueryTypeOK'
  <2>1. Handler(intent[q].action) \in {"power", "read", "count"}
    BY DEF Handler
  <2> QED
    BY <1>0, <1>4, <2>1 DEF Route
<1>5. ASSUME NEW q \in Queries, Power(q) PROVE QueryTypeOK'
  BY <1>0, <1>5 DEF Power, AwsPower, AzurePower, GcpPower
<1>6. ASSUME NEW q \in Queries, Read(q) PROVE QueryTypeOK'
  BY <1>0, <1>6 DEF Read
<1>7. ASSUME NEW q \in Queries, Count(q) \/ Run(q) PROVE QueryTypeOK'
  BY <1>0, <1>7 DEF Count, Run, InState
<1>8. ASSUME NEW i \in Instances, Stop(i) \/ Evolve(i) PROVE QueryTypeOK'
  BY <1>8 DEF Stop, Evolve, Change
<1>9. CASE UNCHANGED queryVars
  BY <1>9 DEF queryVars
<1> QED
  BY <1>1, <1>2, <1>3, <1>4, <1>5, <1>6, <1>7, <1>8, <1>9 DEF QueryNext, Serve

\* The sets the bound adds up are finite, and a query can be about to create
\* only while it is in progress.
LEMMA FiniteParts ==
    ASSUME QueryAssumption, NEW S
    PROVE  /\ IsFiniteSet(InState(S)) /\ Cardinality(InState(S)) \in Nat
           /\ IsFiniteSet(Existing) /\ Cardinality(Existing) \in Nat
           /\ IsFiniteSet(Creating) /\ Cardinality(Creating) \in Nat
           /\ Cardinality(Creating) <= Cardinality(Queries)
           /\ Cardinality(Queries) \in Nat
<1>1. InState(S) \subseteq Instances /\ Existing \subseteq Instances
  BY DEF InState, Existing
<1>2. Creating \subseteq Queries
  BY DEF Creating
<1> QED
  BY <1>1, <1>2, FS_Subset, FS_CardinalityType DEF QueryAssumption

\* What others do to the instances, and what a query does to none of them,
\* brings no new instance and no new stop.
LEMMA NothingCreated ==
    ASSUME QueryAssumption, QueryInv, QueryTypeOK',
           Existing' \subseteq Existing, Creating' \subseteq Creating,
           Stopping' \subseteq Stopping, stops' = stops
    PROVE  StopsCounted' /\ OverrunBounded'
<1>1. /\ IsFiniteSet(Existing) /\ IsFiniteSet(Creating) /\ IsFiniteSet(Stopping)
      /\ Cardinality(Queries) \in Nat
  BY FiniteParts DEF Stopping
<1>2. /\ Cardinality(Existing') <= Cardinality(Existing)
      /\ Cardinality(Creating') <= Cardinality(Creating)
      /\ Cardinality(Stopping') <= Cardinality(Stopping)
  BY <1>1, FS_Subset
<1>3. /\ Cardinality(Existing) \in Nat /\ Cardinality(Creating) \in Nat
      /\ Cardinality(Existing') \in Nat /\ Cardinality(Creating') \in Nat
      /\ Cardinality(Stopping) \in Nat /\ Cardinality(Stopping') \in Nat
  BY <1>1, FS_Subset, FS_CardinalityType
<1> QED
  BY <1>1, <1>2, <1>3 DEF QueryInv, StopsCounted, OverrunBounded, QueryTypeOK, QueryAssumption

\* Counting: below the limit, all requests together still fit in the bound.
LEMMA CountKeeps ==
    ASSUME QueryAssumption, QueryInv, QueryTypeOK', NEW q \in Queries, Count(q)
    PROVE  StopsCounted' /\ OverrunBounded'
<1> DEFINE Counted == InState({"running", "stopped", "pending"})
<1>1. ec2' = ec2 /\ stops' = stops
  BY DEF Count
<1>2. Existing' = Existing /\ Stopping' = Stopping
  BY <1>1 DEF Existing, Stopping, InState
<1>3. CASE Cardinality(Counted) >= MaxInstances
  <2>1. Creating' \subseteq Creating
    BY <1>3 DEF Count, Answer, Creating, QueryInv, QueryTypeOK
  <2> QED
    BY <1>1, <1>2, <2>1, NothingCreated
<1>4. CASE ~(Cardinality(Counted) >= MaxInstances)
  <2>1. Existing = Counted \union Stopping
    BY DEF Existing, Stopping, InState, QueryInv, QueryTypeOK, Ec2States
  <2>2. /\ IsFiniteSet(Counted) /\ Cardinality(Counted) \in Nat
        /\ IsFiniteSet(Stopping) /\ Cardinality(Stopping) \in Nat
        /\ Cardinality(Existing) \in Nat
        /\ Cardinality(Queries) \in Nat
    BY FiniteParts DEF Stopping
  <2>3. Cardinality(Existing) <= Cardinality(Counted) + Cardinality(Stopping)
    <3>1. /\ IsFiniteSet(Counted \intersect Stopping)
          /\ Cardinality(Counted \intersect Stopping) \in Nat
      BY <2>2, FS_Intersection, FS_CardinalityType
    <3>2. Cardinality(Counted \union Stopping)
            = Cardinality(Counted) + Cardinality(Stopping)
                - Cardinality(Counted \intersect Stopping)
      <4> HIDE DEF Counted
      <4> QED
        BY <2>2, FS_Union
    <3> QED
      BY <2>1, <2>2, <3>1, <3>2
  <2>4. /\ Cardinality(Creating') \in Nat
        /\ Cardinality(Creating') <= Cardinality(Queries)
    <3>1. Creating' \subseteq Queries
      BY DEF Creating
    <3> QED
      BY <3>1, FS_Subset, FS_CardinalityType DEF QueryAssumption
  <2> QED
    BY <1>1, <1>2, <1>4, <2>2, <2>3, <2>4
    DEF QueryInv, StopsCounted, OverrunBounded, QueryTypeOK, QueryAssumption
<1> QED
  BY <1>3, <1>4

\* Creating: the instance takes the place of the request that creates it.
LEMMA RunKeeps ==
    ASSUME QueryAssumption, QueryInv, QueryTypeOK', NEW q \in Queries, Run(q)
    PROVE  StopsCounted' /\ OverrunBounded'
<1>1. step[q] = "run" /\ step' = [step EXCEPT ![q] = "idle"] /\ stops' = stops
  BY DEF Run, Answer
<1>2. Creating' = Creating \ {q} /\ q \in Creating
  BY <1>1 DEF Creating, QueryInv, QueryTypeOK
<1>3. CASE ec2' = ec2
  BY <1>1, <1>2, <1>3, NothingCreated DEF Existing, Stopping, InState
<1>4. CASE ec2' # ec2
  <2>1. PICK i \in Instances : ec2[i] = "none" /\ ec2' = [ec2 EXCEPT ![i] = "pending"]
    BY <1>4 DEF Run, InState
  <2>2. Existing' = Existing \union {i} /\ i \notin Existing
    BY <2>1 DEF Existing, QueryInv, QueryTypeOK
  <2>3. Stopping' = Stopping
    BY <2>1 DEF Stopping, InState, QueryInv, QueryTypeOK
  <2>4. /\ IsFiniteSet(Existing) /\ Cardinality(Existing) \in Nat
        /\ IsFiniteSet(Creating) /\ Cardinality(Creating) \in Nat
        /\ Cardinality(Queries) \in Nat
    BY FiniteParts
  <2>5. /\ Cardinality(Existing') = Cardinality(Existing) + 1
        /\ Cardinality(Creating') = Cardinality(Creating) - 1
    BY <1>2, <2>2, <2>4, FS_AddElement, FS_RemoveElement
  <2> QED
    BY <1>1, <2>3, <2>4, <2>5
    DEF QueryInv, StopsCounted, OverrunBounded, QueryTypeOK, QueryAssumption
<1> QED
  BY <1>3, <1>4

\* A stop adds to the uncounted instances what it adds to the stops.
LEMMA StopKeeps ==
    ASSUME QueryAssumption, QueryInv, QueryTypeOK', NEW i \in Instances, Stop(i)
    PROVE  StopsCounted' /\ OverrunBounded'
<1>1. ec2[i] = "running" /\ ec2' = [ec2 EXCEPT ![i] = "stopping"] /\ stops' = stops + 1
  BY DEF Stop, Change
<1>2. Existing' = Existing
  BY <1>1 DEF Existing, QueryInv, QueryTypeOK
<1>3. Creating' = Creating
  BY DEF Stop, Change, Creating
<1>4. Stopping' = Stopping \union {i} /\ i \notin Stopping
  BY <1>1 DEF Stopping, InState, QueryInv, QueryTypeOK
<1>5. /\ IsFiniteSet(Stopping) /\ Cardinality(Stopping) \in Nat
      /\ Cardinality(Existing) \in Nat /\ Cardinality(Creating) \in Nat
      /\ Cardinality(Queries) \in Nat
  BY FiniteParts DEF Stopping
<1>6. Cardinality(Stopping') = Cardinality(Stopping) + 1
  BY <1>4, <1>5, FS_AddElement
<1> QED
  BY <1>1, <1>2, <1>3, <1>5, <1>6
  DEF QueryInv, StopsCounted, OverrunBounded, QueryTypeOK, QueryAssumption

\* At the start there are no instances and nobody has counted.
LEMMA InitQueryInv == QueryAssumption /\ QueryInit => QueryInv
<1> SUFFICES ASSUME QueryAssumption, QueryInit PROVE QueryInv
  OBVIOUS
<1>1. QueryTypeOK
  BY DEF QueryAssumption, QueryInit, QueryTypeOK, Ec2States, Steps, Answers, NoIntent, Intent,
         PowerActions, ReadActions
<1>2. Existing = {} /\ Creating = {} /\ Stopping = {}
  BY DEF QueryInit, Existing, Creating, Stopping, InState
<1>3. Cardinality(Queries) \in Nat
  BY FS_CardinalityType DEF QueryAssumption
<1> QED
  BY <1>1, <1>2, <1>3, FS_EmptySet
  DEF QueryInv, StopsCounted, OverrunBounded, QueryInit, QueryAssumption

\* Every step keeps the bound and what it rests on.
LEMMA NextQueryInv == QueryAssumption /\ QueryInv /\ [QueryNext]_queryVars => QueryInv'
<1> SUFFICES ASSUME QueryAssumption, QueryInv, [QueryNext]_queryVars PROVE QueryInv'
  OBVIOUS
<1>0. QueryTypeOK'
  BY NextType DEF QueryInv
<1>1. ASSUME NEW q \in Queries, Count(q) PROVE QueryInv'
  BY <1>0, <1>1, CountKeeps DEF QueryInv
<1>2. ASSUME NEW q \in Queries, Run(q) PROVE QueryInv'
  BY <1>0, <1>2, RunKeeps DEF QueryInv
<1>3. ASSUME NEW i \in Instances, Stop(i) PROVE QueryInv'
  BY <1>0, <1>3, StopKeeps DEF QueryInv
<1>4. ASSUME NEW q \in Queries,
             \/ Submit(q) \/ Parse(q) \/ ParseError(q) \/ Chat(q) \/ Route(q)
             \/ Power(q) \/ Read(q)
      PROVE  QueryInv'
  <2>1. ec2' = ec2 /\ stops' = stops
    BY <1>4 DEF Submit, Parse, ParseError, Chat, Route, Power, Read
  <2>2. PICK s : s # "run" /\ step' = [step EXCEPT ![q] = s]
    BY <1>4 DEF Submit, Parse, ParseError, Chat, Route, Handler, Power, Read, Move, Answer
  <2>3. Creating' \subseteq Creating
    BY <2>2 DEF Creating, QueryInv, QueryTypeOK
  <2>4. Existing' = Existing /\ Stopping' = Stopping
    BY <2>1 DEF Existing, Stopping, InState
  <2> QED
    BY <1>0, <2>1, <2>3, <2>4, NothingCreated DEF QueryInv
<1>5. ASSUME NEW i \in Instances, Evolve(i) PROVE QueryInv'
  <2>1. stops' = stops /\ step' = step
    BY <1>5 DEF Evolve, Change
  <2>2. Creating' = Creating
    BY <2>1 DEF Creating
  <2>3. Existing' \subseteq Existing /\ Stopping' \subseteq Stopping
    BY <1>5 DEF Evolve, Change, Existing, Stopping, InState, QueryInv, QueryTypeOK
  <2> QED
    BY <1>0, <2>1, <2>2, <2>3, NothingCreated DEF QueryInv
<1>6. CASE UNCHANGED queryVars
  BY <1>6 DEF queryVars, QueryInv, QueryTypeOK, StopsCounted, OverrunBounded, Existing, Creating,
              Stopping, InState
<1> QED
  BY <1>1, <1>2, <1>3, <1>4, <1>5, <1>6 DEF QueryNext, Serve

\* The types, the bound and the count of stops hold in every reachable state.
THEOREM QueryInductive == QuerySpec => []QueryInv
<1>1. QueryAssumption
  BY QueryAssumption
<1> QED
  BY <1>1, InitQueryInv, NextQueryInv, PTL DEF QuerySpec

\* The state of the query route is well typed, and a request carries an intent
\* exactly while the orchestrator and the handlers need it.
THEOREM QueryTypeCorrect == QuerySpec => []QueryTypeOK
BY QueryInductive, PTL DEF QueryInv

\* create_instance exceeds its limit by no more than the requests that have
\* counted and the instances that were stopping meanwhile.
THEOREM OverrunStaysBounded == QuerySpec => []OverrunBounded
BY QueryInductive, PTL DEF QueryInv
=============================================================================
