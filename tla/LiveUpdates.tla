----------------------------- MODULE LiveUpdates -----------------------------
(***************************************************************************)
(* The dashboard page of ReportPulse in one browser tab: the hook that     *)
(* keeps a WebSocket to the server (frontend/src/hooks/useWebSocket.ts),   *)
(* the server's connection manager (backend/app/api/websocket.py), and the *)
(* loading of the chosen report (frontend/src/pages/DashboardPage.tsx).    *)
(*                                                                         *)
(* The hook closes and reopens its connection whenever the choice changes, *)
(* because its callback depends on it; but the old socket's close event    *)
(* comes later, clears whatever ping interval is current by then, and sets *)
(* a reconnect timer of its own.  So connections of one page overlap.      *)
(* Nothing is ever pushed over them: the only caller of a broadcast is the *)
(* Celery worker, whose connection manager knows no page.                  *)
(***************************************************************************)
EXTENDS Naturals, FiniteSetsExt

CONSTANTS
    Views,        \* what can be chosen: a report and a period
    MaxMounts,    \* bound on mounts of the page
    MaxSockets,   \* bound on connections and timers that exist at a time
    MaxEffects,   \* bound on runs of the hook's effect
    MaxLoads,     \* bound on loads of one view under way
    MaxDrops      \* bound on connections lost

None == 0

\* Each mount has an instance of the hook, with refs of its own.
Hooks == 1..MaxMounts

Sockets == 1..MaxSockets

ASSUME LiveAssumption ==
    /\ None \notin Views
    /\ MaxMounts \in Nat /\ MaxSockets \in Nat /\ MaxEffects \in Nat
    /\ MaxLoads \in Nat /\ MaxDrops \in Nat

SocketStates == {"free", "connecting", "accepted", "refused", "open", "closing"}

VARIABLES
    token,      \* access_token of localStorage: "none", "valid" or "expired"
    page,       \* the mounted instance, or None on another page
    mounts,     \* instances so far
    selected,   \* selectedReport and days
    shown,      \* the view whose trendData and deviations are shown
    loads,      \* answers to loadReportData under way, for each view
    upload,     \* the view whose data is being appended
    sock,       \* each socket: its readyState, "accepted" once the server has
                \* registered it, "refused" once the server said no
    hook,       \* the instance a socket or timer belongs to
    timers,     \* sockets whose close has a reconnect timer running
    pinging,    \* sockets with a running ping interval
    wsRef, timerRef, pingRef,  \* the refs of each instance
    effects,    \* runs of the hook's effect so far
    drops,      \* connections lost so far
    failed,     \* history: the last load that ended since the choice failed
    mixed       \* history: a load of another view was under way since the choice

view == <<selected, shown, loads, upload, failed, mixed>>
refs == <<wsRef, timerRef, pingRef>>
line == <<sock, hook, timers, pinging, refs>>
liveVars == <<token, page, mounts, view, line, effects, drops>>

LiveInit ==
    /\ token \in {"none", "valid"}
    /\ page = None
    /\ mounts = 0
    /\ selected = None
    /\ shown = None
    /\ loads = [v \in Views |-> 0]
    /\ upload = None
    /\ sock = [s \in Sockets |-> "free"]
    /\ hook = [s \in Sockets |-> None]
    /\ timers = {}
    /\ pinging = {}
    /\ wsRef = [h \in Hooks |-> None]
    /\ timerRef = [h \in Hooks |-> None]
    /\ pingRef = [h \in Hooks |-> None]
    /\ effects = 0
    /\ drops = 0
    /\ failed = FALSE
    /\ mixed = FALSE

-----------------------------------------------------------------------------
(* The hook *)

\* connect() of instance h, which finds the timers ts still running and the
\* sockets in states st.  Without a token it returns; nothing tries again.
Connect(h, ts, st) ==
    LET over == {t \in Sockets : st[t] = "free" /\ t \notin ts} IN
    /\ timers' = ts
    /\ IF token = "none"
       THEN /\ sock' = st
            /\ hook' = [t \in Sockets |-> IF t \in over THEN None ELSE hook[t]]
            /\ UNCHANGED wsRef
       ELSE \E s \in over :
              /\ \A t \in over : s <= t
              /\ sock' = [st EXCEPT ![s] = IF token = "valid" THEN "connecting" ELSE "refused"]
              /\ hook' = [t \in Sockets |-> IF t = s THEN h
                                            ELSE IF t \in over THEN None ELSE hook[t]]
              /\ wsRef' = [wsRef EXCEPT ![h] = s]

\* Sockets that are open or will be: close() takes them to "closing".
Standing == {"connecting", "accepted", "open"}

\* Close the socket s, if it is one; its close event comes later.
Closing(s) ==
    [t \in Sockets |-> IF t = s /\ sock[t] \in Standing
                       THEN "closing" ELSE sock[t]]

\* The cleanup of the effect of instance h: only what the refs still hold.
Cleanup(h) ==
    /\ pinging' = pinging \ {pingRef[h]}
    /\ timerRef' = [timerRef EXCEPT ![h] = None]
    /\ pingRef' = [pingRef EXCEPT ![h] = None]

\* The effect runs again: cleanup, then connect.
Rerun(h) ==
    /\ effects < MaxEffects
    /\ effects' = effects + 1
    /\ Cleanup(h)
    /\ Connect(h, timers \ {timerRef[h]}, Closing(wsRef[h]))

\* Mutant: an instance that has an interval already sets no other.
MutOpened(s) ==
    LET h == hook[s] IN
    /\ sock[s] = "accepted"
    /\ sock' = [sock EXCEPT ![s] = "open"]
    /\ IF \E t \in pinging : hook[t] = h
       THEN UNCHANGED <<pinging, pingRef>>
       ELSE /\ pinging' = pinging \union {s}
            /\ pingRef' = [pingRef EXCEPT ![h] = s]
    /\ UNCHANGED <<token, page, mounts, view, hook, timers, wsRef, timerRef, effects, drops>>

\* onopen: a ping interval of its own, whose handle replaces the last one.
Opened(s) ==
    LET h == hook[s] IN
    /\ sock[s] = "accepted"
    /\ sock' = [sock EXCEPT ![s] = "open"]
    /\ pinging' = pinging \union {s}
    /\ pingRef' = [pingRef EXCEPT ![h] = s]
    /\ UNCHANGED <<token, page, mounts, view, hook, timers, wsRef, timerRef, effects, drops>>

\* Mutant: a closed socket is not opened again.
MutClosed(s) ==
    LET h == hook[s] IN
    /\ sock[s] \in {"closing", "refused"}
    /\ sock' = [sock EXCEPT ![s] = "free"]
    /\ pinging' = pinging \ {s, pingRef[h]}
    /\ pingRef' = [pingRef EXCEPT ![h] = None]
    /\ wsRef' = [wsRef EXCEPT ![h] = IF @ = s THEN None ELSE @]
    /\ UNCHANGED <<token, page, mounts, view, hook, timers, timerRef, effects, drops>>

\* onclose: the current interval is cleared, whosever it is, and a reconnect
\* timer is set, also after the cleanup and after the page was left.
Closed(s) ==
    LET h == hook[s] IN
    /\ sock[s] \in {"closing", "refused"}
    /\ sock' = [sock EXCEPT ![s] = "free"]
    /\ timers' = timers \union {s}
    /\ timerRef' = [timerRef EXCEPT ![h] = s]
    /\ pinging' = pinging \ {s, pingRef[h]}
    /\ pingRef' = [pingRef EXCEPT ![h] = None]
    /\ wsRef' = [wsRef EXCEPT ![h] = IF @ = s THEN None ELSE @]
    /\ UNCHANGED <<token, page, mounts, view, hook, effects, drops>>

\* Five seconds later: connect, with the refs of the instance it was set in.
Reconnect(s) ==
    /\ s \in timers
    /\ Connect(hook[s], timers \ {s}, sock)
    /\ timerRef' = [timerRef EXCEPT ![hook[s]] = IF @ = s THEN None ELSE @]
    /\ UNCHANGED <<token, page, mounts, view, pinging, pingRef,
                   effects, drops>>

-----------------------------------------------------------------------------
(* The server and the network *)

\* websocket_updates: the token is good and the connection is registered, until
\* the endpoint's receive ends with the socket, whichever side closes it.
Accept(s) ==
    /\ sock[s] = "connecting"
    /\ sock' = [sock EXCEPT ![s] = "accepted"]
    /\ UNCHANGED <<token, page, mounts, view, hook, timers, pinging, refs,
                   effects, drops>>

\* Mutant: an error sets a reconnect timer as well as closing the socket.
MutDrop(s) ==
    /\ drops < MaxDrops
    /\ drops' = drops + 1
    /\ sock[s] \in Standing
    /\ sock' = [sock EXCEPT ![s] = "closing"]
    /\ timers' = timers \union {s}
    /\ UNCHANGED <<token, page, mounts, view, hook, pinging, refs,
                   effects>>

\* The connection or the server is lost; onerror closes the socket.
Drop(s) ==
    /\ drops < MaxDrops
    /\ drops' = drops + 1
    /\ sock[s] \in Standing
    /\ sock' = [sock EXCEPT ![s] = "closing"]
    /\ UNCHANGED <<token, page, mounts, view, hook, timers, pinging, refs, effects>>

-----------------------------------------------------------------------------
(* The page *)

Mount ==
    \E h \in Hooks :
        /\ h = mounts + 1
        /\ page = None /\ token # "none"
        /\ page' = h
        /\ mounts' = h
        /\ Rerun(h)
        /\ UNCHANGED <<token, view, drops>>

\* Everything the page has is dropped, also the answers it still waits for.
Forget ==
    /\ selected' = None
    /\ shown' = None
    /\ loads' = [v \in Views |-> 0]
    /\ upload' = None
    /\ failed' = FALSE
    /\ mixed' = FALSE

\* Another page is opened, or the user logs out: the cleanup and no connect.
Leave ==
    /\ page # None
    /\ page' = None
    /\ Forget
    /\ Cleanup(page)
    /\ timers' = timers \ {timerRef[page]}
    /\ sock' = Closing(wsRef[page])
    /\ \E t \in {token, "none"} : token' = t
    /\ UNCHANGED <<mounts, hook, wsRef, effects, drops>>

Login ==
    /\ page = None /\ token = "none"
    /\ token' = "valid"
    /\ UNCHANGED <<page, mounts, view, line, effects, drops>>

\* The token is an hour old; sockets that were accepted stay open.
Expire ==
    /\ token = "valid"
    /\ token' = "expired"
    /\ sock' = [s \in Sockets |-> IF sock[s] = "connecting"
                                  THEN "refused" ELSE sock[s]]
    /\ UNCHANGED <<page, mounts, view, hook, timers, pinging, refs,
                   effects, drops>>

\* A request is answered with 401: the token goes and the browser loads the
\* login page anew, which ends every socket and timer.
Unauthorized ==
    /\ token = "expired"
    /\ token' = "none"
    /\ page' = None
    /\ Forget
    /\ sock' = [s \in Sockets |-> "free"]
    /\ timers' = {}
    /\ pinging' = {}
    /\ wsRef' = [h \in Hooks |-> None]
    /\ timerRef' = [h \in Hooks |-> None]
    /\ pingRef' = [h \in Hooks |-> None]
    /\ hook' = [s \in Sockets |-> None]
    /\ UNCHANGED <<mounts, effects, drops>>

Pending(v) == \E u \in Views \ {v} : loads[u] > 0

\* Mutant: the effect that loads does not depend on the days.
MutSelect(v) ==
    /\ page # None
    /\ selected' = v
    /\ mixed' = Pending(v)
    /\ IF selected = None
       THEN loads' = [loads EXCEPT ![v] = @ + 1]
       ELSE UNCHANGED loads
    /\ loads'[v] <= MaxLoads
    /\ Rerun(page)
    /\ failed' = FALSE
    /\ UNCHANGED <<token, page, mounts, shown, upload, drops>>

\* A report or a period is chosen: both effects run, and the data of the last
\* choice stays on the page until the answer is there.
Select(v) ==
    /\ page # None
    /\ selected' = v
    /\ mixed' = Pending(v)
    /\ loads' = [loads EXCEPT ![v] = @ + 1]
    /\ loads'[v] <= MaxLoads
    /\ Rerun(page)
    /\ failed' = FALSE
    /\ UNCHANGED <<token, page, mounts, shown, upload, drops>>

\* The title was clicked, or the chosen report deleted.
Deselect ==
    /\ page # None /\ selected # None
    /\ selected' = None
    /\ shown' = None
    /\ failed' = FALSE /\ mixed' = FALSE
    /\ Rerun(page)
    /\ UNCHANGED <<token, page, mounts, loads, upload, drops>>

\* loadReportData takes the answer for what is shown, whatever is chosen now;
\* after a failure what was shown stays.
Answer(v) ==
    /\ loads[v] > 0
    /\ loads' = [loads EXCEPT ![v] = @ - 1]
    /\ \/ shown' = v /\ failed' = FALSE
       \/ UNCHANGED shown /\ failed' = TRUE
    /\ UNCHANGED <<token, page, mounts, selected, upload, mixed, line,
                   effects, drops>>

\* handleAddData, for the choice of the moment.
AddData ==
    /\ page # None /\ selected # None /\ upload = None
    /\ upload' = selected
    /\ UNCHANGED <<token, page, mounts, selected, shown, loads, failed, mixed,
                   line, effects, drops>>

\* The file was refused, or its report is loaded again: the one that was
\* chosen when the upload began.
DataAdded ==
    /\ upload # None
    /\ upload' = None
    /\ \/ UNCHANGED <<loads, mixed>>
       \/ /\ loads[upload] < MaxLoads
          /\ loads' = [loads EXCEPT ![upload] = @ + 1]
          /\ mixed' = (selected # None /\ (mixed \/ upload # selected))
    /\ UNCHANGED <<token, page, mounts, selected, shown, failed, line,
                   effects, drops>>

-----------------------------------------------------------------------------

User ==
    \/ Mount \/ Leave \/ Login
    \/ Deselect \/ AddData
    \/ \E v \in Views : Select(v)

\* What goes on by itself once it is under way.
Progress ==
    \/ DataAdded
    \/ \E v \in Views : Answer(v)
    \/ \E s \in Sockets :
           Opened(s) \/ Closed(s) \/ Reconnect(s) \/ Accept(s)

LiveNext == User \/ Progress \/ Expire \/ Unauthorized \/ \E s \in Sockets : Drop(s)

LiveSpec == LiveInit /\ [][LiveNext]_liveVars

\* Events that are due are delivered and timers fire; each socket has its own.
FairLiveSpec ==
    /\ LiveSpec
    /\ \A s \in Sockets :
           /\ WF_liveVars(Opened(s)) /\ WF_liveVars(Closed(s)) /\ WF_liveVars(Reconnect(s))
           /\ WF_liveVars(Accept(s))

-----------------------------------------------------------------------------
(* Properties *)

LiveTypeOK ==
    /\ token \in {"none", "valid", "expired"}
    /\ page \in Hooks \union {None}
    /\ mounts \in Hooks \union {0}
    /\ selected \in Views \union {None}
    /\ shown \in Views \union {None}
    /\ upload \in Views \union {None}
    /\ loads \in [Views -> 0..MaxLoads]
    /\ sock \in [Sockets -> SocketStates]
    /\ hook \in [Sockets -> Hooks \union {None}]
    /\ timers \subseteq Sockets
    /\ pinging \subseteq Sockets
    /\ wsRef \in [Hooks -> Sockets \union {None}]
    /\ timerRef \in [Hooks -> Sockets \union {None}]
    /\ pingRef \in [Hooks -> Sockets \union {None}]
    /\ effects \in 0..MaxEffects
    /\ drops \in 0..MaxDrops
    /\ failed \in BOOLEAN /\ mixed \in BOOLEAN

Connections == {s \in Sockets : sock[s] # "free"}

\* The overlapping connections of the page do not multiply: every one of them,
\* with the timers that will open another, goes back to a run of the effect of
\* its own, however closes, refusals, timers and changes of the choice mix.
LinesBounded == Cardinality(Connections) + Cardinality(timers) <= effects

\* The connection the page holds, once open, is kept alive by pings, or another
\* one is about to take its place: the close event of an older connection may
\* clear its interval, but then its timer runs.
HeldIsKeptAlive ==
    page # None =>
        LET s == wsRef[page] IN
        s # None /\ sock[s] = "open" =>
            s \in pinging \/ \E t \in timers : hook[t] = page

\* What the page shows when nothing is under way is what is chosen, unless the
\* last load failed or loads of two choices were under way together: only the
\* order of answers can put the data of one report under the name of another.
ShownIsSelected ==
    page # None /\ selected # None /\ (\A v \in Views : loads[v] = 0) =>
        shown = selected \/ failed \/ mixed

\* A page that stays open with a good token has an open connection again
\* and again, whatever was refused, dropped or closed by its own effect.
PageReconnects ==
    []<>(\/ page = None \/ token # "valid"
         \/ \E s \in Sockets : hook[s] = page /\ sock[s] = "open")
=============================================================================
