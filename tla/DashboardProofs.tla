-------------------------- MODULE DashboardProofs ---------------------------
(***************************************************************************)
(* Two parts of the dashboard of ReportPulse: the page with its            *)
(* connection, and the analysis of the series it shows. Each is specified  *)
(* alone; here are the theorems about both.                                *)
(***************************************************************************)
EXTENDS LiveUpdates, SeriesAnalysis, FiniteSetTheorems, SequenceTheorems, TLAPS

-----------------------------------------------------------------------------
(***************************************************************************)
(* The page                                                                *)
(*                                                                         *)
(* Connections and reconnect timers never outnumber the runs of the effect *)
(* that started them (LinesBounded is inductive with the types), the       *)
(* connection held is kept alive, and the page shows what is chosen. For   *)
(* the last two the invariant adds who owns what (OwnLines): a ref of an   *)
(* instance holds a socket of that instance, a timer and a socket have one *)
(* at all, so that a close event can only clear the interval of its own    *)
(* instance; and what is under way unless loads were mixed (Pursued).      *)
(***************************************************************************)

\* What a connect may leave behind: a connection of its own where no other is,
\* or nothing without a token.
LEMMA ConnectDoes ==
    ASSUME LiveAssumption, LiveTypeOK, NEW h \in Hooks \union {None}, NEW ts \in SUBSET Sockets,
           NEW st \in [Sockets -> SocketStates], Connect(h, ts, st)
    PROVE  /\ timers' = ts
           /\ sock' \in [Sockets -> SocketStates]
           /\ wsRef' \in [Hooks -> Sockets \union {None}]
           /\ hook' \in [Sockets -> Hooks \union {None}]
           /\ \A t \in Sockets : st[t] # "free" \/ t \in ts => hook'[t] = hook[t]
           /\ \A g \in Hooks : g # h => wsRef'[g] = wsRef[g]
           /\ \/ token = "none" /\ sock' = st /\ wsRef' = wsRef
              \/ /\ token # "none"
                 /\ \E s \in Sockets :
                      /\ st[s] = "free" /\ s \notin ts
                      /\ sock'[s] \in {"connecting", "refused"}
                      /\ \A t \in Sockets : t # s => sock'[t] = st[t]
                      /\ hook'[s] = h
                      /\ h \in Hooks => wsRef'[h] = s
<1> USE DEF Connect, LiveTypeOK
<1>1. CASE token = "none"
  BY <1>1
<1>2. CASE token # "none"
  <2> DEFINE over == {t \in Sockets : st[t] = "free" /\ t \notin ts}
  <2>1. PICK s \in over :
              /\ sock' = [st EXCEPT ![s] = IF token = "valid" THEN "connecting" ELSE "refused"]
              /\ hook' = [t \in Sockets |-> IF t = s THEN h
                                            ELSE IF t \in over THEN None ELSE hook[t]]
              /\ wsRef' = [wsRef EXCEPT ![h] = s]
    BY <1>2
  <2>2. /\ sock'[s] \in {"connecting", "refused"}
        /\ \A t \in Sockets : t # s => sock'[t] = st[t]
        /\ sock' \in [Sockets -> SocketStates]
    BY <2>1 DEF SocketStates
  <2>3. /\ hook'[s] = h
        /\ hook' \in [Sockets -> Hooks \union {None}]
        /\ \A t \in Sockets : st[t] # "free" \/ t \in ts => hook'[t] = hook[t]
    BY <2>1
  <2>4. /\ wsRef' \in [Hooks -> Sockets \union {None}]
        /\ h \in Hooks => wsRef'[h] = s
        /\ \A g \in Hooks : g # h => wsRef'[g] = wsRef[g]
    BY <2>1
  <2>5. timers' = ts
    BY <1>2
  <2> QED
    BY <1>2, <2>1, <2>2, <2>3, <2>4, <2>5
<1> QED
  BY <1>1, <1>2

LEMMA LiveInitType == LiveAssumption /\ LiveInit => LiveTypeOK
<1> SUFFICES ASSUME LiveAssumption, LiveInit PROVE LiveTypeOK
  OBVIOUS
<1>1. /\ loads \in [Views -> 0..MaxLoads] /\ effects \in 0..MaxEffects /\ drops \in 0..MaxDrops
      /\ mounts \in Hooks \union {0}
  BY DEF LiveAssumption, LiveInit
<1> QED
  BY <1>1 DEF LiveInit, LiveTypeOK, SocketStates

\* Closing a socket leaves every free one free.
LEMMA ClosingType ==
    ASSUME LiveTypeOK, NEW s
    PROVE  /\ Closing(s) \in [Sockets -> SocketStates]
           /\ \A t \in Sockets : Closing(s)[t] = "free" <=> sock[t] = "free"
BY DEF Closing, LiveTypeOK, Standing, SocketStates

\* The effect keeps the types of everything a connection has.
LEMMA RerunType ==
    ASSUME LiveAssumption, LiveTypeOK, NEW h \in Hooks, Rerun(h)
    PROVE  /\ sock' \in [Sockets -> SocketStates] /\ timers' \subseteq Sockets
           /\ wsRef' \in [Hooks -> Sockets \union {None}]
           /\ hook' \in [Sockets -> Hooks \union {None}]
           /\ pinging' \subseteq Sockets
           /\ timerRef' \in [Hooks -> Sockets \union {None}]
           /\ pingRef' \in [Hooks -> Sockets \union {None}]
           /\ effects' \in 0..MaxEffects
<1>1. timers \ {timerRef[h]} \in SUBSET Sockets
  BY DEF LiveTypeOK
<1>2. Connect(h, timers \ {timerRef[h]}, Closing(wsRef[h]))
  BY DEF Rerun
<1>3. /\ sock' \in [Sockets -> SocketStates] /\ timers' \subseteq Sockets
      /\ wsRef' \in [Hooks -> Sockets \union {None}]
      /\ hook' \in [Sockets -> Hooks \union {None}]
  <2>1. Closing(wsRef[h]) \in [Sockets -> SocketStates]
    BY ClosingType
  <2>2. PICK g \in Hooks \union {None}, ts \in SUBSET Sockets, st \in [Sockets -> SocketStates] :
           g = h /\ ts = timers \ {timerRef[h]} /\ st = Closing(wsRef[h]) /\ Connect(g, ts, st)
    BY <1>1, <1>2, <2>1
  <2>3. timers' = ts
    BY <2>2, ConnectDoes
  <2> QED
    BY <2>2, <2>3, ConnectDoes
<1>4. /\ pinging' \subseteq Sockets /\ timerRef' \in [Hooks -> Sockets \union {None}]
      /\ pingRef' \in [Hooks -> Sockets \union {None}]
  BY DEF Rerun, Cleanup, LiveTypeOK
<1>5. effects' \in 0..MaxEffects
  BY DEF Rerun, LiveTypeOK, LiveAssumption
<1> QED
  BY <1>3, <1>4, <1>5

LEMMA ReconnectType ==
    ASSUME LiveAssumption, LiveTypeOK, NEW s \in Sockets, Reconnect(s)
    PROVE  /\ sock' \in [Sockets -> SocketStates] /\ timers' \subseteq Sockets
           /\ wsRef' \in [Hooks -> Sockets \union {None}]
           /\ hook' \in [Sockets -> Hooks \union {None}]
<1>1. timers \ {s} \in SUBSET Sockets /\ hook[s] \in Hooks \union {None}
      /\ sock \in [Sockets -> SocketStates]
  BY DEF LiveTypeOK
<1>2. Connect(hook[s], timers \ {s}, sock)
  BY DEF Reconnect
<1>3. PICK h \in Hooks \union {None}, ts \in SUBSET Sockets, st \in [Sockets -> SocketStates] :
         h = hook[s] /\ ts = timers \ {s} /\ st = sock /\ Connect(h, ts, st)
  BY <1>1, <1>2
<1>4. timers' = ts
  BY <1>3, ConnectDoes
<1> QED
  BY <1>3, <1>4, ConnectDoes

LEMMA ForgetType ==
    ASSUME LiveAssumption, Forget
    PROVE  /\ loads' \in [Views -> 0..MaxLoads]
           /\ selected' \in Views \union {None} /\ shown' \in Views \union {None}
           /\ upload' \in Views \union {None} /\ failed' \in BOOLEAN /\ mixed' \in BOOLEAN
<1>1. loads' = [v \in Views |-> 0] /\ 0 \in 0..MaxLoads
  BY DEF Forget, LiveAssumption
<1> QED
  BY <1>1 DEF Forget

LEMMA LiveNextType == LiveAssumption /\ LiveTypeOK /\ [LiveNext]_liveVars => LiveTypeOK'
<1> SUFFICES ASSUME LiveAssumption, LiveTypeOK, [LiveNext]_liveVars PROVE LiveTypeOK'
  OBVIOUS
<1> USE DEF LiveTypeOK, view, refs, line
<1>1. /\ MaxMounts \in Nat /\ MaxSockets \in Nat /\ MaxEffects \in Nat /\ MaxLoads \in Nat
      /\ MaxDrops \in Nat
  BY DEF LiveAssumption
<1>2. ASSUME NEW s \in Sockets, Reconnect(s) PROVE LiveTypeOK'
  BY <1>2, ReconnectType DEF Reconnect
<1>3. ASSUME NEW s \in Sockets, Opened(s) PROVE LiveTypeOK'
  BY <1>3 DEF Opened, SocketStates
<1>4. ASSUME NEW s \in Sockets, Closed(s) PROVE LiveTypeOK'
  BY <1>4 DEF Closed, SocketStates
<1>5. ASSUME NEW s \in Sockets, Accept(s) PROVE LiveTypeOK'
  BY <1>5 DEF Accept, SocketStates
<1>6. ASSUME NEW s \in Sockets, Drop(s) PROVE LiveTypeOK'
  BY <1>1, <1>6 DEF Drop, SocketStates
<1>8. CASE Mount
  BY <1>8, RerunType DEF Mount
<1>9. CASE Leave
  <2>1. /\ loads' \in [Views -> 0..MaxLoads]
        /\ selected' \in Views \union {None} /\ shown' \in Views \union {None}
        /\ upload' \in Views \union {None} /\ failed' \in BOOLEAN /\ mixed' \in BOOLEAN
    BY <1>9, ForgetType DEF Leave
  <2>2. sock' \in [Sockets -> SocketStates]
    BY <1>9, ClosingType DEF Leave
  <2> QED
    BY <1>9, <2>1, <2>2 DEF Leave, Cleanup
<1>10. CASE Login \/ Expire
  BY <1>10 DEF Login, Expire, SocketStates
<1>11. CASE Unauthorized
  <2>1. /\ loads' \in [Views -> 0..MaxLoads]
        /\ selected' \in Views \union {None} /\ shown' \in Views \union {None}
        /\ upload' \in Views \union {None} /\ failed' \in BOOLEAN /\ mixed' \in BOOLEAN
    BY <1>11, ForgetType DEF Unauthorized
  <2> QED
    BY <1>11, <2>1 DEF Unauthorized, SocketStates
<1>12. ASSUME NEW v \in Views, Select(v) PROVE LiveTypeOK'
  <2>1. loads' \in [Views -> 0..MaxLoads] /\ mixed' \in BOOLEAN
    BY <1>1, <1>12 DEF Select, Pending
  <2> QED
    BY <1>12, <2>1, RerunType DEF Select
<1>13. CASE Deselect
  BY <1>13, RerunType DEF Deselect
<1>14. ASSUME NEW v \in Views, Answer(v) PROVE LiveTypeOK'
  <2>1. loads' \in [Views -> 0..MaxLoads]
    BY <1>1, <1>14 DEF Answer
  <2> QED
    BY <1>14, <2>1 DEF Answer
<1>15. CASE AddData
  BY <1>15 DEF AddData
<1>16. CASE DataAdded
  <2>1. loads' \in [Views -> 0..MaxLoads]
    BY <1>1, <1>16 DEF DataAdded
  <2>2. mixed' \in BOOLEAN
    BY <1>16 DEF DataAdded
  <2> QED
    BY <1>16, <2>1, <2>2 DEF DataAdded
<1>17. CASE UNCHANGED liveVars
  BY <1>17 DEF liveVars
<1> QED
  BY <1>2, <1>3, <1>4, <1>5, <1>6, <1>8, <1>9, <1>10, <1>11, <1>12, <1>13, <1>14, <1>15,
     <1>16, <1>17 DEF LiveNext, User, Progress

\* Every variable always holds a value of its type.
THEOREM LiveTypeCorrect == LiveSpec => []LiveTypeOK
BY LiveAssumption, LiveInitType, LiveNextType, PTL DEF LiveSpec

-----------------------------------------------------------------------------
(* Lines: a connection, or the timer that will open one *)

LEMMA LinesFinite ==
    ASSUME LiveAssumption, LiveTypeOK
    PROVE  /\ IsFiniteSet(Connections) /\ IsFiniteSet(timers)
           /\ Cardinality(Connections) \in Nat /\ Cardinality(timers) \in Nat
           /\ effects \in Nat
<1>1. IsFiniteSet(Sockets)
  BY FS_Interval DEF Sockets, LiveAssumption
<1>2. Connections \subseteq Sockets /\ timers \subseteq Sockets
  BY DEF Connections, LiveTypeOK
<1>3. IsFiniteSet(Connections) /\ IsFiniteSet(timers)
  BY <1>1, <1>2, FS_Subset
<1>4. effects \in Nat
  BY DEF LiveTypeOK, LiveAssumption
<1> QED
  BY <1>3, <1>4, FS_CardinalityType

LEMMA OneMore ==
    ASSUME NEW C, IsFiniteSet(C), NEW x, NEW D, D \subseteq C \union {x}
    PROVE  IsFiniteSet(D) /\ Cardinality(D) \in Nat /\ Cardinality(D) <= Cardinality(C) + 1
<1>1. /\ IsFiniteSet(C \union {x})
      /\ Cardinality(C \union {x}) = IF x \in C THEN Cardinality(C) ELSE Cardinality(C) + 1
  BY FS_AddElement
<1>2. Cardinality(C) \in Nat
  BY FS_CardinalityType
<1>3. IsFiniteSet(D) /\ Cardinality(D) <= Cardinality(C \union {x})
  BY <1>1, FS_Subset
<1>4. Cardinality(D) \in Nat
  BY <1>3, FS_CardinalityType
<1> QED
  BY <1>1, <1>2, <1>3, <1>4

LEMMA NoMore ==
    ASSUME NEW C, IsFiniteSet(C), NEW D, D \subseteq C
    PROVE  IsFiniteSet(D) /\ Cardinality(D) \in Nat /\ Cardinality(D) <= Cardinality(C)
BY FS_Subset, FS_CardinalityType

LEMMA OneLess ==
    ASSUME NEW C, IsFiniteSet(C), NEW x \in C, NEW D, D \subseteq C \ {x}
    PROVE  IsFiniteSet(D) /\ Cardinality(D) \in Nat /\ Cardinality(D) <= Cardinality(C) - 1
<1>1. IsFiniteSet(C \ {x}) /\ Cardinality(C \ {x}) = Cardinality(C) - 1
  BY FS_RemoveElement
<1> QED
  BY <1>1, NoMore

\* A connect adds at most one connection to those it finds.
LEMMA ConnectAdds ==
    ASSUME LiveAssumption, LiveTypeOK, NEW h \in Hooks \union {None}, NEW ts \in SUBSET Sockets,
           NEW st \in [Sockets -> SocketStates], Connect(h, ts, st),
           \A t \in Sockets : st[t] = "free" <=> sock[t] = "free"
    PROVE  timers' = ts /\ \E s : Connections' \subseteq Connections \union {s}
<1>1. CASE token = "none"
  BY <1>1, ConnectDoes DEF Connections
<1>2. CASE token # "none"
  <2>1. PICK s \in Sockets :
           sock' = [st EXCEPT ![s] = IF token = "valid" THEN "connecting" ELSE "refused"]
    BY <1>2 DEF Connect
  <2>2. timers' = ts /\ \A t \in Sockets : t # s => sock'[t] = st[t]
    BY <1>2, <2>1 DEF Connect
  <2>3. Connections' \subseteq Connections \union {s}
    BY <2>2 DEF Connections
  <2> QED
    BY <2>2, <2>3
<1> QED
  BY <1>1, <1>2

LEMMA RerunAdds ==
    ASSUME LiveAssumption, LiveTypeOK, NEW h \in Hooks, Rerun(h)
    PROVE  /\ effects' = effects + 1 /\ timers' \subseteq timers
           /\ \E s : Connections' \subseteq Connections \union {s}
<1>1. timers \ {timerRef[h]} \in SUBSET Sockets
  BY DEF LiveTypeOK
<1>2. Connect(h, timers \ {timerRef[h]}, Closing(wsRef[h])) /\ effects' = effects + 1
  BY DEF Rerun
<1>3. /\ timers' = timers \ {timerRef[h]}
      /\ \E s : Connections' \subseteq Connections \union {s}
  BY <1>1, <1>2, ClosingType, ConnectAdds
<1> QED
  BY <1>2, <1>3

LEMMA ReconnectAdds ==
    ASSUME LiveAssumption, LiveTypeOK, NEW s \in Sockets, Reconnect(s)
    PROVE  /\ s \in timers /\ timers' = timers \ {s} /\ effects' = effects
           /\ \E t : Connections' \subseteq Connections \union {t}
<1>1. timers \ {s} \in SUBSET Sockets /\ hook[s] \in Hooks \union {None}
      /\ sock \in [Sockets -> SocketStates]
  BY DEF LiveTypeOK
<1>2. Connect(hook[s], timers \ {s}, sock) /\ s \in timers /\ effects' = effects
  BY DEF Reconnect
<1>3. timers' = timers \ {s} /\ \E t : Connections' \subseteq Connections \union {t}
  BY <1>1, <1>2, ConnectAdds
<1> QED
  BY <1>2, <1>3

\* A step is a run of the effect, a close, a timer that fires, or one that
\* opens nothing.
LEMMA NextLines ==
    LiveAssumption /\ LiveTypeOK /\ LinesBounded /\ [LiveNext]_liveVars => LinesBounded'
<1> SUFFICES ASSUME LiveAssumption, LiveTypeOK, LinesBounded, [LiveNext]_liveVars PROVE LinesBounded'
  OBVIOUS
<1> USE LinesFinite
<1>1. ASSUME NEW h \in Hooks, Rerun(h) PROVE LinesBounded'
  <2>1. /\ effects' = effects + 1 /\ timers' \subseteq timers
        /\ \E s : Connections' \subseteq Connections \union {s}
    BY <1>1, RerunAdds
  <2>2. Cardinality(Connections') \in Nat /\ Cardinality(Connections') <= Cardinality(Connections) + 1
    BY <2>1, OneMore
  <2>3. Cardinality(timers') \in Nat /\ Cardinality(timers') <= Cardinality(timers)
    BY <2>1, NoMore
  <2> QED
    BY <2>1, <2>2, <2>3 DEF LinesBounded
<1>2. ASSUME NEW s \in Sockets, Reconnect(s) PROVE LinesBounded'
  <2>1. /\ s \in timers /\ timers' = timers \ {s} /\ effects' = effects
        /\ \E t : Connections' \subseteq Connections \union {t}
    BY <1>2, ReconnectAdds
  <2>2. Cardinality(Connections') \in Nat /\ Cardinality(Connections') <= Cardinality(Connections) + 1
    BY <2>1, OneMore
  <2>3. Cardinality(timers') \in Nat /\ Cardinality(timers') <= Cardinality(timers) - 1
    BY <2>1, OneLess
  <2> QED
    BY <2>1, <2>2, <2>3 DEF LinesBounded
<1>3. ASSUME NEW s \in Sockets, Closed(s) PROVE LinesBounded'
  <2>1. /\ s \in Connections /\ Connections' \subseteq Connections \ {s}
        /\ timers' \subseteq timers \union {s} /\ effects' = effects
    BY <1>3 DEF Closed, Connections, LiveTypeOK
  <2>2. Cardinality(Connections') \in Nat /\ Cardinality(Connections') <= Cardinality(Connections) - 1
    BY <2>1, OneLess
  <2>3. Cardinality(timers') \in Nat /\ Cardinality(timers') <= Cardinality(timers) + 1
    BY <2>1, OneMore
  <2> QED
    BY <2>1, <2>2, <2>3 DEF LinesBounded
<1>4. ASSUME Connections' \subseteq Connections, timers' \subseteq timers, effects' = effects
      PROVE  LinesBounded'
  <2>1. Cardinality(Connections') \in Nat /\ Cardinality(Connections') <= Cardinality(Connections)
    BY <1>4, NoMore
  <2>2. Cardinality(timers') \in Nat /\ Cardinality(timers') <= Cardinality(timers)
    BY <1>4, NoMore
  <2> QED
    BY <1>4, <2>1, <2>2 DEF LinesBounded
<1>5. ASSUME NEW s \in Sockets, Opened(s) \/ Accept(s) \/ Drop(s) PROVE LinesBounded'
  BY <1>4, <1>5 DEF Opened, Accept, Drop, Connections, LiveTypeOK, Standing
<1>6. CASE Leave
  BY <1>4, <1>6, ClosingType DEF Leave, Connections
<1>7. CASE Login \/ AddData \/ DataAdded \/ UNCHANGED liveVars \/ \E v \in Views : Answer(v)
  BY <1>4, <1>7 DEF Login, AddData, DataAdded, Answer, Connections, liveVars, line
<1>8. CASE Expire
  BY <1>4, <1>8 DEF Expire, Connections, LiveTypeOK
<1>9. CASE Unauthorized
  BY <1>4, <1>9 DEF Unauthorized, Connections
<1>10. CASE Mount \/ Deselect \/ \E v \in Views : Select(v)
  BY <1>1, <1>10 DEF Mount, Deselect, Select, LiveTypeOK
<1> QED
  BY <1>2, <1>3, <1>5, <1>6, <1>7, <1>8, <1>9, <1>10 DEF LiveNext, User, Progress

\* Every connection and every timer of the tab goes back to a run of the
\* effect of its own: overlapping connections do not multiply.
THEOREM LinesStayBounded == LiveSpec => []LinesBounded
<1>1. LiveInit => LinesBounded
  <2> SUFFICES ASSUME LiveInit PROVE LinesBounded
    OBVIOUS
  <2>1. Connections = {} /\ timers = {} /\ effects = 0
    BY DEF LiveInit, Connections
  <2> QED
    BY <2>1, FS_EmptySet DEF LinesBounded
<1> QED
  BY LiveAssumption, <1>1, LiveInitType, LiveNextType, NextLines, PTL DEF LiveSpec

-----------------------------------------------------------------------------
(* What the hook holds and what the page shows *)

\* The connections of an instance of the hook, and what its refs hold.
OwnLines ==
    /\ \A s \in Sockets : sock[s] # "free" \/ s \in timers => hook[s] \in Hooks
    /\ \A h \in Hooks :
         /\ wsRef[h] # None => sock[wsRef[h]] # "free" /\ hook[wsRef[h]] = h
         /\ pingRef[h] # None =>
              sock[pingRef[h]] \in {"open", "closing"} /\ hook[pingRef[h]] = h

\* A page is mounted only for a user who is logged in.
PageHasToken == page # None => token # "none"

\* Unless loads of two choices were under way together, what is under way is a
\* load of the choice, and until it ends the page may show something else.
Pursued ==
    /\ page = None => selected = None
    /\ selected # None /\ ~mixed =>
         /\ \A v \in Views : v # selected => loads[v] = 0
         /\ shown = selected \/ failed \/ loads[selected] > 0

LiveInv == LiveTypeOK /\ OwnLines /\ PageHasToken /\ HeldIsKeptAlive /\ Pursued

\* A connect leaves the instance of every connection and every running timer,
\* and with a token the connection held is one that is not yet open.
LEMMA ConnectOwn ==
    ASSUME LiveAssumption, LiveTypeOK, OwnLines,
           NEW h \in Hooks, NEW ts \in SUBSET Sockets, ts \subseteq timers,
           NEW st \in [Sockets -> SocketStates], Connect(h, ts, st),
           \A t \in Sockets : st[t] = "free" <=> sock[t] = "free",
           \A t \in Sockets : sock[t] \in {"open", "closing"} => st[t] \in {"open", "closing"}
    PROVE  /\ \A s \in Sockets : sock'[s] # "free" \/ s \in timers' => hook'[s] \in Hooks
           /\ \A g \in Hooks : wsRef'[g] # None =>
                 sock'[wsRef'[g]] # "free" /\ hook'[wsRef'[g]] = g
           /\ \A s \in Sockets : sock[s] \in {"open", "closing"} =>
                 sock'[s] \in {"open", "closing"} /\ hook'[s] = hook[s]
           /\ \A s \in ts : hook'[s] = hook[s]
           /\ timers' = ts
           /\ \A g \in Hooks : g # h => wsRef'[g] = wsRef[g]
           /\ token # "none" => wsRef'[h] \in Sockets /\ sock'[wsRef'[h]] # "open"
<1> DEFINE Kept == /\ \A t \in Sockets : st[t] # "free" => sock'[t] = st[t]
                   /\ \A t \in Sockets : st[t] # "free" \/ t \in ts => hook'[t] = hook[t]
                   /\ \A g \in Hooks : g # h => wsRef'[g] = wsRef[g]
                   /\ timers' = ts
<1>1. CASE token = "none"
  <2>1. Kept /\ sock' = st /\ wsRef' = wsRef
    BY <1>1 DEF Connect, LiveTypeOK
  <2> QED
    BY <1>1, <2>1 DEF OwnLines, LiveTypeOK
<1>2. CASE token # "none"
  <2> DEFINE over == {t \in Sockets : st[t] = "free" /\ t \notin ts}
  <2>1. PICK s \in over :
              /\ sock' = [st EXCEPT ![s] = IF token = "valid" THEN "connecting" ELSE "refused"]
              /\ hook' = [t \in Sockets |-> IF t = s THEN h
                                            ELSE IF t \in over THEN None ELSE hook[t]]
              /\ wsRef' = [wsRef EXCEPT ![h] = s]
    BY <1>2 DEF Connect
  <2>2. timers' = ts
    BY <1>2 DEF Connect
  <2>3. Kept
    BY <2>1, <2>2 DEF LiveTypeOK
  <2>4. /\ s \in Sockets /\ wsRef'[h] = s /\ hook'[s] = h /\ sock'[s] \in {"connecting", "refused"}
        /\ \A t \in Sockets : t # s => sock'[t] = st[t]
    BY <2>1 DEF LiveTypeOK
  <2>5. \A t \in Sockets : sock'[t] # "free" \/ t \in timers' => hook'[t] \in Hooks
    BY <2>3, <2>4 DEF OwnLines
  <2>6. ASSUME NEW g \in Hooks, wsRef'[g] # None
        PROVE  sock'[wsRef'[g]] # "free" /\ hook'[wsRef'[g]] = g
    <3>1. CASE g = h
      BY <2>4, <3>1
    <3>2. CASE g # h
      <4>1. wsRef'[g] = wsRef[g] /\ wsRef[g] \in Sockets
        BY <2>3, <2>6, <3>2 DEF LiveTypeOK
      <4> QED
        BY <2>3, <2>6, <4>1 DEF OwnLines
    <3> QED
      BY <3>1, <3>2
  <2>7. \A t \in Sockets : sock[t] \in {"open", "closing"} =>
                 sock'[t] \in {"open", "closing"} /\ hook'[t] = hook[t]
    BY <2>3
  <2> HIDE DEF over
  <2> QED
    BY <1>2, <2>1, <2>3, <2>4, <2>5, <2>6, <2>7
<1> QED
  BY <1>1, <1>2

\* After a run of the effect the page holds a connection that is not yet open.
LEMMA RerunOwn ==
    ASSUME LiveAssumption, LiveTypeOK, OwnLines, NEW h \in Hooks, Rerun(h), token # "none"
    PROVE  OwnLines' /\ wsRef'[h] \in Sockets /\ sock'[wsRef'[h]] # "open"
<1> DEFINE ts == timers \ {timerRef[h]}
           st == Closing(wsRef[h])
<1>1. /\ ts \in SUBSET Sockets /\ ts \subseteq timers
      /\ st \in [Sockets -> SocketStates]
      /\ Connect(h, ts, st)
      /\ \A t \in Sockets : st[t] = "free" <=> sock[t] = "free"
  BY ClosingType DEF LiveTypeOK, Rerun
<1>2. \A t \in Sockets : sock[t] \in {"open", "closing"} => st[t] \in {"open", "closing"}
  BY DEF Closing
<1> HIDE DEF ts, st
<1>3. /\ \A s \in Sockets : sock'[s] # "free" \/ s \in timers' => hook'[s] \in Hooks
      /\ \A g \in Hooks : wsRef'[g] # None =>
            sock'[wsRef'[g]] # "free" /\ hook'[wsRef'[g]] = g
      /\ \A s \in Sockets : sock[s] \in {"open", "closing"} =>
            sock'[s] \in {"open", "closing"} /\ hook'[s] = hook[s]
      /\ wsRef'[h] \in Sockets /\ sock'[wsRef'[h]] # "open"
  BY <1>1, <1>2, ConnectOwn
<1>4. pingRef' = [pingRef EXCEPT ![h] = None]
  BY DEF Rerun, Cleanup
<1>5. ASSUME NEW g \in Hooks, pingRef'[g] # None
      PROVE  sock'[pingRef'[g]] \in {"open", "closing"} /\ hook'[pingRef'[g]] = g
  <2>1. pingRef'[g] = pingRef[g] /\ pingRef[g] \in Sockets
    BY <1>4, <1>5 DEF LiveTypeOK
  <2> QED
    BY <1>3, <1>5, <2>1 DEF OwnLines
<1> QED
  BY <1>3, <1>5 DEF OwnLines

\* A timer that fires for the page replaces what the page holds; one of
\* another instance leaves it alone.
LEMMA ReconnectOwn ==
    ASSUME LiveAssumption, LiveTypeOK, OwnLines, PageHasToken, HeldIsKeptAlive,
           NEW s \in Sockets, Reconnect(s)
    PROVE  OwnLines' /\ HeldIsKeptAlive'
<1>1. /\ s \in timers /\ Connect(hook[s], timers \ {s}, sock)
      /\ page' = page /\ pinging' = pinging /\ pingRef' = pingRef
  BY DEF Reconnect
<1>2. PICK h \in Hooks, ts \in SUBSET Sockets :
         h = hook[s] /\ ts = timers \ {s} /\ Connect(h, ts, sock)
  BY <1>1 DEF OwnLines, LiveTypeOK
<1>3. /\ sock \in [Sockets -> SocketStates] /\ ts \subseteq timers
      /\ \A t \in Sockets : sock[t] = "free" <=> sock[t] = "free"
  BY <1>2 DEF LiveTypeOK
<1>4. /\ \A t \in Sockets : sock'[t] # "free" \/ t \in timers' => hook'[t] \in Hooks
      /\ \A g \in Hooks : wsRef'[g] # None =>
            sock'[wsRef'[g]] # "free" /\ hook'[wsRef'[g]] = g
      /\ \A t \in Sockets : sock[t] \in {"open", "closing"} =>
            sock'[t] \in {"open", "closing"} /\ hook'[t] = hook[t]
      /\ \A t \in ts : hook'[t] = hook[t]
      /\ timers' = ts
      /\ \A g \in Hooks : g # h => wsRef'[g] = wsRef[g]
      /\ token # "none" => wsRef'[h] \in Sockets /\ sock'[wsRef'[h]] # "open"
  BY <1>2, <1>3, ConnectOwn, ZenonT(60)
<1>5. OwnLines'
  <2>1. ASSUME NEW g \in Hooks, pingRef'[g] # None
        PROVE  sock'[pingRef'[g]] \in {"open", "closing"} /\ hook'[pingRef'[g]] = g
    BY <1>1, <1>4, <2>1 DEF OwnLines, LiveTypeOK
  <2> QED
    BY <1>4, <2>1 DEF OwnLines
<1>6. HeldIsKeptAlive'
  <2> SUFFICES ASSUME page # None, wsRef'[page] # None, sock'[wsRef'[page]] = "open"
               PROVE  wsRef'[page] \in pinging \/ \E t \in timers' : hook'[t] = page
    BY <1>1 DEF HeldIsKeptAlive
  <2>1. page \in Hooks /\ token # "none"
    BY DEF LiveTypeOK, PageHasToken
  <2>2. h # page /\ wsRef'[page] = wsRef[page]
    BY <1>4, <2>1
  <2>3. wsRef[page] \in Sockets
    BY <2>1, <2>2 DEF LiveTypeOK
  <2>4. sock[wsRef[page]] = "open"
    <3>1. sock[wsRef[page]] # "free"
      BY <2>1, <2>2 DEF OwnLines
    <3>2. sock'[wsRef[page]] = sock[wsRef[page]]
      BY <1>1, <2>3, <3>1 DEF Connect, LiveTypeOK
    <3> QED
      BY <2>2, <3>2
  <2>5. wsRef[page] \in pinging \/ \E t \in timers : hook[t] = page
    BY <2>2, <2>4 DEF HeldIsKeptAlive
  <2>6. ASSUME NEW t \in timers, hook[t] = page PROVE t \in timers' /\ hook'[t] = page
    BY <1>2, <1>4, <2>2, <2>6
  <2> QED
    BY <2>2, <2>5, <2>6
<1> QED
  BY <1>5, <1>6

\* The other steps of a connection.
LEMMA SocketOwn ==
    ASSUME LiveAssumption, LiveTypeOK, OwnLines, PageHasToken, HeldIsKeptAlive, NEW s \in Sockets,
           Opened(s) \/ Closed(s) \/ Accept(s) \/ Drop(s)
    PROVE  OwnLines' /\ HeldIsKeptAlive'
<1> USE DEF LiveTypeOK, refs
<1>1. CASE Opened(s)
  <2>1. hook[s] \in Hooks
    BY <1>1 DEF Opened, OwnLines
  <2>2. OwnLines'
    <3>1. /\ \A t \in Sockets : sock'[t] # "free" <=> sock[t] # "free"
          /\ hook' = hook /\ timers' = timers /\ wsRef' = wsRef
          /\ sock'[s] = "open" /\ \A t \in Sockets : t # s => sock'[t] = sock[t]
          /\ pingRef' = [pingRef EXCEPT ![hook[s]] = s]
      BY <1>1 DEF Opened
    <3>2. ASSUME NEW h \in Hooks, pingRef'[h] # None
          PROVE  sock'[pingRef'[h]] \in {"open", "closing"} /\ hook'[pingRef'[h]] = h
      <4>1. CASE h = hook[s]
        BY <2>1, <3>1, <4>1
      <4>2. CASE h # hook[s]
        BY <3>1, <3>2, <4>2 DEF OwnLines
      <4> QED
        BY <4>1, <4>2
    <3> QED
      BY <3>1, <3>2 DEF OwnLines
  <2>3. HeldIsKeptAlive'
    BY <1>1 DEF Opened, HeldIsKeptAlive
  <2> QED
    BY <2>2, <2>3
<1>2. CASE Closed(s)
  <2>1. hook[s] \in Hooks
    BY <1>2 DEF Closed, OwnLines
  <2>2. /\ sock'[s] = "free" /\ \A t \in Sockets : t # s => sock'[t] = sock[t]
        /\ hook' = hook /\ timers' = timers \union {s} /\ page' = page
        /\ pinging' = pinging \ {s, pingRef[hook[s]]}
        /\ pingRef' = [pingRef EXCEPT ![hook[s]] = None]
        /\ wsRef'[hook[s]] # s
        /\ \A h \in Hooks : wsRef'[h] # None => wsRef'[h] = wsRef[h]
    BY <1>2, <2>1 DEF Closed, None, Sockets
  <2>3. OwnLines'
    <3>1. \A t \in Sockets : sock'[t] # "free" \/ t \in timers' => hook'[t] \in Hooks
      BY <2>1, <2>2 DEF OwnLines
    <3>2. ASSUME NEW h \in Hooks, wsRef'[h] # None
          PROVE  sock'[wsRef'[h]] # "free" /\ hook'[wsRef'[h]] = h
      BY <2>2, <3>2 DEF OwnLines
    <3>3. ASSUME NEW h \in Hooks, pingRef'[h] # None
          PROVE  sock'[pingRef'[h]] \in {"open", "closing"} /\ hook'[pingRef'[h]] = h
      BY <2>1, <2>2, <3>3 DEF OwnLines
    <3> QED
      BY <3>1, <3>2, <3>3 DEF OwnLines
  <2>4. HeldIsKeptAlive'
    <3> SUFFICES ASSUME page # None, wsRef'[page] # None, sock'[wsRef'[page]] = "open"
                 PROVE  wsRef'[page] \in pinging' \/ \E t \in timers' : hook'[t] = page
      BY <2>2 DEF HeldIsKeptAlive
    <3>1. wsRef'[page] = wsRef[page] /\ wsRef[page] \in Sockets /\ hook[wsRef[page]] = page
      BY <2>2 DEF OwnLines
    <3>2. CASE hook[s] = page
      BY <2>2, <3>2
    <3>3. CASE hook[s] # page
      <4>1. wsRef[page] # s /\ sock[wsRef[page]] = "open"
        BY <2>2, <3>1, <3>3
      <4>2. wsRef[page] # pingRef[hook[s]]
        BY <2>1, <3>1, <3>3 DEF OwnLines
      <4>3. wsRef[page] \in pinging \/ \E t \in timers : hook[t] = page
        BY <3>1, <4>1 DEF HeldIsKeptAlive
      <4> QED
        BY <2>2, <3>1, <4>1, <4>2, <4>3
    <3> QED
      BY <3>2, <3>3
  <2> QED
    BY <2>3, <2>4
<1>3. CASE Accept(s) \/ Drop(s)
  <2>1. /\ hook' = hook /\ timers' = timers /\ wsRef' = wsRef /\ pingRef' = pingRef
        /\ pinging' = pinging /\ page' = page
        /\ \A t \in Sockets : sock'[t] # "free" <=> sock[t] # "free"
        /\ \A t \in Sockets : sock[t] \in {"open", "closing"} => sock'[t] \in {"open", "closing"}
        /\ \A t \in Sockets : sock'[t] = "open" => sock[t] = "open"
    BY <1>3 DEF Accept, Drop, Standing
  <2>2. OwnLines'
    BY <2>1 DEF OwnLines
  <2>3. HeldIsKeptAlive'
    BY <2>1 DEF HeldIsKeptAlive
  <2> QED
    BY <2>2, <2>3
<1> QED
  BY <1>1, <1>2, <1>3

LEMMA LeaveOwn ==
    ASSUME LiveAssumption, LiveTypeOK, OwnLines, Leave
    PROVE  OwnLines'
<1>1. /\ \A t \in Sockets : sock'[t] = "free" <=> sock[t] = "free"
      /\ sock' = Closing(wsRef[page])
      /\ timers' \subseteq timers /\ hook' = hook /\ wsRef' = wsRef
      /\ pingRef' = [pingRef EXCEPT ![page] = None]
  BY ClosingType DEF Leave, Cleanup
<1>2. \A t \in Sockets : sock[t] \in {"open", "closing"} => sock'[t] \in {"open", "closing"}
  BY <1>1 DEF Closing
<1>3. ASSUME NEW h \in Hooks, pingRef'[h] # None
      PROVE  sock'[pingRef'[h]] \in {"open", "closing"} /\ hook'[pingRef'[h]] = h
  BY <1>1, <1>2, <1>3 DEF OwnLines, LiveTypeOK
<1> QED
  BY <1>1, <1>3 DEF OwnLines, LiveTypeOK

LEMMA NextHeld ==
    ASSUME LiveAssumption, LiveInv, [LiveNext]_liveVars
    PROVE  OwnLines' /\ PageHasToken' /\ HeldIsKeptAlive'
<1> USE DEF LiveInv
<1>1. PageHasToken'
  BY DEF PageHasToken, LiveNext, User, Progress, Mount, Leave, Login, Deselect, AddData, Select,
         DataAdded, Answer, Opened, Closed, Reconnect, Accept, Expire, Unauthorized, Drop,
         liveVars, None, Hooks
<1>2. ASSUME NEW h \in Hooks, Rerun(h), page' = h, token # "none"
      PROVE  OwnLines' /\ HeldIsKeptAlive'
  BY <1>2, RerunOwn DEF HeldIsKeptAlive
<1>3. ASSUME UNCHANGED <<line, page>>
      PROVE  OwnLines' /\ HeldIsKeptAlive'
  BY <1>3 DEF OwnLines, HeldIsKeptAlive, line, refs
<1>4. CASE Mount
  BY <1>1, <1>2, <1>4 DEF Mount
<1>5. CASE Deselect \/ \E v \in Views : Select(v)
  <2>1. page \in Hooks /\ token # "none" /\ Rerun(page) /\ page' = page
    BY <1>5 DEF Deselect, Select, PageHasToken, LiveTypeOK
  <2> QED
    BY <1>1, <1>2, <2>1
<1>6. CASE Leave
  BY <1>1, <1>6, LeaveOwn DEF Leave, HeldIsKeptAlive
<1>7. CASE Login \/ AddData \/ DataAdded \/ (\E v \in Views : Answer(v)) \/ UNCHANGED liveVars
  BY <1>1, <1>3, <1>7 DEF Login, AddData, DataAdded, Answer, liveVars
<1>8. CASE \E s \in Sockets : Opened(s) \/ Closed(s) \/ Accept(s) \/ Drop(s)
  BY <1>1, <1>8, SocketOwn
<1>9. CASE \E s \in Sockets : Reconnect(s)
  BY <1>1, <1>9, ReconnectOwn
<1>10. CASE Expire
  <2>1. /\ hook' = hook /\ timers' = timers /\ wsRef' = wsRef /\ pingRef' = pingRef
        /\ pinging' = pinging /\ page' = page
        /\ \A t \in Sockets : sock'[t] # "free" <=> sock[t] # "free"
        /\ \A t \in Sockets : sock[t] \in {"open", "closing"} => sock'[t] \in {"open", "closing"}
        /\ \A t \in Sockets : sock'[t] = "open" => sock[t] = "open"
    <3>1. sock' = [s \in Sockets |-> IF sock[s] = "connecting" THEN "refused" ELSE sock[s]]
      BY <1>10 DEF Expire
    <3>2. UNCHANGED <<hook, timers, wsRef, pingRef, pinging, page>>
      BY <1>10 DEF Expire, refs
    <3> QED
      BY <3>1, <3>2
  <2> QED
    BY <1>1, <2>1 DEF OwnLines, HeldIsKeptAlive, LiveTypeOK
<1>11. CASE Unauthorized
  BY <1>1, <1>11 DEF Unauthorized, OwnLines, HeldIsKeptAlive
<1> QED
  BY <1>1, <1>4, <1>5, <1>6, <1>7, <1>8, <1>9, <1>10, <1>11 DEF LiveNext, User, Progress

LEMMA NextPursued ==
    ASSUME LiveAssumption, LiveInv, [LiveNext]_liveVars
    PROVE  Pursued'
<1> USE DEF LiveInv, LiveTypeOK, Pursued
<1>1. None \notin Views
  BY DEF LiveAssumption
<1>2. ASSUME UNCHANGED <<page, view>> PROVE Pursued'
  BY <1>2 DEF view
<1>3. CASE Mount
  BY <1>3 DEF Mount, view
<1>4. CASE Leave \/ Unauthorized
  BY <1>4 DEF Leave, Unauthorized, Forget
<1>5. CASE Login \/ AddData \/ Expire \/ UNCHANGED liveVars
  BY <1>2, <1>5 DEF Login, AddData, Expire, liveVars, view
<1>6. CASE \E s \in Sockets : Opened(s) \/ Closed(s) \/ Accept(s) \/ Drop(s) \/ Reconnect(s)
  BY <1>2, <1>6 DEF Opened, Closed, Accept, Drop, Reconnect
<1>7. CASE Deselect
  BY <1>7 DEF Deselect
<1>8. ASSUME NEW v \in Views, Select(v) PROVE Pursued'
  <2>1. /\ page' = page /\ page # None /\ selected' = v /\ loads' = [loads EXCEPT ![v] = @ + 1]
        /\ mixed' = \E u \in Views \ {v} : loads[u] > 0
    BY <1>8 DEF Select, Pending
  <2>2. loads'[v] > 0 /\ \A u \in Views : u # v => loads'[u] = loads[u] /\ loads[u] \in Nat
    BY <2>1
  <2> QED
    BY <2>1, <2>2
<1>9. ASSUME NEW v \in Views, Answer(v) PROVE Pursued'
  <2>1. /\ page' = page /\ selected' = selected /\ mixed' = mixed
        /\ loads[v] > 0 /\ \A u \in Views : u # v => loads'[u] = loads[u]
        /\ shown' = v \/ failed' = TRUE
    BY <1>9 DEF Answer
  <2> QED
    BY <2>1
<1>10. CASE DataAdded
  <2>1. /\ page' = page /\ selected' = selected /\ shown' = shown /\ failed' = failed
        /\ \/ loads' = loads /\ mixed' = mixed
           \/ /\ upload # None
              /\ loads' = [loads EXCEPT ![upload] = @ + 1]
              /\ mixed' = (selected # None /\ (mixed \/ upload # selected))
    BY <1>10 DEF DataAdded
  <2>2. CASE loads' = loads /\ mixed' = mixed
    BY <2>1, <2>2
  <2>3. CASE /\ upload # None
             /\ loads' = [loads EXCEPT ![upload] = @ + 1]
             /\ mixed' = (selected # None /\ (mixed \/ upload # selected))
    <3>1. upload \in Views /\ loads'[upload] > 0
          /\ \A u \in Views : u # upload => loads'[u] = loads[u]
      BY <2>3
    <3> QED
      BY <2>1, <2>3, <3>1
  <2> QED
    BY <2>1, <2>2, <2>3
<1> QED
  BY <1>3, <1>4, <1>5, <1>6, <1>7, <1>8, <1>9, <1>10 DEF LiveNext, User, Progress

THEOREM LiveInductive == LiveSpec => []LiveInv
<1>1. LiveInit => LiveInv
  <2> SUFFICES ASSUME LiveInit PROVE LiveInv
    OBVIOUS
  <2>1. LiveTypeOK
    BY LiveAssumption, LiveInitType
  <2> QED
    BY <2>1 DEF LiveInit, LiveInv, OwnLines, PageHasToken, HeldIsKeptAlive, Pursued
<1>2. LiveInv /\ [LiveNext]_liveVars => LiveInv'
  BY LiveAssumption, LiveNextType, NextHeld, NextPursued DEF LiveInv
<1> QED
  BY <1>1, <1>2, PTL DEF LiveSpec

\* The connection a page holds, once open, has a ping interval or is about to
\* be replaced.
THEOREM HeldAreKeptAlive == LiveSpec => []HeldIsKeptAlive
BY LiveInductive, PTL DEF LiveInv

\* With nothing under way, the page shows what is chosen, but for a load that
\* failed or loads of two choices under way together.
THEOREM ChosenIsShown == LiveSpec => []ShownIsSelected
<1>1. LiveInv => ShownIsSelected
  <2> SUFFICES ASSUME LiveInv, page # None, selected # None, \A v \in Views : loads[v] = 0
               PROVE  shown = selected \/ failed \/ mixed
    BY DEF ShownIsSelected
  <2>1. selected \in Views /\ loads[selected] = 0
    BY DEF LiveInv, LiveTypeOK
  <2> QED
    BY <2>1 DEF LiveInv, Pursued
<1> QED
  BY <1>1, LiveInductive, PTL

-----------------------------------------------------------------------------
(***************************************************************************)
(* The series                                                              *)
(*                                                                         *)
(* For any files, contents and interleaving of tasks and requests: the     *)
(* values of a parsed report are those of its attachment, an alert has its *)
(* record, at rest the newest point has been compared with the others, a   *)
(* usual value is no deviation and a rising series is recorded as rising.  *)
(*                                                                         *)
(* VerdictIsCurrent speaks of states at rest. The invariant behind it      *)
(* (Judgements) speaks of all: the points that are committed have been     *)
(* judged, but for those whose tasks still owe a judgement and those of    *)
(* uploaded histories, and a request that has judged and not committed has *)
(* seen everything it will be committed with, unless it was crossed by     *)
(* another. A judgement stays good while points are deleted (the deleted   *)
(* one was as new) and while points of missed files come (MissedMayCome).  *)
(*                                                                         *)
(* The last two are about the statistics (UsualIsNotSevere,                *)
(* RisingIncreases): the state only adds that judgements and trend are     *)
(* what they compute (Computed).                                           *)
(***************************************************************************)

-----------------------------------------------------------------------------
(* Sets of points *)

\* A finite set with a point has a newest one: a smallest set of points that
\* holds all that are as new as any of its own holds the newest ones only.
LEMMA NewestExists ==
    ASSUME NEW S, IsFiniteSet(S), S # {}, \A p \in S : p.time \in Nat
    PROVE  Newest(S) # {}
<1> DEFINE Upper == {U \in SUBSET S : U # {} /\ \A p \in U, q \in S : p.time <= q.time => q \in U}
<1>1. IsWellFoundedOn(StrictSubsetOrdering(S), SUBSET S)
  BY FS_StrictSubsetOrderingWellFounded, FS_FiniteSubsetsOfFinite
<1>2. S \in Upper /\ Upper \subseteq SUBSET S
  OBVIOUS
<1>3. Upper # {} /\ Upper \subseteq SUBSET S
  BY <1>2
<1>4. PICK U \in Upper : \A V \in Upper : ~ (<<V, U>> \in StrictSubsetOrdering(S))
  <2> HIDE DEF Upper
  <2> QED
    BY <1>1, <1>3, WFMin
<1>5. PICK p : p \in U
  BY <1>4
<1>6. ASSUME NEW q \in S, ~ (q.time <= p.time) PROVE FALSE
  <2> DEFINE V == {r \in S : q.time <= r.time}
  <2>1. \A r, t \in S : q.time <= r.time /\ r.time <= t.time => q.time <= t.time
    OBVIOUS
  <2>2. q \in V /\ V \subseteq S /\ p \in S
    BY <1>5
  <2>3. V \in Upper
    BY <2>1, <2>2
  <2>4. q \in U
    BY <1>5, <1>6, <2>2
  <2>5. V \subseteq U
    BY <2>4
  <2>6. p \notin V
    BY <1>6, <2>2
  <2>7. <<V, U>> \in StrictSubsetOrdering(S)
    BY <1>5, <2>2, <2>5, <2>6 DEF StrictSubsetOrdering
  <2> QED
    BY <1>4, <2>3, <2>7
<1> QED
  BY <1>5, <1>6 DEF Newest

\* The image of the rows of a file is finite.
LEMMA RowsMakePoints ==
    ASSUME NEW c \in Seq(RowType), NEW P, NEW g \in [1..Len(c) -> P],
           \A p \in P : \E i \in 1..Len(c) : p = g[i]
    PROVE  IsFiniteSet(P)
<1>1. Len(c) \in Nat
  OBVIOUS
<1>2. IsFiniteSet(1..Len(c)) /\ Cardinality(1..Len(c)) = Len(c)
  <2>1. PICK n \in Nat : n = Len(c)
    BY <1>1
  <2>2. /\ IsFiniteSet(1..n)
        /\ Cardinality(1..n) = IF 1 > n THEN 0 ELSE n - 1 + 1
    BY FS_Interval
  <2> QED
    BY <2>1, <2>2
<1>3. g \in Surjection(1..Len(c), P)
  BY DEF Surjection
<1> QED
  BY <1>2, <1>3, FS_Surjection

LEMMA StampedPoints ==
    ASSUME NEW f \in Files, NEW c \in Seq(RowType), NEW t \in 0..MaxTime, SeriesAssumption
    PROVE  /\ Stamped(f, c, t) \subseteq Points
           /\ \A p \in Stamped(f, c, t) : p.file = f
           /\ \A i \in DOMAIN c : \E p \in Stamped(f, c, t) : p.file = f /\ p.value = c[i].value
           /\ IsFiniteSet(Stamped(f, c, t))
<1> DEFINE g == [i \in 1..Len(c) |-> Point(f, i, c[i], t)]
<1>1. DOMAIN c = 1..Len(c) /\ Len(c) \in Nat /\ \A i \in DOMAIN c : c[i] \in RowType
  OBVIOUS
<1>2. g \in [1..Len(c) -> Stamped(f, c, t)]
      /\ \A p \in Stamped(f, c, t) : \E i \in 1..Len(c) : p = g[i]
  BY <1>1 DEF Stamped
<1>3. IsFiniteSet(Stamped(f, c, t))
  <2> HIDE DEF g
  <2> QED
    BY <1>2, RowsMakePoints
<1>4. \A i \in DOMAIN c : Point(f, i, c[i], t) \in Points
  BY <1>1 DEF Point, Points, RowType
<1>5. \A p \in Stamped(f, c, t) : p.file = f
  BY DEF Stamped, Point
<1>6. \A i \in DOMAIN c : Point(f, i, c[i], t) \in Stamped(f, c, t)
                            /\ Point(f, i, c[i], t).file = f
                            /\ Point(f, i, c[i], t).value = c[i].value
  BY DEF Stamped, Point
<1> QED
  BY <1>3, <1>4, <1>5, <1>6 DEF Stamped

LEMMA DatedPoints ==
    ASSUME NEW f \in Files, NEW c \in Seq(RowType), NEW t \in 0..MaxTime, SeriesAssumption
    PROVE  /\ Dated(f, c, t) \subseteq Points
           /\ \A p \in Dated(f, c, t) : p.file = f
           /\ IsFiniteSet(Dated(f, c, t))
<1> DEFINE At(i) == IF c[i].at = 0 THEN t ELSE c[i].at
           g == [i \in 1..Len(c) |-> Point(f, i, c[i], At(i))]
<1>1. DOMAIN c = 1..Len(c) /\ Len(c) \in Nat /\ \A i \in DOMAIN c : c[i] \in RowType
  OBVIOUS
<1>2. g \in [1..Len(c) -> Dated(f, c, t)]
      /\ \A p \in Dated(f, c, t) : \E i \in 1..Len(c) : p = g[i]
  BY <1>1 DEF Dated
<1>3. IsFiniteSet(Dated(f, c, t))
  <2> HIDE DEF g
  <2> QED
    BY <1>2, RowsMakePoints
<1>4. \A i \in DOMAIN c : Point(f, i, c[i], At(i)) \in Points
  BY <1>1 DEF Point, Points, RowType
<1>5. \A p \in Dated(f, c, t) : p.file = f
  BY DEF Dated, Point
<1> QED
  BY <1>3, <1>4, <1>5 DEF Dated

-----------------------------------------------------------------------------
(* Types *)

Finite == IsFiniteSet(points)

LEMMA InitTyped == Init => TypeOK /\ Finite
<1> SUFFICES ASSUME Init PROVE TypeOK /\ Finite
  OBVIOUS
<1> USE SeriesAssumption DEF SeriesAssumption
<1>1. PICK c \in Baselines :
         /\ disk = [f \in Files |-> IF f = Base THEN c ELSE <<>>]
         /\ points = Dated(Base, c, Start)
  BY DEF Init
<1>2. c \in Seq(RowType) /\ Base \in Files /\ <<>> \in Seq(RowType)
  BY DEF Files
<1>3. points \subseteq Points /\ Finite
  BY <1>1, <1>2, DatedPoints DEF Finite
<1>4. disk \in [Files -> Seq(RowType)]
  BY <1>1, <1>2
<1>5. trend.used = {}
  BY DEF Init
<1>6. faults \in 0..MaxFaults /\ now \in 0..MaxTime
  BY DEF Init
<1> QED
  BY <1>2, <1>3, <1>4, <1>5, <1>6 DEF Init, TypeOK

LEMMA NextTyped == TypeOK /\ Finite /\ [Next]_vars => TypeOK' /\ Finite'
<1> SUFFICES ASSUME TypeOK, Finite, [Next]_vars PROVE TypeOK' /\ Finite'
  OBVIOUS
<1> USE DEF TypeOK, Finite, files, history
<1>0. /\ Tasks \subseteq Files /\ Requests \subseteq Files /\ Contents \subseteq Seq(RowType)
      /\ Targets \subseteq Files
      /\ Matches \in [Tasks -> SUBSET Files] /\ MaxTime \in Nat /\ MaxFaults \in Nat
  BY SeriesAssumption DEF SeriesAssumption, Files
<1>1. ASSUME NEW f \in Tasks, Receive(f) PROVE TypeOK' /\ Finite'
  BY <1>0, <1>1 DEF Receive
<1>2. ASSUME NEW f \in Tasks, Read(f) PROVE TypeOK' /\ Finite'
  <2>1. PICK g \in Found(f) : points' = points \union Stamped(f, disk[g], now + 1)
    BY <1>2 DEF Read
  <2>2. now + 1 \in 0..MaxTime /\ g \in Files /\ f \in Files /\ disk[g] \in Seq(RowType)
    BY <1>0, <1>2 DEF Read, Found
  <2>3. /\ Stamped(f, disk[g], now + 1) \subseteq Points
        /\ IsFiniteSet(Stamped(f, disk[g], now + 1))
    BY <2>2, SeriesAssumption, StampedPoints
  <2>4. points' \subseteq Points /\ IsFiniteSet(points')
    BY <2>1, <2>3, FS_Union
  <2>5. now' \in 0..MaxTime
    BY <1>2, <2>2 DEF Read
  <2> QED
    BY <1>0, <1>2, <2>4, <2>5 DEF Read
<1>3. ASSUME NEW f \in Tasks, Store(f) PROVE TypeOK' /\ Finite'
  BY <1>0, <1>3 DEF Store, Crossed, Open
<1>4. ASSUME NEW f \in Tasks, Fail(f) PROVE TypeOK' /\ Finite'
  <2>1. points' \subseteq points
    BY <1>4 DEF Fail
  <2>2. IsFiniteSet(points')
    BY <2>1, FS_Subset
  <2> QED
    BY <1>0, <1>4, <2>1, <2>2 DEF Fail
<1>5. ASSUME NEW f \in Requests, Begin(f) PROVE TypeOK' /\ Finite'
  <2>1. PICK c \in Contents : /\ disk' = [disk EXCEPT ![f] = c]
                              /\ points' = points \union Dated(f, c, now + 1)
    BY <1>5 DEF Begin
  <2>2. now + 1 \in 0..MaxTime /\ f \in Files /\ c \in Seq(RowType)
    BY <1>0, <1>5 DEF Begin
  <2>3. Dated(f, c, now + 1) \subseteq Points /\ IsFiniteSet(Dated(f, c, now + 1))
    BY <2>2, SeriesAssumption, DatedPoints
  <2>4. points' \subseteq Points /\ IsFiniteSet(points')
    BY <2>1, <2>3, FS_Union
  <2>5. now' \in 0..MaxTime
    BY <1>5, <2>2 DEF Begin
  <2>6. home' \in [Files -> Files]
    BY <1>0, <1>5 DEF Begin
  <2>7. step' = [step EXCEPT ![f] = "stored"] /\ disk' \in [Files -> Seq(RowType)]
    BY <1>5, <2>1, <2>2 DEF Begin
  <2> QED
    BY <1>5, <2>4, <2>5, <2>6, <2>7 DEF Begin
<1>6. ASSUME NEW f \in Requests, Commit(f) PROVE TypeOK' /\ Finite'
  BY <1>0, <1>6 DEF Commit, Crossed, Open
<1>7. ASSUME NEW f \in Requests, Undo(f) \/ Unanswered(f) PROVE TypeOK' /\ Finite'
  <2>1. points' \subseteq points /\ records' \subseteq records
    BY <1>7 DEF Undo, Unanswered, Rollback
  <2>2. IsFiniteSet(points')
    BY <2>1, FS_Subset
  <2>3. faults' \in 0..MaxFaults
    BY <1>0, <1>7 DEF Undo, Unanswered
  <2> QED
    BY <1>7, <2>1, <2>2, <2>3 DEF Undo, Unanswered, Rollback
<1>8. ASSUME NEW f \in Tasks \union Requests, Analyze(f) PROVE TypeOK' /\ Finite'
  <2>1. trend'.used \subseteq Points
    <3>1. Visible(f) \subseteq Points
      BY DEF Visible
    <3>2. CASE UNCHANGED trend
      BY <3>2
    <3>3. CASE ~ UNCHANGED trend
      <4>1. PICK d \in Directions(Visible(f)) : trend' = [direction |-> d, used |-> Visible(f)]
        BY <1>8, <3>3 DEF Analyze
      <4> QED
        BY <3>1, <4>1
    <3> QED
      BY <3>2, <3>3
  <2> QED
    BY <1>8, <2>1 DEF Analyze
<1>9. ASSUME NEW f \in Tasks \union Requests, Judge(f) PROVE TypeOK' /\ Finite'
  <2>1. /\ step' \in [Files -> {"none", "received", "read", "stored", "analyzed", "judged",
                                "done", "failed", "undone", "deleted"}]
        /\ UNCHANGED <<disk, home, points, trend, now, faults, blind, cut>>
        /\ raw' \subseteq raw
    BY <1>9 DEF Judge
  <2>2. CASE UNCHANGED <<judged, records, alerts>>
    BY <2>1, <2>2
  <2>3. CASE ~ UNCHANGED <<judged, records, alerts>>
    <3> DEFINE V == Visible(f)
               Sev(p) == Severity(p.value, V \ {p})
               Dev(p) == [by |-> f, point |-> p, severity |-> Sev(p),
                          finite |-> Sev(p) = "none" \/ Spread(V \ {p}) # 0]
    <3>1. PICK p \in Judged(f) :
                /\ judged' = {j \in judged : ~ (j.point = p /\ j.seen \subseteq V)}
                                   \union {[point |-> p, severity |-> Sev(p), seen |-> V]}
                /\ records' = IF Sev(p) = "none" THEN records ELSE records \union {Dev(p)}
                /\ alerts' = IF f \in Requests /\ Sev(p) \in {"medium", "high"}
                             THEN alerts \union {Dev(p)} ELSE alerts
      BY <1>9, <2>3 DEF Judge
    <3>2. p \in Points /\ V \subseteq Points /\ f \in Files
      BY <1>0 DEF Judged, Newest, Visible
    <3>3. Sev(p) \in {"none", "low", "medium", "high"}
      BY DEF Severity
    <3>4. Sev(p) # "none" => Dev(p) \in Deviations
      BY <3>2, <3>3 DEF Deviations
    <3>5. records' \subseteq Deviations /\ alerts' \subseteq Deviations
      BY <3>1, <3>4
    <3>6. \A j \in judged' : j.point \in Points /\ j.seen \subseteq Points
      BY <3>1, <3>2
    <3> QED
      BY <2>1, <3>5, <3>6
  <2> QED
    BY <2>2, <2>3
<1>10. ASSUME NEW r \in Files, Delete(r) PROVE TypeOK' /\ Finite'
  <2>1. points' \subseteq points /\ records' \subseteq records /\ cut' \subseteq Points
    BY <1>10 DEF Delete
  <2>2. IsFiniteSet(points')
    BY <2>1, FS_Subset
  <2>3. faults' \in 0..MaxFaults
    BY <1>0, <1>10 DEF Delete
  <2> QED
    BY <1>10, <2>1, <2>2, <2>3 DEF Delete
<1>11. CASE UNCHANGED vars
  BY <1>11 DEF vars
<1> QED
  BY <1>1, <1>2, <1>3, <1>4, <1>5, <1>6, <1>7, <1>8, <1>9, <1>10, <1>11 DEF Next

\* Every variable always holds a value of its type, and a series is finite.
THEOREM SeriesTypeCorrect == Spec => [](TypeOK /\ Finite)
BY InitTyped, NextTyped, PTL DEF Spec

-----------------------------------------------------------------------------
(* The values of a report's own attachment *)

\* A file has no points before it is parsed, and is empty before it is saved;
\* only the points of a request can belong to another report.
InStep ==
    /\ \A p \in points : step[p.file] \notin {"none", "received"}
    /\ \A f \in Files : step[f] = "none" => disk[f] = <<>>
    /\ \A f \in Tasks : home[f] = f

\* OwnData, also of tasks that have parsed and not yet committed.
OwnRows ==
    \A f \in Tasks :
        step[f] \in {"read", "stored", "analyzed", "done"} =>
            \/ \A i \in DOMAIN disk[f] :
                  \E p \in points : p.file = f /\ p.value = disk[f][i].value
            \/ \E g \in Matches[f] \ {f} : disk[g] # <<>>

LEMMA FileSets ==
    /\ Tasks \subseteq Files /\ Requests \subseteq Files /\ Tasks \intersect Requests = {}
    /\ Contents \subseteq Seq(RowType)
    /\ Matches \in [Tasks -> SUBSET Files] /\ MaxTime \in Nat /\ MaxFaults \in Nat
BY SeriesAssumption DEF SeriesAssumption, Files

\* A step that neither parses nor drops points of a task, and saves no file.
LEMMA OwnRowsStay ==
    ASSUME TypeOK, OwnRows, NEW f \in Tasks,
           step'[f] \in {"read", "stored", "analyzed", "done"} =>
               /\ step[f] \in {"read", "stored", "analyzed", "done"} /\ disk'[f] = disk[f]
               /\ \A p \in points : p.file = f => p \in points',
           \A g \in Files : disk[g] # <<>> => disk'[g] # <<>>
    PROVE  step'[f] \in {"read", "stored", "analyzed", "done"} =>
             \/ \A i \in DOMAIN disk'[f] :
                  \E p \in points' : p.file = f /\ p.value = disk'[f][i].value
             \/ \E g \in Matches[f] \ {f} : disk'[g] # <<>>
<1>1. Matches[f] \subseteq Files
  BY FileSets
<1> QED
  BY <1>1 DEF OwnRows

LEMMA NextOwn ==
    TypeOK /\ InStep /\ OwnRows /\ [Next]_vars => InStep' /\ OwnRows'
<1> SUFFICES ASSUME TypeOK, InStep, OwnRows, [Next]_vars PROVE InStep' /\ OwnRows'
  OBVIOUS
<1> USE FileSets DEF files, history
<1> DEFINE Parsed == {"read", "stored", "analyzed", "done"}
           Kept(f) == step'[f] \in Parsed =>
                          /\ step[f] \in Parsed /\ disk'[f] = disk[f]
                          /\ \A p \in points : p.file = f => p \in points'
           Saved == \A g \in Files : disk[g] # <<>> => disk'[g] # <<>>
<1>1. ASSUME Saved, \A f \in Tasks : Kept(f) PROVE OwnRows'
  <2> SUFFICES ASSUME NEW f \in Tasks
      PROVE  step'[f] \in Parsed =>
             \/ \A i \in DOMAIN disk'[f] :
                  \E p \in points' : p.file = f /\ p.value = disk'[f][i].value
             \/ \E g \in Matches[f] \ {f} : disk'[g] # <<>>
    BY DEF OwnRows
  <2> QED
    BY <1>1, OwnRowsStay
<1>2. ASSUME NEW f \in Tasks, Receive(f) PROVE InStep' /\ OwnRows'
  <2>1. disk[f] = <<>> /\ \A p \in points : p.file # f
    BY <1>2 DEF Receive, InStep
  <2>2. /\ \A g \in Files : g # f => disk'[g] = disk[g] /\ step'[g] = step[g]
        /\ step'[f] = "received" /\ points' = points /\ home' = home
    BY <1>2 DEF Receive, TypeOK
  <2>3. InStep'
    BY <2>1, <2>2 DEF InStep, TypeOK, Points
  <2>4. Saved /\ \A g \in Tasks : Kept(g)
    BY <2>1, <2>2
  <2> QED
    BY <1>1, <2>3, <2>4
<1>3. ASSUME NEW f \in Tasks, Read(f) PROVE InStep' /\ OwnRows'
  <2>1. PICK g \in Found(f) : points' = points \union Stamped(f, disk[g], now + 1)
    BY <1>3 DEF Read
  <2>2. /\ now + 1 \in 0..MaxTime /\ g \in Matches[f] /\ g \in Files /\ f \in Files
        /\ disk[g] \in Seq(RowType) /\ disk[g] # <<>> /\ step[f] = "received"
    BY <1>3 DEF Read, Found, TypeOK
  <2>3. /\ \A h \in Files : h # f => step'[h] = step[h]
        /\ step'[f] = "read" /\ disk' = disk /\ home' = home
    BY <1>3 DEF Read, TypeOK
  <2> DEFINE new == Stamped(f, disk[g], now + 1)
  <2>4. /\ \A p \in new : p.file = f
        /\ \A i \in DOMAIN disk[g] : \E p \in new : p.file = f /\ p.value = disk[g][i].value
    <3>1. PICK c \in Seq(RowType), t \in 0..MaxTime : c = disk[g] /\ t = now + 1
      BY <2>2
    <3>2. /\ \A p \in Stamped(f, c, t) : p.file = f
          /\ \A i \in DOMAIN c : \E p \in Stamped(f, c, t) : p.file = f /\ p.value = c[i].value
      BY <2>2, SeriesAssumption, StampedPoints
    <3> QED
      BY <3>1, <3>2
  <2>5. InStep'
    BY <2>1, <2>2, <2>3, <2>4 DEF InStep, TypeOK, Points
  <2>6. OwnRows'
    <3> SUFFICES ASSUME NEW h \in Tasks, step'[h] \in Parsed
        PROVE  \/ \A i \in DOMAIN disk'[h] :
                  \E p \in points' : p.file = h /\ p.value = disk'[h][i].value
               \/ \E k \in Matches[h] \ {h} : disk'[k] # <<>>
      BY DEF OwnRows
    <3>1. CASE h # f
      BY <2>1, <2>3, <3>1 DEF OwnRows
    <3>2. CASE h = f /\ g = f
      BY <2>1, <2>3, <2>4, <3>2
    <3>3. CASE h = f /\ g # f
      BY <2>2, <2>3, <3>3
    <3> QED
      BY <3>1, <3>2, <3>3
  <2> QED
    BY <2>5, <2>6
<1>4. ASSUME NEW f \in Tasks, Fail(f) PROVE InStep' /\ OwnRows'
  <2>1. /\ \A g \in Files : g # f => step'[g] = step[g]
        /\ step'[f] = "failed" /\ disk' = disk /\ home' = home
        /\ points' \subseteq points /\ \A p \in points : p.file # f => p \in points'
    BY <1>4 DEF Fail, TypeOK
  <2>2. InStep'
    BY <2>1 DEF InStep, TypeOK, Points
  <2>3. Saved /\ \A g \in Tasks : Kept(g)
    BY <2>1
  <2> QED
    BY <1>1, <2>2, <2>3
<1>5. ASSUME NEW f \in Requests, Begin(f) PROVE InStep' /\ OwnRows'
  <2>1. PICK c \in Contents : /\ disk' = [disk EXCEPT ![f] = c]
                              /\ points' = points \union Dated(f, c, now + 1)
    BY <1>5 DEF Begin
  <2>2. now + 1 \in 0..MaxTime /\ f \in Files /\ c \in Seq(RowType)
    BY <1>5 DEF Begin, TypeOK
  <2>3. \A p \in Dated(f, c, now + 1) : p.file = f
    BY <2>2, SeriesAssumption, DatedPoints
  <2>4. /\ \A g \in Files : g # f => disk'[g] = disk[g] /\ step'[g] = step[g] /\ home'[g] = home[g]
        /\ step[f] = "none" /\ step'[f] = "stored" /\ f \notin Tasks
    BY <1>5, <2>1 DEF Begin, TypeOK
  <2>5. InStep'
    BY <2>1, <2>2, <2>3, <2>4 DEF InStep, TypeOK, Points
  <2>6. Saved /\ \A g \in Tasks : Kept(g)
    BY <2>1, <2>4 DEF InStep
  <2> QED
    BY <1>1, <2>5, <2>6
<1>6. ASSUME NEW f \in Requests, Undo(f) \/ Unanswered(f) PROVE InStep' /\ OwnRows'
  <2>1. /\ \A g \in Files : g # f => step'[g] = step[g]
        /\ step'[f] = "undone" /\ disk' = disk /\ home' = home /\ f \notin Tasks
        /\ points' \subseteq points /\ \A p \in points : p.file # f => p \in points'
    BY <1>6 DEF Undo, Unanswered, Rollback, TypeOK
  <2>2. InStep'
    BY <2>1 DEF InStep, TypeOK, Points
  <2>3. Saved /\ \A g \in Tasks : Kept(g)
    BY <2>1
  <2> QED
    BY <1>1, <2>2, <2>3
<1>7. ASSUME NEW f \in Files, NEW k \in Parsed \union {"judged"}, step[f] \in Parsed \union {"judged"},
             step' = [step EXCEPT ![f] = k], UNCHANGED <<disk, home, points>>
      PROVE  f \notin Tasks \/ step[f] \in Parsed => InStep' /\ OwnRows'
  <2>1. InStep'
    BY <1>7 DEF InStep, TypeOK, Points
  <2>2. f \notin Tasks \/ step[f] \in Parsed => Saved /\ \A g \in Tasks : Kept(g)
    BY <1>7 DEF TypeOK
  <2> QED
    BY <1>1, <2>1, <2>2
<1>8. ASSUME NEW f \in Tasks, Store(f) PROVE InStep' /\ OwnRows'
  BY <1>7, <1>8 DEF Store
<1>9. ASSUME NEW f \in Requests, Commit(f) PROVE InStep' /\ OwnRows'
  BY <1>7, <1>9 DEF Commit
<1>10. ASSUME NEW f \in Tasks \union Requests, Analyze(f) PROVE InStep' /\ OwnRows'
  BY <1>7, <1>10 DEF Analyze
<1>11. ASSUME NEW f \in Tasks \union Requests, Judge(f) PROVE InStep' /\ OwnRows'
  BY <1>7, <1>11 DEF Judge
<1>12. ASSUME NEW r \in Files, Delete(r) PROVE InStep' /\ OwnRows'
  <2>1. /\ \A g \in Files : g # r => step'[g] = step[g]
        /\ step'[r] = "deleted" /\ disk' = disk /\ home' = home
        /\ points' \subseteq points
        /\ \A p \in points : p.file \in Tasks \ {r} => p \in points'
    BY <1>12 DEF Delete, InStep, TypeOK
  <2>2. InStep'
    BY <2>1 DEF InStep, TypeOK, Points
  <2>3. Saved /\ \A g \in Tasks : Kept(g)
    BY <2>1
  <2> QED
    BY <1>1, <2>2, <2>3
<1>13. CASE UNCHANGED vars
  BY <1>13 DEF vars, InStep, OwnRows
<1> QED
  BY <1>2, <1>3, <1>4, <1>5, <1>6, <1>8, <1>9, <1>10, <1>11, <1>12, <1>13 DEF Next

LEMMA InitOwn == Init => InStep /\ OwnRows
<1> SUFFICES ASSUME Init PROVE InStep /\ OwnRows
  OBVIOUS
<1>1. PICK c \in Baselines :
         /\ disk = [f \in Files |-> IF f = Base THEN c ELSE <<>>]
         /\ points = Dated(Base, c, Start)
  BY DEF Init
<1>2. c \in Seq(RowType) /\ Base \in Files /\ Start \in 0..MaxTime /\ Base \notin Tasks
  BY SeriesAssumption DEF SeriesAssumption, Files
<1>3. \A p \in points : p.file = Base
  BY <1>1, <1>2, SeriesAssumption, DatedPoints
<1> QED
  BY <1>1, <1>2, <1>3, FileSets DEF Init, InStep, OwnRows

\* What a file has got to says what there is of it, and what a task has parsed.
THEOREM StepsAreKept == Spec => [](InStep /\ OwnRows)
BY SeriesTypeCorrect, InitOwn, NextOwn, PTL DEF Spec

\* The points of a report that Celery has parsed have the values of its own
\* attachment, unless its name finds another file as well.
THEOREM OwnDataIsKept == Spec => []OwnData
<1>1. OwnRows => OwnData
  BY DEF OwnRows, OwnData
<1> QED
  BY <1>1, StepsAreKept, PTL

-----------------------------------------------------------------------------
(* Alerts and their records *)

\* A file has one deviation at most, from the time it judges the series.
OneDeviation ==
    /\ \A d \in records : step[d.by] \in {"judged", "done", "deleted"}
    /\ \A d, e \in records : d.by = e.by => d = e
    /\ \A a \in alerts : a.by \in Requests
                          /\ step[a.by] \in {"judged", "done", "undone", "deleted"}

\* A step of a file that has not judged yet, or that commits, and sends nothing.
LEMMA QuietStep ==
    ASSUME TypeOK, OneDeviation, AlertHasRecord, NEW f \in Files,
           \A g \in Files : g # f => step'[g] = step[g] /\ home'[g] = home[g],
           \/ step[f] \in {"none", "received", "read", "stored", "analyzed"}
           \/ step[f] = "judged" /\ step'[f] = "done" /\ home' = home,
           records' = records, alerts' = alerts, faults' >= faults, faults' \in Int
    PROVE  OneDeviation' /\ AlertHasRecord'
<1>1. /\ \A d \in records : d.by \in Files
      /\ \A a \in alerts : a.by \in Files /\ home[a.by] \in Files
      /\ faults \in Int
  BY FileSets DEF TypeOK, Deviations
<1>2. OneDeviation'
  BY <1>1 DEF OneDeviation
<1>3. AlertHasRecord'
  <2> SUFFICES ASSUME NEW a \in alerts, a \notin records
               PROVE  \/ step'[a.by] = "undone" /\ (faults' > 0 \/ ~ a.finite)
                      \/ step'[home'[a.by]] = "deleted"
    BY DEF AlertHasRecord
  <2>1. home'[a.by] = home[a.by] /\ step[a.by] \in {"judged", "done", "undone", "deleted"}
    BY <1>1 DEF OneDeviation
  <2>2. CASE step[a.by] = "undone" /\ (faults > 0 \/ ~ a.finite)
    BY <1>1, <2>2
  <2>3. CASE step[home[a.by]] = "deleted"
    BY <1>1, <2>1, <2>3
  <2> QED
    BY <2>2, <2>3 DEF AlertHasRecord
<1> QED
  BY <1>2, <1>3

\* A judgement puts on record whatever it sends an alert about.
LEMMA JudgeRecords ==
    ASSUME TypeOK, OneDeviation, AlertHasRecord, NEW f \in Tasks \union Requests, Judge(f)
    PROVE  OneDeviation' /\ AlertHasRecord'
<1>1. /\ step[f] = "analyzed" /\ step'[f] \in {"judged", "done"} /\ f \in Files
      /\ f \in Requests => step'[f] = "judged"
      /\ \A g \in Files : g # f => step'[g] = step[g]
      /\ home' = home /\ faults' = faults /\ faults \in Int
  BY FileSets DEF Judge, TypeOK
<1>2. CASE UNCHANGED <<judged, records, alerts>>
  <2>1. faults' >= faults /\ faults' \in Int
    BY <1>1
  <2> QED
    BY <1>1, <1>2, <2>1, QuietStep
<1>3. CASE ~ UNCHANGED <<judged, records, alerts>>
  <2>1. PICK d : /\ d.by = f
                 /\ \/ records' = records \union {d} /\ alerts' = alerts \union {d} /\ f \in Requests
                    \/ records' = records \union {d} /\ alerts' = alerts
                    \/ records' = records /\ alerts' = alerts
    <3> DEFINE V == Visible(f)
               Sev(p) == Severity(p.value, V \ {p})
               Dev(p) == [by |-> f, point |-> p, severity |-> Sev(p),
                          finite |-> Sev(p) = "none" \/ Spread(V \ {p}) # 0]
    <3>1. PICK p \in Judged(f) :
                /\ records' = IF Sev(p) = "none" THEN records ELSE records \union {Dev(p)}
                /\ alerts' = IF f \in Requests /\ Sev(p) \in {"medium", "high"}
                             THEN alerts \union {Dev(p)} ELSE alerts
      BY <1>3 DEF Judge
    <3>2. Dev(p).by = f
      OBVIOUS
    <3> DEFINE d == Dev(p)
               sev == Sev(p)
    <3>3. /\ records' = IF sev = "none" THEN records ELSE records \union {d}
          /\ alerts' = IF f \in Requests /\ sev \in {"medium", "high"}
                       THEN alerts \union {d} ELSE alerts
      BY <3>1
    <3>4. d.by = f
      BY <3>2
    <3> HIDE DEF d, sev
    <3> QED
      BY <3>3, <3>4
  <2>2. /\ \A e \in records : e.by # f /\ e.by \in Files
        /\ \A a \in alerts : a.by # f /\ a.by \in Files /\ home[a.by] \in Files
    BY <1>1 DEF OneDeviation, TypeOK, Deviations
  <2>3. OneDeviation'
    BY <1>1, <2>1, <2>2 DEF OneDeviation
  <2>4. AlertHasRecord'
    <3> SUFFICES ASSUME NEW a \in alerts', a \notin records'
                 PROVE  \/ step'[a.by] = "undone" /\ (faults' > 0 \/ ~ a.finite)
                        \/ step'[home'[a.by]] = "deleted"
      BY DEF AlertHasRecord
    <3>1. a \in alerts /\ a \notin records
      BY <2>1
    <3>2. CASE step[a.by] = "undone" /\ (faults > 0 \/ ~ a.finite)
      BY <1>1, <2>2, <3>1, <3>2
    <3>3. CASE step[home[a.by]] = "deleted"
      BY <1>1, <2>2, <3>1, <3>3
    <3> QED
      BY <3>1, <3>2, <3>3 DEF AlertHasRecord
  <2> QED
    BY <2>3, <2>4
<1> QED
  BY <1>2, <1>3

\* What a rolled back request has sent is without a record because of a fault,
\* or because its own score cannot be written.
LEMMA RollbackRecords ==
    ASSUME TypeOK, OneDeviation, AlertHasRecord, NEW f \in Requests, Undo(f) \/ Unanswered(f)
    PROVE  OneDeviation' /\ AlertHasRecord'
<1>1. /\ step[f] \in {"stored", "analyzed", "judged"} /\ step'[f] = "undone" /\ f \in Files
      /\ \A g \in Files : g # f => step'[g] = step[g]
      /\ records' = {d \in records : d.by # f} /\ alerts' = alerts /\ home' = home
  BY FileSets DEF Undo, Unanswered, Rollback, Open, TypeOK
<1>2. /\ \A d \in records : d.by \in Files
      /\ \A a \in alerts : a.by \in Files /\ home[a.by] \in Files
      /\ faults \in Nat
  BY FileSets DEF TypeOK, Deviations
<1>3. OneDeviation'
  BY <1>1, <1>2 DEF OneDeviation
<1>4. faults' >= faults /\ faults' \in Nat
      /\ (Undo(f) => faults' > 0)
  BY <1>2 DEF Undo, Unanswered
<1>5. AlertHasRecord'
  <2> SUFFICES ASSUME NEW a \in alerts, a \notin records'
               PROVE  \/ step'[a.by] = "undone" /\ (faults' > 0 \/ ~ a.finite)
                      \/ step'[home[a.by]] = "deleted"
    BY <1>1 DEF AlertHasRecord
  <2>1. CASE a \in records
    <3>1. a.by = f
      BY <1>1, <2>1
    <3>2. CASE Undo(f)
      BY <1>1, <1>4, <3>1, <3>2
    <3>3. CASE Unanswered(f)
      <4>1. PICK d \in records : d.by = f /\ ~ d.finite
        BY <3>3 DEF Unanswered, Answerable
      <4>2. d = a
        BY <2>1, <3>1, <4>1 DEF OneDeviation
      <4> QED
        BY <1>1, <3>1, <4>1, <4>2
    <3> QED
      BY <3>2, <3>3
  <2>2. CASE a \notin records /\ step[a.by] = "undone" /\ (faults > 0 \/ ~ a.finite)
    BY <1>1, <1>2, <1>4, <2>2
  <2>3. CASE a \notin records /\ step[home[a.by]] = "deleted"
    BY <1>1, <1>2, <2>3
  <2> QED
    BY <2>1, <2>2, <2>3 DEF AlertHasRecord
<1> QED
  BY <1>3, <1>5

LEMMA DeleteRecords ==
    ASSUME TypeOK, OneDeviation, AlertHasRecord, NEW r \in Files, Delete(r)
    PROVE  OneDeviation' /\ AlertHasRecord'
<1>1. /\ step[r] \notin {"none", "undone", "deleted"} /\ step'[r] = "deleted"
      /\ \A g \in Files : g # r => step'[g] = step[g]
      /\ records' = {d \in records : d.by \notin {f \in Files : home[f] = r}}
      /\ alerts' = alerts /\ home' = home /\ faults' = faults + 1
  BY DEF Delete, Reports, TypeOK
<1>2. /\ \A d \in records : d.by \in Files
      /\ \A a \in alerts : a.by \in Files /\ home[a.by] \in Files
      /\ faults \in Nat
  BY FileSets DEF TypeOK, Deviations
<1>3. OneDeviation'
  BY <1>1, <1>2 DEF OneDeviation
<1>4. AlertHasRecord'
  BY <1>1, <1>2 DEF AlertHasRecord
<1> QED
  BY <1>3, <1>4

LEMMA NextRecords ==
    TypeOK /\ OneDeviation /\ AlertHasRecord /\ [Next]_vars => OneDeviation' /\ AlertHasRecord'
<1> SUFFICES ASSUME TypeOK, OneDeviation, AlertHasRecord, [Next]_vars
             PROVE  OneDeviation' /\ AlertHasRecord'
  OBVIOUS
<1>0. faults \in Int /\ MaxFaults \in Int
  BY FileSets DEF TypeOK
<1>1. ASSUME NEW f \in Files, \A g \in Files : g # f => step'[g] = step[g] /\ home'[g] = home[g],
             \/ step[f] \in {"none", "received", "read", "stored", "analyzed"}
             \/ step[f] = "judged" /\ step'[f] = "done" /\ home' = home,
             records' = records, alerts' = alerts, faults' \in {faults, faults + 1}
      PROVE  OneDeviation' /\ AlertHasRecord'
  <2>1. faults' >= faults /\ faults' \in Int
    BY <1>0, <1>1
  <2> QED
    BY <1>1, <2>1, QuietStep
<1>2. ASSUME NEW f \in Tasks, Receive(f) \/ Read(f) \/ Store(f) \/ Fail(f)
      PROVE  OneDeviation' /\ AlertHasRecord'
  <2>1. /\ f \in Files /\ \A g \in Files : g # f => step'[g] = step[g] /\ home'[g] = home[g]
        /\ step[f] \in {"none", "received", "read", "stored", "analyzed"}
        /\ records' = records /\ alerts' = alerts /\ faults' \in {faults, faults + 1}
    BY <1>2, FileSets DEF Receive, Read, Store, Fail, TypeOK
  <2> QED
    BY <1>1, <2>1
<1>3. ASSUME NEW f \in Requests, Begin(f) \/ Commit(f) PROVE OneDeviation' /\ AlertHasRecord'
  <2>1. CASE Begin(f)
    <3>1. /\ f \in Files /\ \A g \in Files : g # f => step'[g] = step[g] /\ home'[g] = home[g]
          /\ step[f] = "none"
          /\ records' = records /\ alerts' = alerts /\ faults' = faults
      BY <2>1, FileSets DEF Begin, TypeOK
    <3> QED
      BY <1>1, <3>1
  <2>2. CASE Commit(f)
    <3>1. /\ f \in Files /\ \A g \in Files : g # f => step'[g] = step[g] /\ home'[g] = home[g]
          /\ step[f] = "stored" \/ (step[f] = "judged" /\ step'[f] = "done" /\ home' = home)
          /\ records' = records /\ alerts' = alerts /\ faults' = faults
      BY <2>2, FileSets DEF Commit, TypeOK
    <3> QED
      BY <1>1, <3>1
  <2> QED
    BY <1>3, <2>1, <2>2
<1>4. ASSUME NEW f \in Tasks \union Requests, Analyze(f) PROVE OneDeviation' /\ AlertHasRecord'
  <2>1. /\ f \in Files /\ \A g \in Files : g # f => step'[g] = step[g] /\ home'[g] = home[g]
        /\ step[f] = "stored"
        /\ records' = records /\ alerts' = alerts /\ faults' = faults
    BY <1>4, FileSets DEF Analyze, TypeOK
  <2> QED
    BY <1>1, <2>1
<1>5. CASE UNCHANGED vars
  BY <1>5 DEF vars, files, history, OneDeviation, AlertHasRecord
<1> QED
  BY <1>2, <1>3, <1>4, <1>5, JudgeRecords, RollbackRecords, DeleteRecords DEF Next

\* Whoever was alerted finds the deviation on record, but for a deleted report
\* or a request that was rolled back after a failure or for that very score.
THEOREM AlertsHaveRecords == Spec => []AlertHasRecord
<1>1. Init => OneDeviation /\ AlertHasRecord
  BY DEF Init, OneDeviation, AlertHasRecord
<1> QED
  BY <1>1, SeriesTypeCorrect, NextRecords, PTL DEF Spec

-----------------------------------------------------------------------------
(* The last judgement *)

\* VerdictIsCurrent for the points S and the judgements J, where the files in
\* miss need not be part of the last one and the points in C were deleted.
Current(S, miss, J, C) ==
    LET core == {p \in S : p.file \notin miss} IN
    Cardinality(core) >= MinPoints =>
        \E p \in Newest(S) :
            \/ p.file \in miss
            \/ \E c \in C : c.time >= p.time
            \/ \E j \in J : j.point = p /\ core \subseteq j.seen

LEMMA FewerIsFewer ==
    ASSUME NEW S, IsFiniteSet(S), NEW T, T \subseteq S, Cardinality(T) >= MinPoints
    PROVE  Cardinality(S) >= MinPoints /\ T # {}
<1>1. /\ IsFiniteSet(T) /\ Cardinality(T) <= Cardinality(S)
      /\ Cardinality(T) \in Nat /\ Cardinality(S) \in Nat
  BY FS_Subset, FS_CardinalityType
<1>2. T # {}
  BY FS_EmptySet DEF MinPoints
<1> QED
  BY <1>1, <1>2 DEF MinPoints

\* Too few points need no judgement.
LEMMA FewAreCurrent ==
    ASSUME NEW S, IsFiniteSet(S), ~ (Cardinality(S) >= MinPoints), NEW miss, NEW J, NEW C
    PROVE  Current(S, miss, J, C)
<1>1. {p \in S : p.file \notin miss} \subseteq S
  OBVIOUS
<1> QED
  BY <1>1, FewerIsFewer DEF Current

\* A judgement that has seen every point is current.
LEMMA SeenIsCurrent ==
    ASSUME NEW S, NEW miss, NEW J, NEW C, NEW p \in Newest(S), NEW j \in J,
           j.point = p, j.seen = S
    PROVE  Current(S, miss, J, C)
BY DEF Current

\* A judgement that has seen more may replace another.
LEMMA ReplacedIsCurrent ==
    ASSUME NEW J, NEW J2, \A j \in J : \E k \in J2 : k.point = j.point /\ j.seen \subseteq k.seen,
           NEW C
    PROVE  \A S, miss : Current(S, miss, J, C) => Current(S, miss, J2, C)
<1> SUFFICES ASSUME NEW S, NEW miss, Current(S, miss, J, C) PROVE Current(S, miss, J2, C)
  OBVIOUS
<1> DEFINE core == {p \in S : p.file \notin miss}
<1> SUFFICES ASSUME Cardinality(core) >= MinPoints
    PROVE  \E p \in Newest(S) :
              \/ p.file \in miss
              \/ \E c \in C : c.time >= p.time
              \/ \E k \in J2 : k.point = p /\ core \subseteq k.seen
  BY DEF Current
<1>1. PICK p \in Newest(S) :
            \/ p.file \in miss
            \/ \E c \in C : c.time >= p.time
            \/ \E j \in J : j.point = p /\ core \subseteq j.seen
  BY DEF Current
<1> HIDE DEF core
<1>2. CASE \E j \in J : j.point = p /\ core \subseteq j.seen
  <2>1. PICK j \in J : j.point = p /\ core \subseteq j.seen
    BY <1>2
  <2>2. PICK k \in J2 : k.point = j.point /\ j.seen \subseteq k.seen
    BY <2>1
  <2> QED
    BY <2>1, <2>2
<1> QED
  BY <1>1, <1>2

\* It stays current while points are only deleted, more files may be missed
\* and no judgement goes that another does not replace.
LEMMA CurrentStays ==
    ASSUME NEW S, IsFiniteSet(S), \A p \in S : p.time \in Nat,
           NEW T, T \subseteq S, NEW miss, NEW miss2, NEW J, NEW J2, NEW C, NEW C2,
           \A p \in T : p.file \in miss => p.file \in miss2,
           \A j \in J : \E k \in J2 : k.point = j.point /\ j.seen \subseteq k.seen,
           C \subseteq C2, S \ T \subseteq C2,
           Current(S, miss, J, C)
    PROVE  Current(T, miss2, J2, C2)
<1> DEFINE core == {p \in S : p.file \notin miss}
           core2 == {p \in T : p.file \notin miss2}
<1> SUFFICES ASSUME Cardinality(core2) >= MinPoints
    PROVE  \E p \in Newest(T) :
              \/ p.file \in miss2
              \/ \E c \in C2 : c.time >= p.time
              \/ \E k \in J2 : k.point = p /\ core2 \subseteq k.seen
  BY DEF Current
<1>1. core2 \subseteq core /\ core2 \subseteq T /\ core \subseteq S
  OBVIOUS
<1>2. IsFiniteSet(core) /\ IsFiniteSet(T)
  BY <1>1, FS_Subset
<1>3. Cardinality(core) >= MinPoints /\ core2 # {}
  <2> HIDE DEF core, core2
  <2> QED
    BY <1>1, <1>2, FewerIsFewer
<1>4. PICK p \in Newest(S) :
            \/ p.file \in miss
            \/ \E c \in C : c.time >= p.time
            \/ \E j \in J : j.point = p /\ core \subseteq j.seen
  BY <1>3 DEF Current
<1>5. p \in S /\ \A q \in S : q.time <= p.time
  BY <1>4 DEF Newest
<1>6. CASE p \in T
  <2>1. p \in Newest(T)
    BY <1>5, <1>6 DEF Newest
  <2>2. CASE \E j \in J : j.point = p /\ core \subseteq j.seen
    BY <1>1, <2>1, <2>2
  <2> QED
    BY <1>4, <1>6, <2>1, <2>2
<1>7. CASE p \notin T
  <2>1. T # {} /\ \A q \in T : q.time \in Nat
    BY <1>1, <1>3
  <2>2. PICK n : n \in Newest(T)
    BY <1>2, <2>1, NewestExists
  <2>3. p \in C2 /\ p.time >= n.time
    BY <1>5, <1>7, <2>2 DEF Newest
  <2> QED
    BY <2>2, <2>3
<1> QED
  BY <1>6, <1>7

\* Points of files that may be missed can be added.
LEMMA MissedMayCome ==
    ASSUME NEW S, NEW A, IsFiniteSet(S \union A), \A p \in S \union A : p.time \in Nat,
           NEW miss, NEW miss2, NEW J, NEW C,
           \A p \in S : p.file \in miss => p.file \in miss2,
           \A p \in A : p.file \in miss2,
           Current(S, miss, J, C)
    PROVE  Current(S \union A, miss2, J, C)
<1> DEFINE core == {p \in S : p.file \notin miss}
           core2 == {p \in S \union A : p.file \notin miss2}
<1> SUFFICES ASSUME Cardinality(core2) >= MinPoints
    PROVE  \E p \in Newest(S \union A) :
              \/ p.file \in miss2
              \/ \E c \in C : c.time >= p.time
              \/ \E k \in J : k.point = p /\ core2 \subseteq k.seen
  BY DEF Current
<1>1. core2 \subseteq core /\ core \subseteq S \union A
  OBVIOUS
<1>2. IsFiniteSet(core)
  BY <1>1, FS_Subset
<1>3. Cardinality(core) >= MinPoints /\ core2 # {}
  <2> HIDE DEF core, core2
  <2> QED
    BY <1>1, <1>2, FewerIsFewer
<1>4. PICK p \in Newest(S) :
            \/ p.file \in miss
            \/ \E c \in C : c.time >= p.time
            \/ \E j \in J : j.point = p /\ core \subseteq j.seen
  BY <1>3 DEF Current
<1>5. PICK n : n \in Newest(S \union A)
  <2>1. S \union A # {}
    BY <1>1, <1>3
  <2> QED
    BY <2>1, NewestExists
<1>6. p \in S /\ n \in S \union A /\ (\A q \in S : q.time <= p.time)
      /\ (\A q \in S \union A : q.time <= n.time)
  BY <1>4, <1>5 DEF Newest
<1>7. CASE n \in A
  BY <1>5, <1>7
<1>8. CASE n \in S
  <2>1. n.time <= p.time
    BY <1>6, <1>8
  <2>2. \A q \in S \union A : q.time <= p.time
    BY <1>6, <2>1
  <2>3. p \in Newest(S \union A)
    BY <1>6, <2>2 DEF Newest
  <2>4. CASE \E j \in J : j.point = p /\ core \subseteq j.seen
    BY <1>1, <2>3, <2>4
  <2> QED
    BY <1>4, <1>6, <2>3, <2>4
<1> QED
  BY <1>6, <1>7, <1>8

\* Files whose points only they see: open requests, and tasks that have parsed
\* and not committed.
Hidden == Open \union {f \in Files : step[f] = "read"}

\* Committed points, which every transaction sees
Committed == {p \in points : p.file \notin Hidden}

\* Tasks that have stored their points and are still to judge the series
Owing == {f \in Tasks : step[f] \in {"stored", "analyzed"}}

\* The points there are when q has committed
With(q) == Committed \union {p \in points : p.file = q}

\* What is committed has been judged but for points still to be judged, and a
\* request that has judged has seen all that was committed before it commits,
\* uploaded histories as well.
Judgements ==
    /\ Current(Committed, Missed \union Owing, judged, cut)
    /\ \A q \in Requests :
         step[q] = "judged" /\ q \notin blind => Current(With(q), Unseen, judged, cut)

LEMMA PointSets ==
    ASSUME TypeOK, Finite
    PROVE  /\ IsFiniteSet(Committed) /\ \A p \in Committed : p.time \in Nat
           /\ \A q : IsFiniteSet(With(q)) /\ \A p \in With(q) : p.time \in Nat
           /\ \A p \in points : p.time \in Nat /\ p.file \in Files
<1>1. \A p \in points : p.time \in Nat /\ p.file \in Files
  BY FileSets DEF TypeOK, Points
<1>2. Committed \subseteq points /\ \A q : With(q) \subseteq points
  BY DEF Committed, With
<1> QED
  BY <1>1, <1>2, FS_Subset DEF Finite

\* A step that leaves committed points and judgements, after which no file is
\* missed less.
LEMMA SameJudgements ==
    ASSUME TypeOK, Finite, Judgements,
           Committed' = Committed, judged' = judged, cut' = cut,
           \A f \in Files : f \in Missed \union Owing => f \in Missed' \union Owing',
           \A f \in Files : f \in Unseen => f \in Unseen',
           \A q \in Requests : step'[q] = "judged" /\ q \notin blind' =>
               /\ step[q] = "judged" /\ q \notin blind
               /\ {p \in points' : p.file = q} = {p \in points : p.file = q}
    PROVE  Judgements'
<1> USE PointSets
<1>1. Current(Committed', Missed' \union Owing', judged', cut')
  <2>1. /\ \A p \in Committed : p.file \in Missed \union Owing => p.file \in Missed' \union Owing'
        /\ \A j \in judged : \E k \in judged : k.point = j.point /\ j.seen \subseteq k.seen
        /\ Committed \subseteq Committed /\ cut \subseteq cut /\ Committed \ Committed \subseteq cut
    BY DEF Committed
  <2>2. Current(Committed, Missed' \union Owing', judged, cut)
    BY <2>1, CurrentStays DEF Judgements
  <2> QED
    BY <2>2
<1>2. ASSUME NEW q \in Requests, step'[q] = "judged", q \notin blind'
      PROVE  Current(With(q)', Unseen', judged', cut')
  <2>1. With(q)' = With(q) /\ Current(With(q), Unseen, judged, cut)
    BY <1>2 DEF With, Judgements
  <2>2. /\ \A p \in With(q) : p.file \in Unseen => p.file \in Unseen'
        /\ \A j \in judged : \E k \in judged : k.point = j.point /\ j.seen \subseteq k.seen
        /\ With(q) \subseteq With(q) /\ cut \subseteq cut /\ With(q) \ With(q) \subseteq cut
    BY DEF With, Committed
  <2>3. Current(With(q), Unseen', judged, cut)
    BY <2>1, <2>2, CurrentStays
  <2> QED
    BY <2>1, <2>3
<1> QED
  BY <1>1, <1>2 DEF Judgements

\* What comes in or is rolled back is hidden; a task that fails is missed.
LEMMA HiddenStep ==
    ASSUME TypeOK, Finite, InStep, Judgements, NEW f \in Files,
           \/ f \in Tasks /\ (Receive(f) \/ Read(f) \/ Fail(f))
           \/ f \in Requests /\ (Begin(f) \/ Undo(f) \/ Unanswered(f))
           \/ Analyze(f)
    PROVE  Judgements'
<1> USE FileSets, PointSets DEF files, history
<1>1. /\ \A g \in Files : g # f => step'[g] = step[g]
      /\ judged' = judged /\ blind' = blind /\ cut' = cut /\ raw' = raw
      /\ \A p : p.file # f => (p \in points <=> p \in points')
  <2>1. CASE f \in Tasks /\ Read(f)
    <3>1. PICK g \in Found(f) : points' = points \union Stamped(f, disk[g], now + 1)
      BY <2>1 DEF Read
    <3>2. \A p \in Stamped(f, disk[g], now + 1) : p.file = f
      BY DEF Stamped, Point
    <3> QED
      BY <2>1, <3>1, <3>2 DEF Read, TypeOK
  <2>2. CASE f \in Requests /\ Begin(f)
    <3>1. PICK c \in Contents : points' = points \union Dated(f, c, now + 1)
      BY <2>2 DEF Begin
    <3>2. \A p \in Dated(f, c, now + 1) : p.file = f
      BY DEF Dated, Point
    <3> QED
      BY <2>2, <3>1, <3>2 DEF Begin, TypeOK
  <2>3. CASE f \in Tasks /\ (Receive(f) \/ Fail(f))
    BY <2>3 DEF Receive, Fail, TypeOK
  <2>4. CASE f \in Requests /\ (Undo(f) \/ Unanswered(f))
    BY <2>4 DEF Undo, Unanswered, Rollback, TypeOK
  <2>5. CASE Analyze(f)
    BY <2>5 DEF Analyze, TypeOK
  <2> QED
    BY <2>1, <2>2, <2>3, <2>4, <2>5
<1>2. /\ \A p : p.file = f =>
           (p \in points /\ f \notin Hidden <=> p \in points' /\ f \notin Hidden')
      /\ f \in Missed \union Owing => f \in Missed' \union Owing'
      /\ f \in Unseen => f \in Unseen'
      /\ step'[f] # "judged"
  <2>1. CASE f \in Tasks /\ Receive(f)
    BY <1>1, <2>1 DEF Receive, Hidden, Open, InStep, TypeOK, Unseen, Missed, Owing
  <2>2. CASE f \in Tasks /\ Read(f)
    BY <1>1, <2>2 DEF Read, Hidden, Open, InStep, TypeOK, Unseen, Missed, Owing
  <2>3. CASE f \in Tasks /\ Fail(f)
    BY <1>1, <2>3 DEF Fail, Hidden, Open, InStep, TypeOK, Unseen, Missed, Owing
  <2>4. CASE f \in Requests /\ Begin(f)
    BY <1>1, <2>4 DEF Begin, Hidden, Open, InStep, TypeOK, Unseen, Missed, Owing
  <2>5. CASE f \in Requests /\ (Undo(f) \/ Unanswered(f))
    BY <1>1, <2>5 DEF Undo, Unanswered, Rollback, Hidden, Open, InStep, TypeOK, Unseen, Missed, Owing
  <2>6. CASE Analyze(f)
    BY <1>1, <2>6 DEF Analyze, Hidden, Open, InStep, TypeOK, Unseen, Missed, Owing
  <2> QED
    BY <2>1, <2>2, <2>3, <2>4, <2>5, <2>6
<1>3. \A g \in Files : g # f => (g \in Hidden <=> g \in Hidden')
  BY <1>1 DEF Hidden, Open
<1>4. \A p \in points' : p.file \in Files
  <2>1. \A p \in points' : p.file # f => p \in points
    BY <1>1
  <2> QED
    BY <2>1
<1>5. Committed' = Committed
  BY <1>1, <1>2, <1>3, <1>4 DEF Committed
<1>6. /\ \A g \in Files : g \in Missed \union Owing => g \in Missed' \union Owing'
      /\ \A g \in Files : g \in Unseen => g \in Unseen'
  BY <1>1, <1>2 DEF Unseen, Missed, Owing
<1>7. ASSUME NEW q \in Requests, step'[q] = "judged", q \notin blind'
      PROVE  /\ step[q] = "judged" /\ q \notin blind
             /\ {p \in points' : p.file = q} = {p \in points : p.file = q}
  <2>1. q # f
    BY <1>2, <1>7
  <2> QED
    BY <1>1, <1>7, <2>1
<1> QED
  BY <1>1, <1>5, <1>6, <1>7, SameJudgements

\* What a task stores is still to be judged, and missed by open requests.
LEMMA StoreStep ==
    ASSUME TypeOK, Finite, Judgements, NEW f \in Tasks, Store(f)
    PROVE  Judgements'
<1> USE FileSets, PointSets
<1> DEFINE A == {p \in points : p.file = f}
<1>1. /\ step[f] = "read" /\ step' = [step EXCEPT ![f] = "stored"]
      /\ blind' = Crossed(f) /\ points' = points /\ judged' = judged /\ cut' = cut
      /\ raw' = raw /\ f \in Files /\ f \notin Requests
  BY DEF Store
<1>2. /\ \A g \in Files : g # f => step'[g] = step[g]
      /\ step'[f] = "stored"
  BY <1>1 DEF TypeOK
<1>3. Committed' = Committed \union A
  BY <1>1, <1>2 DEF Committed, Hidden, Open
<1>4. /\ \A p \in Committed : p.file \in Missed \union Owing => p.file \in Missed' \union Owing'
      /\ \A p \in A : p.file \in Missed' \union Owing'
  BY <1>1, <1>2 DEF Committed, Unseen, Missed, Owing, Crossed
<1>5. IsFiniteSet(Committed \union A) /\ \A p \in Committed \union A : p.time \in Nat
  <2>1. Committed \union A \subseteq points
    BY DEF Committed
  <2> QED
    BY <2>1, FS_Subset DEF Finite
<1>6. Current(Committed, Missed \union Owing, judged, cut)
  BY DEF Judgements
<1> HIDE DEF A
<1>7. Current(Committed \union A, Missed' \union Owing', judged, cut)
  BY <1>4, <1>5, <1>6, MissedMayCome
<1>8. ASSUME NEW q \in Requests, step'[q] = "judged", q \notin blind' PROVE FALSE
  <2>1. q \in Open \ {f}
    BY <1>1, <1>2, <1>8 DEF Open
  <2> QED
    BY <1>1, <1>8, <2>1 DEF Crossed
<1> QED
  BY <1>1, <1>3, <1>7, <1>8 DEF Judgements

\* A request that has seen everything, or is missed, commits; so is an upload.
LEMMA CommitStep ==
    ASSUME TypeOK, Finite, Judgements, NEW f \in Requests, Commit(f)
    PROVE  Judgements'
<1> USE FileSets, PointSets
<1> DEFINE A == {p \in points : p.file = f}
<1>1. /\ \/ step[f] = "judged" /\ raw' = IF f \in Crossed(f) THEN raw ELSE {}
         \/ step[f] = "stored" /\ raw' = raw \union {f}
      /\ step' = [step EXCEPT ![f] = "done"]
      /\ blind' = Crossed(f) /\ points' = points /\ judged' = judged /\ cut' = cut
      /\ f \in Files /\ f \in Open
  BY DEF Commit, Open
<1>2. /\ \A g \in Files : g # f => step'[g] = step[g]
      /\ step'[f] = "done"
  BY <1>1 DEF TypeOK
<1>3. Committed' = Committed \union A /\ With(f) = Committed \union A
  BY <1>1, <1>2 DEF Committed, Hidden, Open, With
<1>4. /\ Unseen \subseteq Unseen' /\ Owing \subseteq Owing'
      /\ raw \subseteq raw' => Missed \union Owing \subseteq Missed' \union Owing'
  BY <1>1, <1>2 DEF Unseen, Missed, Owing, Crossed
<1>5. IsFiniteSet(Committed \union A) /\ \A p \in Committed \union A : p.time \in Nat
  BY <1>3
<1>6. Current(Committed \union A, Missed' \union Owing', judged, cut)
  <2>1. CASE f \in blind' \/ step[f] = "stored"
    <3>1. raw \subseteq raw' /\ \A p \in A : p.file \in Missed' \union Owing'
      BY <1>1, <2>1 DEF Missed, Unseen
    <3>2. Current(Committed, Missed \union Owing, judged, cut)
      BY DEF Judgements
    <3> HIDE DEF A
    <3> QED
      BY <1>4, <1>5, <3>1, <3>2, MissedMayCome
  <2>2. CASE f \notin blind' /\ step[f] = "judged"
    <3>1. f \notin blind
      BY <1>1, <2>2 DEF Crossed
    <3>2. Current(Committed \union A, Unseen, judged, cut)
      BY <1>3, <2>2, <3>1 DEF Judgements
    <3>3. /\ \A p \in Committed \union A : p.file \in Unseen => p.file \in Missed' \union Owing'
          /\ \A j \in judged : \E k \in judged : k.point = j.point /\ j.seen \subseteq k.seen
          /\ cut \subseteq cut /\ (Committed \union A) \ (Committed \union A) \subseteq cut
      BY <1>4 DEF Missed
    <3> HIDE DEF A
    <3> QED
      BY <1>5, <3>2, <3>3, CurrentStays
  <2> QED
    BY <1>1, <2>1, <2>2
<1>7. ASSUME NEW q \in Requests, step'[q] = "judged", q \notin blind' PROVE FALSE
  <2>1. q \in Open \ {f}
    BY <1>1, <1>2, <1>7 DEF Open
  <2> QED
    BY <1>1, <1>7, <2>1 DEF Crossed
<1> QED
  BY <1>1, <1>3, <1>6, <1>7 DEF Judgements

\* A judgement that finds enough points is one of all its file sees.
LEMMA JudgeSeesAll ==
    ASSUME TypeOK, Finite, NEW f \in Tasks \union Requests, Judge(f), NEW miss
    PROVE  /\ Current(Visible(f), miss, judged', cut)
           /\ \A j \in judged : \E k \in judged' : k.point = j.point /\ j.seen \subseteq k.seen
<1> DEFINE V == Visible(f)
<1>0. IsFiniteSet(V) /\ \A p \in V : p.time \in Nat
  <2>1. V \subseteq points
    BY DEF Visible
  <2> QED
    BY <2>1, PointSets, FS_Subset DEF Finite
<1>1. CASE ~ (Cardinality(V) >= MinPoints)
  <2>1. Cardinality(V) < MinPoints
    BY <1>0, <1>1, FS_CardinalityType DEF MinPoints
  <2>2. judged' = judged
    BY <2>1 DEF Judge
  <2> QED
    BY <1>0, <1>1, <2>2, FewAreCurrent
<1>2. CASE Cardinality(V) >= MinPoints
  <2>1. Judged(f) # {} /\ ~ (Cardinality(V) < MinPoints)
    <3>1. V # {}
      BY <1>0, <1>2, FewerIsFewer
    <3>2. Newest(V) # {}
      BY <1>0, <3>1, NewestExists
    <3>3. Cardinality(V) \in Nat
      BY <1>0, FS_CardinalityType
    <3> QED
      BY <1>2, <3>2, <3>3 DEF Judged, MinPoints
  <2>2. PICK p \in Newest(V) :
           judged' = {j \in judged : ~ (j.point = p /\ j.seen \subseteq V)}
                        \union {[point |-> p, severity |-> Severity(p.value, V \ {p}), seen |-> V]}
    BY <2>1 DEF Judge, Judged
  <2> DEFINE new == [point |-> p, severity |-> Severity(p.value, V \ {p}), seen |-> V]
  <2>3. new \in judged' /\ new.point = p /\ new.seen = V
    BY <2>2
  <2>4. \A j \in judged : j \in judged' \/ (new.point = j.point /\ j.seen \subseteq new.seen)
    BY <2>2, <2>3
  <2> HIDE DEF new
  <2>5. Current(V, miss, judged', cut)
    BY <2>2, <2>3, SeenIsCurrent
  <2> QED
    BY <2>3, <2>4, <2>5
<1> QED
  BY <1>1, <1>2

LEMMA JudgeStep ==
    ASSUME TypeOK, Finite, Judgements, NEW f \in Tasks \union Requests, Judge(f)
    PROVE  Judgements'
<1> USE FileSets, PointSets
<1>1. /\ step[f] = "analyzed" /\ f \in Files
      /\ step'[f] = IF f \in Requests THEN "judged" ELSE "done"
      /\ \A g \in Files : g # f => step'[g] = step[g]
      /\ points' = points /\ blind' = blind /\ cut' = cut
      /\ f \in Requests => raw' = raw
  BY DEF Judge, TypeOK
<1>2. Committed' = Committed /\ Unseen' = Unseen /\ \A q \in Requests : With(q)' = With(q)
  BY <1>1 DEF Committed, Hidden, Open, With, Unseen
<1>3. /\ f \in Tasks => Visible(f) = Committed /\ f \notin Requests
      /\ f \in Requests => Visible(f) = With(f) /\ Missed' = Missed /\ Owing' = Owing
  BY <1>1, <1>2 DEF Committed, Hidden, Open, With, Visible, Missed, Owing
<1>4. \A miss : Current(Visible(f), miss, judged', cut)
  BY JudgeSeesAll
<1>5. \A j \in judged : \E k \in judged' : k.point = j.point /\ j.seen \subseteq k.seen
  BY JudgeSeesAll
<1>6. \A S, miss : Current(S, miss, judged, cut) => Current(S, miss, judged', cut)
  BY <1>5, ReplacedIsCurrent
<1>7. Current(Committed, Missed' \union Owing', judged', cut)
  <2>1. CASE f \in Tasks
    BY <1>3, <1>4, <2>1
  <2>2. CASE f \in Requests
    BY <1>3, <1>6, <2>2 DEF Judgements
  <2> QED
    BY <2>1, <2>2
<1>8. ASSUME NEW q \in Requests, step'[q] = "judged", q \notin blind
      PROVE  Current(With(q), Unseen, judged', cut)
  <2>1. CASE q = f
    BY <1>3, <1>4, <2>1
  <2>2. CASE q # f
    BY <1>1, <1>6, <1>8, <2>2 DEF Judgements
  <2> QED
    BY <2>1, <2>2
<1> QED
  BY <1>1, <1>2, <1>7, <1>8 DEF Judgements

\* What is deleted with a report is as new as what is judged in its place.
LEMMA DeleteStep ==
    ASSUME TypeOK, Finite, Judgements, NEW r \in Files, Delete(r)
    PROVE  Judgements'
<1> USE FileSets, PointSets
<1> DEFINE its == {f \in Files : home[f] = r}
<1>1. /\ \A g \in Files : g # r => step'[g] = step[g]
      /\ step'[r] = "deleted" /\ r \in its /\ its \intersect Open = {}
      /\ cut' = cut \union {p \in points : p.file \in its /\ step[p.file] # "read"}
      /\ points' = {p \in points : p.file \notin its}
      /\ judged' = judged /\ blind' = blind /\ raw' = raw
  BY DEF Delete, Reports, TypeOK
<1> HIDE DEF its
<1>2. /\ Committed' \subseteq Committed /\ Committed \ Committed' \subseteq cut'
      /\ \A p \in Committed' : p.file \in Files /\ p.file # r
  BY <1>1 DEF Committed, Hidden, Open
<1>3. \A g \in Files : g # r =>
         /\ g \in Unseen => g \in Unseen'
         /\ g \in Missed \union Owing => g \in Missed' \union Owing'
  BY <1>1 DEF Unseen, Missed, Owing
<1>4. /\ \A j \in judged : \E k \in judged : k.point = j.point /\ j.seen \subseteq k.seen
      /\ cut \subseteq cut'
  BY <1>1
<1>5. Current(Committed', Missed' \union Owing', judged, cut')
  <2>1. \A p \in Committed' : p.file \in Missed \union Owing => p.file \in Missed' \union Owing'
    BY <1>2, <1>3
  <2>2. Current(Committed, Missed \union Owing, judged, cut)
    BY DEF Judgements
  <2> QED
    BY <1>2, <1>4, <2>1, <2>2, CurrentStays
<1>6. ASSUME NEW q \in Requests, step'[q] = "judged", q \notin blind
      PROVE  Current(With(q)', Unseen', judged, cut')
  <2>1. q # r /\ step[q] = "judged" /\ q \in Open /\ q \notin its
    BY <1>1, <1>6 DEF Open
  <2>2. /\ With(q)' \subseteq With(q) /\ With(q) \ With(q)' \subseteq cut'
        /\ \A p \in With(q)' : p.file \in Files /\ p.file # r
    BY <1>1, <1>2, <2>1 DEF With
  <2>3. \A p \in With(q)' : p.file \in Unseen => p.file \in Unseen'
    BY <1>3, <2>2
  <2>4. Current(With(q), Unseen, judged, cut)
    BY <1>6, <2>1 DEF Judgements
  <2> QED
    BY <1>4, <2>2, <2>3, <2>4, CurrentStays
<1> QED
  BY <1>1, <1>5, <1>6 DEF Judgements

LEMMA NextJudgements ==
    TypeOK /\ Finite /\ InStep /\ Judgements /\ [Next]_vars => Judgements'
<1> SUFFICES ASSUME TypeOK, Finite, InStep, Judgements, [Next]_vars PROVE Judgements'
  OBVIOUS
<1> USE FileSets
<1>1. CASE UNCHANGED vars
  BY <1>1 DEF vars, files, history, Judgements, Committed, Hidden, Open, With, Unseen, Missed, Owing
<1>2. CASE \E f \in Tasks : Receive(f) \/ Read(f) \/ Fail(f)
  BY <1>2, HiddenStep
<1>3. CASE \E f \in Requests : Begin(f) \/ Undo(f) \/ Unanswered(f)
  BY <1>3, HiddenStep
<1>4. CASE \E f \in Tasks \union Requests : Analyze(f)
  BY <1>4, HiddenStep
<1> QED
  BY <1>1, <1>2, <1>3, <1>4, StoreStep, CommitStep, JudgeStep, DeleteStep DEF Next

LEMMA InitJudgements == Init => Judgements
<1> SUFFICES ASSUME Init PROVE Judgements
  OBVIOUS
<1>1. PICK c \in Baselines : points = Dated(Base, c, Start)
  BY DEF Init
<1>2. \A p \in points : p.file = Base
  BY <1>1, SeriesAssumption, DatedPoints DEF SeriesAssumption, Files
<1>3. {p \in Committed : p.file \notin Missed \union Owing} = {}
  BY <1>2 DEF Init, Committed, Missed
<1>4. ~ (Cardinality({p \in Committed : p.file \notin Missed \union Owing}) >= MinPoints)
  BY <1>3, FS_EmptySet DEF MinPoints
<1>5. Current(Committed, Missed \union Owing, judged, cut)
  BY <1>4 DEF Current
<1>6. \A q \in Requests : step[q] # "judged"
  BY FileSets DEF Init
<1> QED
  BY <1>5, <1>6 DEF Judgements

\* At rest every point is committed and no task owes a judgement.
LEMMA RestIsCurrent == TypeOK /\ Judgements => VerdictIsCurrent
<1> SUFFICES ASSUME TypeOK, Judgements, AtRest PROVE VerdictIsCurrent
  BY DEF VerdictIsCurrent
<1>1. Hidden = {} /\ Owing = {}
  BY FileSets DEF AtRest, Hidden, Open, Owing
<1>2. Committed = points /\ Missed \union Owing = Missed
  BY <1>1 DEF Committed
<1> QED
  BY <1>2 DEF Judgements, Current, VerdictIsCurrent

\* When nothing is under way, the newest point has been compared with all the
\* others, but for files that were missed or points deleted since.
THEOREM VerdictStaysCurrent == Spec => []VerdictIsCurrent
BY SeriesTypeCorrect, StepsAreKept, InitJudgements, NextJudgements, RestIsCurrent, PTL DEF Spec

-----------------------------------------------------------------------------
(***************************************************************************)
(* Sums                                                                    *)
(*                                                                         *)
(* MapThenSumSet is a recursive function over the subsets of its argument. *)
(* That there is such a function, and what it sums to, goes by induction   *)
(* over finite sets: a set of subsets that fail has a smallest one, and    *)
(* the subset with one point less does not fail.                           *)
(***************************************************************************)

LEMMA SmallestSubset ==
    ASSUME NEW H, IsFiniteSet(H), NEW Bad \in SUBSET (SUBSET H), Bad # {}
    PROVE  \E T \in Bad : \A U \in SUBSET T : U # T => U \notin Bad
<1>1. IsWellFoundedOn(StrictSubsetOrdering(H), SUBSET H)
  BY FS_StrictSubsetOrderingWellFounded, FS_FiniteSubsetsOfFinite
<1>2. PICK T \in Bad : \A U \in Bad : ~ (<<U, T>> \in StrictSubsetOrdering(H))
  BY <1>1, WFMin
<1> QED
  BY <1>2 DEF StrictSubsetOrdering

AnyOf(s) == CHOOSE x \in s : TRUE

\* The sum of w over the subsets of H, one point after the other
Sums(H, w) ==
    {g \in [SUBSET H -> Int] :
        \A s \in SUBSET H :
            g[s] = IF s = {} THEN 0 ELSE w[AnyOf(s)] + g[s \ {AnyOf(s)}]}

\* One point less
LEMMA OnePointLess ==
    ASSUME NEW H, IsFiniteSet(H), NEW s \in SUBSET H, s # {}
    PROVE  /\ AnyOf(s) \in s /\ AnyOf(s) \in H
           /\ s \ {AnyOf(s)} \in SUBSET H
           /\ IsFiniteSet(s) /\ IsFiniteSet(s \ {AnyOf(s)})
           /\ Cardinality(s) \in Nat /\ Cardinality(s \ {AnyOf(s)}) \in Nat
           /\ Cardinality(s) = Cardinality(s \ {AnyOf(s)}) + 1
<1>1. AnyOf(s) \in s
  BY DEF AnyOf
<1>2. IsFiniteSet(s)
  BY FS_Subset
<1>3. PICK x \in s : x = AnyOf(s)
  BY <1>1
<1>4. /\ IsFiniteSet(s \ {x}) /\ Cardinality(s) \in Nat /\ Cardinality(s \ {x}) \in Nat
      /\ Cardinality(s \ {x}) = Cardinality(s) - 1
  BY <1>2, FS_RemoveElement, FS_CardinalityType
<1> QED
  BY <1>1, <1>2, <1>3, <1>4

LEMMA SumsExist ==
    ASSUME NEW H, IsFiniteSet(H), NEW w \in [H -> Int]
    PROVE  Sums(H, w) # {}
<1> DEFINE Fold(g) == [s \in SUBSET H |-> IF s = {} THEN 0 ELSE w[AnyOf(s)] + g[s \ {AnyOf(s)}]]
           UpTo(T) == {g \in [SUBSET H -> Int] :
                          \A s \in SUBSET H : Cardinality(s) <= Cardinality(T) => g[s] = Fold(g)[s]}
           Bad == {T \in SUBSET H : UpTo(T) = {}}
<1>1. Bad = {}
  <2>1. SUFFICES ASSUME Bad # {} PROVE FALSE
    OBVIOUS
  <2>2. PICK T \in Bad : \A U \in SUBSET T : U # T => U \notin Bad
    <3> Bad \in SUBSET (SUBSET H)
      OBVIOUS
    <3> HIDE DEF Bad
    <3> QED
      BY <2>1, SmallestSubset
  <2>3. T \in SUBSET H /\ UpTo(T) = {}
    BY <2>2
  <2>4. CASE T = {}
    <3> DEFINE z == [s \in SUBSET H |-> 0]
    <3>1. \A s \in SUBSET H : Cardinality(s) <= Cardinality(T) => s = {}
      BY <2>4, FS_EmptySet, FS_Subset, FS_CardinalityType
    <3>2. z \in UpTo(T)
      BY <3>1
    <3> QED
      BY <2>3, <3>2
  <2>5. CASE T # {}
    <3> DEFINE U == T \ {AnyOf(T)}
    <3>1. U \in SUBSET T /\ U # T /\ U \in SUBSET H /\ Cardinality(T) = Cardinality(U) + 1
          /\ Cardinality(U) \in Nat
      BY <2>3, <2>5, OnePointLess
    <3>2. U \notin Bad
      BY <2>2, <3>1
    <3>3. PICK g \in [SUBSET H -> Int] :
             \A s \in SUBSET H : Cardinality(s) <= Cardinality(U) => g[s] = Fold(g)[s]
      BY <3>1, <3>2
    <3>4. \A s \in SUBSET H : s # {} => AnyOf(s) \in H /\ s \ {AnyOf(s)} \in SUBSET H
      BY OnePointLess
    <3>5. Fold(g) \in [SUBSET H -> Int]
      BY <3>3, <3>4
    <3>6. ASSUME NEW s \in SUBSET H, Cardinality(s) <= Cardinality(T)
          PROVE  Fold(g)[s] = Fold(Fold(g))[s]
      <4>1. CASE s = {}
        BY <4>1
      <4>2. CASE s # {}
        <5>1. s \ {AnyOf(s)} \in SUBSET H /\ Cardinality(s \ {AnyOf(s)}) <= Cardinality(U)
          <6>1. Cardinality(s) = Cardinality(s \ {AnyOf(s)}) + 1 /\ Cardinality(s \ {AnyOf(s)}) \in Nat
                /\ s \ {AnyOf(s)} \in SUBSET H
            BY <4>2, OnePointLess
          <6> HIDE DEF U
          <6> QED
            BY <3>1, <3>6, <6>1
        <5>2. g[s \ {AnyOf(s)}] = Fold(g)[s \ {AnyOf(s)}]
          BY <3>3, <5>1
        <5>3. Fold(g)[s] = w[AnyOf(s)] + g[s \ {AnyOf(s)}]
          BY <4>2
        <5>4. Fold(Fold(g))[s] = w[AnyOf(s)] + Fold(g)[s \ {AnyOf(s)}]
          BY <4>2
        <5> QED
          BY <5>2, <5>3, <5>4
      <4> QED
        BY <4>1, <4>2
    <3>7. Fold(g) \in UpTo(T)
      <4>1. \A s \in SUBSET H : Cardinality(s) <= Cardinality(T) => Fold(g)[s] = Fold(Fold(g))[s]
        BY <3>6
      <4> HIDE DEF Fold
      <4> QED
        BY <3>5, <4>1
    <3> QED
      BY <2>3, <3>7
  <2> QED
    BY <2>4, <2>5
<1>2. PICK g \in [SUBSET H -> Int] :
         \A s \in SUBSET H : Cardinality(s) <= Cardinality(H) => g[s] = Fold(g)[s]
  <2>1. H \in SUBSET H
    OBVIOUS
  <2>2. UpTo(H) # {}
    BY <1>1, <2>1
  <2> HIDE DEF Fold
  <2> QED
    BY <2>2
<1>3. \A s \in SUBSET H : g[s] = Fold(g)[s]
  BY <1>2, FS_Subset
<1>4. g \in Sums(H, w)
  BY <1>3 DEF Sums
<1> QED
  BY <1>4

\* A function that satisfies the equation of a fold has integer values.
LEMMA FoldIsSum ==
    ASSUME NEW H, IsFiniteSet(H), NEW w \in [H -> Int], NEW g,
           g = [s \in SUBSET H |-> IF s = {} THEN 0 ELSE w[AnyOf(s)] + g[s \ {AnyOf(s)}]]
    PROVE  g \in Sums(H, w)
<1> DEFINE Bad == {T \in SUBSET H : g[T] \notin Int}
<1>1. \A s \in SUBSET H : g[s] = IF s = {} THEN 0 ELSE w[AnyOf(s)] + g[s \ {AnyOf(s)}]
  OBVIOUS
<1>2. Bad = {}
  <2>1. SUFFICES ASSUME Bad # {} PROVE FALSE
    OBVIOUS
  <2>2. PICK T \in Bad : \A U \in SUBSET T : U # T => U \notin Bad
    <3> Bad \in SUBSET (SUBSET H)
      OBVIOUS
    <3> HIDE DEF Bad
    <3> QED
      BY <2>1, SmallestSubset
  <2>3. T \in SUBSET H /\ g[T] \notin Int
    BY <2>2
  <2>4. T # {}
    BY <1>1, <2>3
  <2>5. AnyOf(T) \in T /\ T \ {AnyOf(T)} \in SUBSET H
    BY <2>3, <2>4, OnePointLess
  <2>6. g[T \ {AnyOf(T)}] \in Int
    BY <2>2, <2>5
  <2>7. w[AnyOf(T)] \in Int
    BY <2>3, <2>5
  <2>8. g[T] = w[AnyOf(T)] + g[T \ {AnyOf(T)}]
    BY <1>1, <2>3, <2>4
  <2> QED
    BY <2>3, <2>6, <2>7, <2>8
<1>3. g \in [SUBSET H -> Int]
  BY <1>2
<1> QED
  BY <1>1, <1>3 DEF Sums

LEMMA ValuesSum ==
    ASSUME NEW H, IsFiniteSet(H), NEW w \in [H -> Int], \A p \in H : w[p] = p.value
    PROVE  \E g \in Sums(H, w) : MapThenSumSet(Value, H) = g[H]
<1> DEFINE Fold(g) == [s \in SUBSET H |-> IF s = {} THEN 0 ELSE w[AnyOf(s)] + g[s \ {AnyOf(s)}]]
           Summing(g) == [s \in SUBSET H |->
                            IF s = {} THEN 0
                            ELSE Value(CHOOSE x \in s : TRUE) + g[s \ {CHOOSE x \in s : TRUE}]]
           it == CHOOSE g : g = Summing(g)
<1>1. \A g : Summing(g) = Fold(g)
  <2>1. ASSUME NEW s \in SUBSET H, s # {} PROVE Value(CHOOSE x \in s : TRUE) = w[AnyOf(s)]
    BY <2>1 DEF AnyOf, Value
  <2> QED
    BY <2>1 DEF AnyOf
<1>2. \E g : g = Fold(g)
  <2>1. PICK g : g \in Sums(H, w)
    BY SumsExist
  <2>2. g = Fold(g)
    BY <2>1 DEF Sums
  <2> QED
    BY <2>2
<1>3. it = Summing(it)
  <2>1. \E g : g = Summing(g)
    <3>1. PICK g : g = Fold(g)
      BY <1>2
    <3>2. Fold(g) = Summing(g)
      BY <1>1
    <3> HIDE DEF Fold, Summing
    <3> QED
      BY <3>1, <3>2
  <2> HIDE DEF Summing
  <2> QED
    BY <2>1
<1>4. MapThenSumSet(Value, H) = it[H]
  BY DEF MapThenSumSet, MapThenFoldSet
<1>5. it = Fold(it)
  BY <1>1, <1>3
<1>6. it \in Sums(H, w)
  <2> HIDE DEF it
  <2> QED
    BY <1>5, FoldIsSum
<1> QED
  BY <1>4, <1>6

LEMMA SquaresSum ==
    ASSUME NEW H, IsFiniteSet(H), NEW w \in [H -> Int], \A p \in H : w[p] = p.value * p.value
    PROVE  \E g \in Sums(H, w) : MapThenSumSet(Square, H) = g[H]
<1> DEFINE Fold(g) == [s \in SUBSET H |-> IF s = {} THEN 0 ELSE w[AnyOf(s)] + g[s \ {AnyOf(s)}]]
           Summing(g) == [s \in SUBSET H |->
                            IF s = {} THEN 0
                            ELSE Square(CHOOSE x \in s : TRUE) + g[s \ {CHOOSE x \in s : TRUE}]]
           it == CHOOSE g : g = Summing(g)
<1>1. \A g : Summing(g) = Fold(g)
  <2>1. ASSUME NEW s \in SUBSET H, s # {} PROVE Square(CHOOSE x \in s : TRUE) = w[AnyOf(s)]
    BY <2>1 DEF AnyOf, Square
  <2> QED
    BY <2>1 DEF AnyOf
<1>2. \E g : g = Fold(g)
  <2>1. PICK g : g \in Sums(H, w)
    BY SumsExist
  <2>2. g = Fold(g)
    BY <2>1 DEF Sums
  <2> QED
    BY <2>2
<1>3. it = Summing(it)
  <2>1. \E g : g = Summing(g)
    <3>1. PICK g : g = Fold(g)
      BY <1>2
    <3>2. Fold(g) = Summing(g)
      BY <1>1
    <3> HIDE DEF Fold, Summing
    <3> QED
      BY <3>1, <3>2
  <2> HIDE DEF Summing
  <2> QED
    BY <2>1
<1>4. MapThenSumSet(Square, H) = it[H]
  BY DEF MapThenSumSet, MapThenFoldSet
<1>5. it = Fold(it)
  BY <1>1, <1>3
<1>6. it \in Sums(H, w)
  <2> HIDE DEF it
  <2> QED
    BY <1>5, FoldIsSum
<1> QED
  BY <1>4, <1>6

-----------------------------------------------------------------------------
(* Usual values *)

\* Integers
LEMMA Squares == \A x \in Int : x * x \in Nat
  OBVIOUS

LEMMA SquareGrows ==
    ASSUME NEW r \in Nat, NEW q \in Nat, NEW d \in Int, NEW y \in Int, d * d <= r * q
    PROVE  (d + y) * (d + y) <= (r + 1) * (q + y * y)
<1> DEFINE z == q + r * (y * y) - 2 * (d * y)
<1>1. z \in Int
  OBVIOUS
<1>2. z >= 0
  <2>1. CASE r = 0
    <3>1. r * q = 0
      BY <2>1
    <3>2. d = 0
      BY <3>1
    <3>3. d * y = 0 /\ r * (y * y) = 0
      BY <2>1, <3>2
    <3> QED
      BY <3>3
  <2>2. CASE r > 0
    <3>1. (d - r * y) * (d - r * y) >= 0
      <4>1. d - r * y \in Int
        OBVIOUS
      <4> QED
        BY <4>1, Squares
    <3>2. (d - r * y) * (d - r * y) = d * d - 2 * (r * (d * y)) + r * (r * (y * y))
      OBVIOUS
    <3>3. r * z = r * q + r * (r * (y * y)) - 2 * (r * (d * y))
      OBVIOUS
    <3>4. r * z >= 0
      BY <3>1, <3>2, <3>3
    <3> HIDE DEF z
    <3> QED
      BY <1>1, <2>2, <3>4
  <2> QED
    BY <2>1, <2>2
<1>3. (d + y) * (d + y) = d * d + 2 * (d * y) + y * y
  OBVIOUS
<1>4. (r + 1) * (q + y * y) = r * q + r * (y * y) + q + y * y
  OBVIOUS
<1> QED
  BY <1>2, <1>3, <1>4

\* Of n numbers k are v: how far the others can be from v on the average.
LEMMA UsualIsNear ==
    ASSUME NEW H, IsFiniteSet(H), NEW v \in Int,
           NEW w \in [H -> Int], NEW u \in [H -> Int], \A p \in H : u[p] = w[p] * w[p],
           NEW a \in Sums(H, w), NEW b \in Sums(H, u)
    PROVE  \A T \in SUBSET H :
              LET n == Cardinality(T)
                  k == Cardinality({p \in T : w[p] = v})
                  q == b[T] - 2 * (v * a[T]) + n * (v * v)
                  d == a[T] - n * v
              IN  k <= n /\ q >= 0 /\ d * d <= (n - k) * q
<1> DEFINE n(T) == Cardinality(T)
           Same(T) == {p \in T : w[p] = v}
           k(T) == Cardinality(Same(T))
           q(T) == b[T] - 2 * (v * a[T]) + n(T) * (v * v)
           d(T) == a[T] - n(T) * v
           Holds(T) == k(T) <= n(T) /\ q(T) >= 0 /\ d(T) * d(T) <= (n(T) - k(T)) * q(T)
           Bad == {T \in SUBSET H : ~ Holds(T)}
<1>1. /\ a \in [SUBSET H -> Int] /\ b \in [SUBSET H -> Int]
      /\ \A s \in SUBSET H : s # {} => a[s] = w[AnyOf(s)] + a[s \ {AnyOf(s)}]
                                    /\ b[s] = u[AnyOf(s)] + b[s \ {AnyOf(s)}]
      /\ a[{}] = 0 /\ b[{}] = 0
  BY DEF Sums
<1>2. \A T \in SUBSET H : n(T) \in Nat /\ k(T) \in Nat /\ IsFiniteSet(Same(T))
  <2>1. \A T \in SUBSET H : Same(T) \in SUBSET H
    OBVIOUS
  <2> QED
    BY <2>1, FS_Subset, FS_CardinalityType
<1>3. Bad = {}
  <2>1. SUFFICES ASSUME Bad # {} PROVE FALSE
    OBVIOUS
  <2>2. PICK T \in Bad : \A U \in SUBSET T : U # T => U \notin Bad
    <3> Bad \in SUBSET (SUBSET H)
      OBVIOUS
    <3> HIDE DEF Bad
    <3> QED
      BY <2>1, SmallestSubset
  <2>3. T \in SUBSET H /\ ~ Holds(T)
    BY <2>2
  <2>4. CASE T = {}
    <3>1. n(T) = 0 /\ k(T) = 0
      <4>1. Same(T) = {}
        BY <2>4
      <4> QED
        BY <2>4, <4>1, FS_EmptySet
    <3>2. q(T) = 0 /\ d(T) = 0
      <4>1. a[T] = 0 /\ b[T] = 0
        BY <1>1, <2>4
      <4>2. v * 0 = 0 /\ 0 * (v * v) = 0 /\ 0 * v = 0
        OBVIOUS
      <4> HIDE DEF n
      <4> QED
        BY <3>1, <4>1, <4>2
    <3> HIDE DEF n, k, q, d
    <3>3. Holds(T)
      BY <3>1, <3>2
    <3> QED
      BY <2>3, <3>3
  <2>5. CASE T # {}
    <3>1. PICK x \in T : x = AnyOf(T)
      BY <2>3, <2>5, OnePointLess
    <3>2. PICK U \in SUBSET H : U = T \ {x}
      BY <2>3
    <3>3. n(T) = n(U) + 1
      BY <2>3, <2>5, <3>1, <3>2, OnePointLess
    <3>4. Holds(U)
      BY <2>2, <3>1, <3>2
    <3>5. x \in H /\ w[x] \in Int /\ a[T] = w[x] + a[U] /\ b[T] = w[x] * w[x] + b[U]
      BY <1>1, <2>3, <2>5, <3>1, <3>2
    <3>6. a[U] \in Int /\ b[U] \in Int /\ n(U) \in Nat /\ k(U) \in Nat
      BY <1>1, <1>2
    <3>7. CASE w[x] = v
      <4>1. Same(U) = Same(T) \ {x} /\ x \in Same(T)
        BY <3>1, <3>2, <3>7
      <4>2. k(T) = k(U) + 1
        BY <1>2, <2>3, <4>1, FS_RemoveElement
      <4>3. n(T) * (v * v) = n(U) * (v * v) + v * v /\ n(T) * v = n(U) * v + v
            /\ v * a[T] = v * v + v * a[U]
        BY <3>3, <3>5, <3>6, <3>7
      <4>4. q(T) = q(U) /\ d(T) = d(U)
        BY <3>5, <3>6, <3>7, <4>3
      <4>5. n(T) - k(T) = n(U) - k(U)
        BY <3>3, <3>6, <4>2
      <4> HIDE DEF n, k, q, d
      <4> QED
        BY <2>3, <3>3, <3>4, <3>6, <4>2, <4>4, <4>5
    <3>8. CASE w[x] # v
      <4>1. Same(U) = Same(T)
        BY <3>1, <3>2, <3>8
      <4>2. k(T) = k(U)
        BY <4>1
      <4> DEFINE y == w[x] - v
      <4>3. n(T) * (v * v) = n(U) * (v * v) + v * v /\ n(T) * v = n(U) * v + v
            /\ v * a[T] = v * w[x] + v * a[U] /\ y * y = w[x] * w[x] - 2 * (v * w[x]) + v * v
        <5>1. n(T) * (v * v) = n(U) * (v * v) + v * v /\ n(T) * v = n(U) * v + v
          <6>1. PICK i \in Nat : i = n(U)
            BY <3>6
          <6>2. (i + 1) * (v * v) = i * (v * v) + v * v /\ (i + 1) * v = i * v + v
            OBVIOUS
          <6> HIDE DEF n
          <6> QED
            BY <3>3, <6>1, <6>2
        <5>2. PICK e \in Int : e = w[x]
          BY <3>5
        <5>3. (e - v) * (e - v) = e * e - 2 * (v * e) + v * v
          OBVIOUS
        <5>4. v * (e + a[U]) = v * e + v * a[U]
          BY <3>6
        <5> QED
          BY <3>5, <5>1, <5>2, <5>3, <5>4
      <4>4. q(T) = q(U) + y * y /\ d(T) = d(U) + y
        BY <3>5, <3>6, <4>3
      <4>5. n(T) - k(T) = (n(U) - k(U)) + 1
        BY <3>3, <3>6, <4>2
      <4>6. y \in Int /\ d(U) \in Int /\ q(U) \in Nat /\ n(U) - k(U) \in Nat /\ y * y \in Nat
        BY <3>4, <3>5, <3>6, Squares
      <4> HIDE DEF n, k, q, d, y
      <4>7. d(T) * d(T) <= (n(T) - k(T)) * q(T)
        BY <3>4, <4>4, <4>5, <4>6, SquareGrows
      <4> QED
        BY <2>3, <3>3, <3>4, <3>6, <4>2, <4>4, <4>6, <4>7
    <3> QED
      BY <3>7, <3>8
  <2> QED
    BY <2>4, <2>5
<1> QED
  BY <1>3

LEMMA FarMeansFew ==
    ASSUME NEW n \in Nat, NEW k \in Nat, NEW q \in Nat, NEW e \in Nat,
           n > 0, k <= n, e <= (n - k) * q, n * q - e > 0,
           4 * (e * (n - 1)) >= 25 * (n * (n * q - e))
    PROVE  6 * k < n
<1> SUFFICES ASSUME 6 * k >= n PROVE FALSE
  OBVIOUS
<1> DEFINE r == n - k
           c == 29 * n - 4
<1>1. r \in Nat /\ c \in Nat /\ 6 * r <= 5 * n
  OBVIOUS
<1>2. e * c >= 25 * (n * (n * q))
  <2>1. e * c = 25 * (n * e) + 4 * (e * (n - 1))
    OBVIOUS
  <2>2. 25 * (n * (n * q - e)) = 25 * (n * (n * q)) - 25 * (n * e)
    OBVIOUS
  <2> HIDE DEF c
  <2> QED
    BY <2>1, <2>2
<1>3. e * c <= (r * q) * c
  <2> HIDE DEF c, r
  <2>1. r * q \in Nat
    BY <1>1
  <2>2. e <= r * q
    BY DEF r
  <2> QED
    BY <1>1, <2>1, <2>2
<1>4. 6 * ((r * q) * c) <= (5 * n) * (q * c)
  <2> HIDE DEF c, r
  <2>1. q * c \in Nat
    BY <1>1
  <2>2. (6 * r) * (q * c) <= (5 * n) * (q * c)
    BY <1>1, <2>1
  <2>3. (6 * r) * (q * c) = 6 * ((r * q) * c)
    BY <1>1
  <2> QED
    BY <2>2, <2>3
<1>5. (5 * n) * (q * c) = 145 * (n * (n * q)) - 20 * (n * q)
  OBVIOUS
<1>6. n * q > 0 /\ n * (n * q) >= 0
  OBVIOUS
<1> HIDE DEF c, r
<1> QED
  BY <1>1, <1>2, <1>3, <1>4, <1>5, <1>6

\* A value that makes up a sixth of the history is no deviation.
LEMMA UsualIsNotSevere ==
    ASSUME NEW H, IsFiniteSet(H), H # {}, NEW v \in Int, \A p \in H : p.value \in Int,
           Severity(v, H) \in {"medium", "high"}
    PROVE  6 * Cardinality({p \in H : p.value = v}) < Cardinality(H)
<1> DEFINE w == [p \in H |-> p.value]
           u == [p \in H |-> p.value * p.value]
<1>0. /\ w \in [H -> Int] /\ \A p \in H : w[p] = p.value
      /\ u \in [H -> Int] /\ \A p \in H : u[p] = p.value * p.value
  OBVIOUS
<1>1. PICK a \in Sums(H, w) : MapThenSumSet(Value, H) = a[H]
  <2> HIDE DEF w, u
  <2> QED
    BY <1>0, ValuesSum
<1>2. PICK b \in Sums(H, u) : MapThenSumSet(Square, H) = b[H]
  <2> HIDE DEF w, u
  <2> QED
    BY <1>0, SquaresSum
<1>3. PICK n \in Nat : n = Cardinality(H) /\ n > 0
  BY FS_CardinalityType, FS_EmptySet
<1>4. PICK k \in Nat : k = Cardinality({p \in H : p.value = v})
  <2>1. {p \in H : p.value = v} \in SUBSET H
    OBVIOUS
  <2> QED
    BY <2>1, FS_Subset, FS_CardinalityType
<1>5. PICK S \in Int : S = a[H]
  BY <1>1 DEF Sums
<1>6. PICK Q \in Int : Q = b[H]
  BY <1>2 DEF Sums
<1>7. PICK q \in Int : q = Q - 2 * (v * S) + n * (v * v)
  OBVIOUS
<1>8. PICK d \in Int : d = S - n * v
  OBVIOUS
<1>9. PICK D \in Int : D = n * Q - S * S
  OBVIOUS
<1>10. k <= n /\ q >= 0 /\ d * d <= (n - k) * q
  <2>1. /\ w \in [H -> Int] /\ u \in [H -> Int] /\ \A p \in H : u[p] = w[p] * w[p]
        /\ H \in SUBSET H
    OBVIOUS
  <2>2. {p \in H : w[p] = v} = {p \in H : p.value = v}
    OBVIOUS
  <2> HIDE DEF w, u
  <2>3. \A T \in SUBSET H :
           LET m == Cardinality(T)
               j == Cardinality({p \in T : w[p] = v})
               x == b[T] - 2 * (v * a[T]) + m * (v * v)
               y == a[T] - m * v
           IN  j <= m /\ x >= 0 /\ y * y <= (m - j) * x
    BY <2>1, UsualIsNear
  <2>4. LET j == Cardinality({p \in H : p.value = v})
            x == b[H] - 2 * (v * a[H]) + n * (v * v)
            y == a[H] - n * v
        IN  j <= n /\ x >= 0 /\ y * y <= (n - j) * x
    BY <1>3, <2>1, <2>2, <2>3
  <2> QED
    BY <1>4, <1>5, <1>6, <1>7, <1>8, <2>4
<1>11. Spread(H) = D
  BY <1>1, <1>2, <1>3, <1>5, <1>6, <1>9 DEF Spread
<1>12. D = n * q - d * d
  <2>1. d * d = S * S - 2 * (n * (v * S)) + n * (n * (v * v))
    BY <1>8
  <2>2. n * q = n * Q - 2 * (n * (v * S)) + n * (n * (v * v))
    BY <1>7
  <2>3. PICK x \in Int, y \in Int : x = n * (v * S) /\ y = n * (n * (v * v))
    OBVIOUS
  <2>4. PICK z \in Int : z = n * Q
    OBVIOUS
  <2>5. PICK t \in Int : t = S * S
    OBVIOUS
  <2>6. d * d = t - 2 * x + y
    BY <2>1, <2>3, <2>5
  <2>7. n * q = z - 2 * x + y
    BY <2>2, <2>3, <2>4
  <2>8. D = z - t
    BY <1>9, <2>4, <2>5
  <2> QED
    BY <2>6, <2>7, <2>8
<1>13. (n * v - S) * (n * v - S) = d * d /\ d * d \in Nat
  <2>1. n * v - S = 0 - d
    BY <1>8
  <2>2. (0 - d) * (0 - d) = d * d
    OBVIOUS
  <2> QED
    BY <2>1, <2>2, Squares
<1>14. CASE D = 0
  <2>1. d # 0
    <3>1. n * v # S
      BY <1>1, <1>3, <1>5, <1>11, <1>14 DEF Severity
    <3> QED
      BY <1>8, <3>1
  <2>2. d * d > 0
    BY <2>1
  <2>3. n * q <= (n - k) * q /\ q > 0
    <3>1. n * q = d * d
      BY <1>12, <1>13, <1>14
    <3>2. q # 0
      <4>1. q = 0 => n * q = 0
        OBVIOUS
      <4> QED
        BY <2>2, <3>1, <4>1
    <3>3. q > 0
      BY <1>10, <3>2
    <3>4. n * q <= (n - k) * q
      BY <1>10, <3>1
    <3> QED
      BY <3>3, <3>4
  <2>4. k * q <= 0
    <3>1. (n - k) * q = n * q - k * q
      OBVIOUS
    <3> QED
      BY <2>3, <3>1
  <2>5. k = 0
    BY <2>3, <2>4
  <2> QED
    BY <1>3, <1>4, <2>5
<1>15. CASE D # 0
  <2>1. D > 0
    <3>1. (n - k) * q = n * q - k * q
      OBVIOUS
    <3>2. k * q >= 0
      BY <1>10
    <3>3. PICK x \in Int, y \in Int, z \in Int : x = n * q /\ y = k * q /\ z = d * d
      OBVIOUS
    <3>4. z <= x - y /\ y >= 0 /\ D = x - z
      BY <1>10, <1>12, <3>1, <3>2, <3>3
    <3> QED
      BY <1>15, <3>4
  <2>2. ~ (4 * (d * d * (n - 1)) < 25 * n * D)
    BY <1>1, <1>3, <1>5, <1>11, <1>13, <1>15 DEF Severity
  <2>3. PICK e \in Nat : e = d * d
    BY <1>13
  <2>4. 4 * (e * (n - 1)) >= 25 * (n * (n * q - e))
    BY <1>12, <2>2, <2>3
  <2> QED
    BY <1>3, <1>4, <1>10, <1>12, <2>1, <2>3, <2>4, FarMeansFew
<1> QED
  BY <1>14, <1>15

-----------------------------------------------------------------------------
(* Rising series *)

\* One point of T taken out of the sum over T
LEMMA SumOfOneMore ==
    ASSUME NEW H, IsFiniteSet(H), NEW w \in [H -> Int], NEW g \in Sums(H, w),
           NEW T \in SUBSET H, T # {}
    PROVE  \E x \in T, U \in SUBSET H :
              /\ U = T \ {x} /\ g[T] = w[x] + g[U] /\ g[U] \in Int /\ w[x] \in Int
              /\ IsFiniteSet(U) /\ Cardinality(U) \in Nat /\ Cardinality(T) = Cardinality(U) + 1
<1>1. PICK x \in T : x = AnyOf(T)
  BY OnePointLess
<1>2. PICK U \in SUBSET H : U = T \ {x}
  OBVIOUS
<1>3. g[T] = w[x] + g[U] /\ g[U] \in Int /\ w[x] \in Int
  BY <1>1, <1>2 DEF Sums
<1>4. IsFiniteSet(U) /\ Cardinality(U) \in Nat /\ Cardinality(T) = Cardinality(U) + 1
  BY <1>1, <1>2, OnePointLess
<1> QED
  BY <1>2, <1>3, <1>4

LEMMA SumOfOne ==
    ASSUME NEW T, IsFiniteSet(T), Cardinality(T) = 1, \A p \in T : p.value \in Int
    PROVE  \E a : T = {a} /\ MapThenSumSet(Value, T) = a.value
<1> DEFINE w == [p \in T |-> p.value]
<1>1. w \in [T -> Int] /\ \A p \in T : w[p] = p.value
  OBVIOUS
<1> HIDE DEF w
<1>2. PICK g \in Sums(T, w) : MapThenSumSet(Value, T) = g[T]
  BY <1>1, ValuesSum
<1>3. g[{}] = 0
  BY DEF Sums
<1>4. T \in SUBSET T /\ T # {}
  BY FS_EmptySet
<1>5. PICK a \in T, U \in SUBSET T : U = T \ {a} /\ g[T] = w[a] + g[U] /\ w[a] \in Int
                                     /\ IsFiniteSet(U) /\ Cardinality(U) \in Nat
                                     /\ Cardinality(T) = Cardinality(U) + 1
  BY <1>1, <1>4, SumOfOneMore
<1>6. U = {}
  BY <1>5, FS_EmptySet
<1> QED
  BY <1>1, <1>2, <1>3, <1>5, <1>6

LEMMA SumOfThree ==
    ASSUME NEW T, IsFiniteSet(T), Cardinality(T) = 3, \A p \in T : p.value \in Int
    PROVE  \E a, b, c : /\ T = {a, b, c} /\ a # b /\ a # c /\ b # c
                        /\ MapThenSumSet(Value, T) = a.value + b.value + c.value
<1> DEFINE w == [p \in T |-> p.value]
<1>1. w \in [T -> Int] /\ \A p \in T : w[p] = p.value
  OBVIOUS
<1> HIDE DEF w
<1>2. PICK g \in Sums(T, w) : MapThenSumSet(Value, T) = g[T]
  BY <1>1, ValuesSum
<1>3. g[{}] = 0
  BY DEF Sums
<1>4. T \in SUBSET T /\ T # {}
  BY FS_EmptySet
<1>5. PICK a \in T, U \in SUBSET T : U = T \ {a} /\ g[T] = w[a] + g[U] /\ w[a] \in Int
                                     /\ IsFiniteSet(U) /\ Cardinality(U) \in Nat
                                     /\ Cardinality(T) = Cardinality(U) + 1 /\ g[U] \in Int
  BY <1>1, <1>4, SumOfOneMore
<1>6. U # {}
  BY <1>5, FS_EmptySet
<1>7. PICK b \in U, V \in SUBSET T : V = U \ {b} /\ g[U] = w[b] + g[V] /\ w[b] \in Int
                                     /\ IsFiniteSet(V) /\ Cardinality(V) \in Nat
                                     /\ Cardinality(U) = Cardinality(V) + 1 /\ g[V] \in Int
  BY <1>1, <1>6, SumOfOneMore
<1>8. V # {}
  BY <1>5, <1>7, FS_EmptySet
<1>9. PICK c \in V, W \in SUBSET T : W = V \ {c} /\ g[V] = w[c] + g[W] /\ w[c] \in Int
                                     /\ IsFiniteSet(W) /\ Cardinality(W) \in Nat
                                     /\ Cardinality(V) = Cardinality(W) + 1 /\ g[W] \in Int
  BY <1>1, <1>8, SumOfOneMore
<1>10. W = {}
  <2>1. Cardinality(W) = 0
    BY <1>5, <1>7, <1>9
  <2> QED
    BY <1>9, <2>1, FS_EmptySet
<1>11. T = {a, b, c} /\ a # b /\ a # c /\ b # c
  BY <1>5, <1>7, <1>9, <1>10
<1>12. g[T] = w[a] + w[b] + w[c]
  <2>1. g[W] = 0
    BY <1>3, <1>10
  <2>2. g[V] = w[c]
    BY <1>9, <2>1
  <2> QED
    BY <1>5, <1>7, <1>9, <2>2
<1> QED
  BY <1>1, <1>2, <1>5, <1>7, <1>9, <1>11, <1>12

\* Three numbers against three that are no smaller, of which some are shared
LEMMA LaterIsMore ==
    ASSUME NEW a, NEW b, NEW c, NEW d, NEW e, NEW f,
           a # b, a # c, b # c, d # e, d # f, e # f, {a, b, c} # {d, e, f},
           \A p \in {a, b, c, d, e, f} : p.value \in Int,
           \A p \in {a, b, c}, q \in {d, e, f} :
              p.value < q.value \/ (p \in {d, e, f} /\ q \in {a, b, c})
    PROVE  a.value + b.value + c.value < d.value + e.value + f.value
  OBVIOUS

LEMMA RisingIncreases ==
    ASSUME NEW S, IsFiniteSet(S), Rising(S), Cardinality(S) >= 2, Cardinality(S) # 3,
           \A p \in S : p.value \in Int /\ p.time \in Int,
           NEW direction \in Directions(S)
    PROVE  direction = "increasing"
<1> DEFINE n == Cardinality(S)
           k == Window(n)
           Change(w) == MapThenSumSet(Value, S \ w[2]) - MapThenSumSet(Value, w[1])
<1>1. PICK w \in Firsts(S, k) \X Firsts(S, n - k) :
          /\ w[1] \subseteq w[2] \/ w[2] \subseteq w[1]
          /\ direction = IF Change(w) = 0 THEN "stable"
                         ELSE IF Change(w) > 0 THEN "increasing" ELSE "decreasing"
  BY DEF Directions
<1>2. PICK F \in SUBSET S, C \in SUBSET S :
          /\ F = w[1] /\ C = w[2] /\ Cardinality(F) = k
          /\ Cardinality(C) = n - k
          /\ \A p \in F, q \in S \ F : p.time <= q.time
          /\ \A p \in C, q \in S \ C : p.time <= q.time
  BY <1>1 DEF Firsts, kSubset
<1>3. PICK L \in SUBSET S : L = S \ C
  OBVIOUS
<1>4. n \in Nat /\ k \in {1, 3} /\ (n = 2 => k = 1) /\ (n # 2 => k = 3 /\ n > 3)
  BY FS_CardinalityType DEF Window
<1>5. IsFiniteSet(F) /\ IsFiniteSet(L) /\ IsFiniteSet(C) /\ Cardinality(L) = k
  <2>1. S \cap C = C
    OBVIOUS
  <2> QED
    <3>1. IsFiniteSet(F) /\ IsFiniteSet(L) /\ IsFiniteSet(C)
      BY FS_Subset
    <3>2. Cardinality(S \ C) = Cardinality(S) - Cardinality(S \cap C)
      BY FS_Difference
    <3>3. Cardinality(S \ C) = n - Cardinality(C)
      BY <2>1, <3>2
    <3>4. n - (n - k) = k
      BY <1>4
    <3> HIDE DEF n, k
    <3> QED
      BY <1>2, <1>3, <3>1, <3>3, <3>4
<1>6. C # {} /\ F # {}
  <2>1. Cardinality(C) # 0 /\ Cardinality(F) # 0
    BY <1>2, <1>4
  <2> QED
    BY <2>1, FS_EmptySet
<1>7. F # L
  BY <1>1, <1>2, <1>3, <1>6
<1>8. \A p \in F, q \in L : p.value < q.value \/ (p \in L /\ q \in F)
  <2>1. \A p, q \in S : p # q /\ p.time <= q.time => p.value < q.value
    BY DEF Rising
  <2>2. ASSUME NEW p \in F, NEW q \in L, ~ (p \in L /\ q \in F) PROVE p.value < q.value
    <3>1. p \in S /\ q \in S /\ p # q
      BY <2>2
    <3>2. CASE q \notin F
      BY <1>2, <2>1, <3>1, <3>2
    <3>3. CASE p \notin L
      <4>1. p \in C /\ q \in S \ C
        BY <1>3, <3>1, <3>3
      <4>2. p.time <= q.time
        BY <1>2, <4>1
      <4> QED
        BY <2>1, <3>1, <4>2
    <3> QED
      BY <2>2, <3>2, <3>3
  <2> QED
    BY <2>2
<1>9. \A p \in F \union L : p.value \in Int
  OBVIOUS
<1>10. MapThenSumSet(Value, F) \in Int /\ MapThenSumSet(Value, L) \in Int
       /\ MapThenSumSet(Value, F) < MapThenSumSet(Value, L)
  <2>1. CASE n = 2
    <3>1. PICK a : F = {a} /\ MapThenSumSet(Value, F) = a.value
      BY <1>2, <1>4, <1>5, <1>9, <2>1, SumOfOne
    <3>2. PICK d : L = {d} /\ MapThenSumSet(Value, L) = d.value
      BY <1>4, <1>5, <1>9, <2>1, SumOfOne
    <3> QED
      BY <1>7, <1>8, <1>9, <3>1, <3>2
  <2>2. CASE n # 2
    <3>1. PICK a, b, c : /\ F = {a, b, c} /\ a # b /\ a # c /\ b # c
                         /\ MapThenSumSet(Value, F) = a.value + b.value + c.value
      BY <1>2, <1>4, <1>5, <1>9, <2>2, SumOfThree
    <3>2. PICK d, e, f : /\ L = {d, e, f} /\ d # e /\ d # f /\ e # f
                         /\ MapThenSumSet(Value, L) = d.value + e.value + f.value
      BY <1>4, <1>5, <1>9, <2>2, SumOfThree
    <3>3. \A p \in {a, b, c, d, e, f} : p.value \in Int
      BY <1>9, <3>1, <3>2
    <3>4. \A p \in {a, b, c}, q \in {d, e, f} :
              p.value < q.value \/ (p \in {d, e, f} /\ q \in {a, b, c})
      BY <1>8, <3>1, <3>2
    <3>5. {a, b, c} # {d, e, f}
      BY <1>7, <3>1, <3>2
    <3>6. a.value + b.value + c.value < d.value + e.value + f.value
      BY <3>1, <3>2, <3>3, <3>4, <3>5, LaterIsMore
    <3> QED
      BY <3>1, <3>2, <3>3, <3>6
  <2> QED
    BY <2>1, <2>2
<1>11. Change(w) = MapThenSumSet(Value, L) - MapThenSumSet(Value, F)
  BY <1>2, <1>3
<1> QED
  BY <1>1, <1>10, <1>11

-----------------------------------------------------------------------------
(* What was judged, and the last trend *)

\* Every judgement has the severity of its point against the others it saw,
\* and the last trend is one of those the points it used can have.
Computed ==
    /\ \A j \in judged : /\ IsFiniteSet(j.seen) /\ MinPoints <= Cardinality(j.seen)
                         /\ j.point \in j.seen
                         /\ j.severity = Severity(j.point.value, j.seen \ {j.point})
    /\ trend.used # {} => /\ IsFiniteSet(trend.used) /\ Cardinality(trend.used) >= 2
                          /\ trend.direction \in Directions(trend.used)

LEMMA NextComputed ==
    TypeOK /\ Finite /\ Computed /\ [Next]_vars => Computed'
<1> SUFFICES ASSUME TypeOK, Finite, Computed, [Next]_vars PROVE Computed'
  OBVIOUS
<1>1. CASE UNCHANGED <<judged, trend>>
  BY <1>1 DEF Computed
<1>2. ASSUME NEW f \in Tasks \union Requests, Analyze(f) PROVE Computed'
  <2>1. judged' = judged
    BY <1>2 DEF Analyze, history
  <2>2. CASE UNCHANGED trend
    BY <2>1, <2>2, <1>1
  <2>3. CASE ~ UNCHANGED trend
    <3>1. /\ ~ (Cardinality(Visible(f)) < 2)
          /\ \E d \in Directions(Visible(f)) : trend' = [direction |-> d, used |-> Visible(f)]
      BY <1>2, <2>3 DEF Analyze
    <3>2. PICK V : V = Visible(f)
      OBVIOUS
    <3>3. V \in SUBSET points
      BY <3>2 DEF Visible
    <3>4. IsFiniteSet(V) /\ Cardinality(V) \in Nat
      BY <3>3, FS_Subset, FS_CardinalityType DEF Finite
    <3>5. trend'.used = V /\ trend'.direction \in Directions(V)
      BY <3>1, <3>2
    <3> QED
      BY <2>1, <3>1, <3>2, <3>4, <3>5 DEF Computed
  <2> QED
    BY <2>2, <2>3
<1>3. ASSUME NEW f \in Tasks \union Requests, Judge(f) PROVE Computed'
  <2>1. trend' = trend
    BY <1>3 DEF Judge
  <2>2. CASE judged' = judged
    BY <1>1, <2>1, <2>2
  <2>3. CASE judged' # judged
    <3>1. PICK V : V = Visible(f)
      OBVIOUS
    <3>2. ~ (Cardinality(V) < MinPoints)
      BY <1>3, <2>3, <3>1 DEF Judge
    <3>3. PICK p \in Judged(f) :
              judged' = {j \in judged : ~ (j.point = p /\ j.seen \subseteq V)}
                           \union {[point |-> p, severity |-> Severity(p.value, V \ {p}), seen |-> V]}
      BY <1>3, <2>3, <3>1 DEF Judge
    <3>4. V \in SUBSET points /\ p \in V
      BY <3>1, <3>3 DEF Visible, Judged, Newest
    <3>5. IsFiniteSet(V) /\ Cardinality(V) \in Nat /\ MinPoints <= Cardinality(V)
      BY <3>2, <3>4, FS_Subset, FS_CardinalityType DEF Finite, MinPoints
    <3>6. PICK new : new = [point |-> p, severity |-> Severity(p.value, V \ {p}), seen |-> V]
      OBVIOUS
    <3>7. new.point = p /\ new.severity = Severity(p.value, V \ {p}) /\ new.seen = V
      BY <3>6
    <3>8. \A j \in judged' : j \in judged \/ j = new
      BY <3>3, <3>6
    <3>9. \A j \in judged' : /\ IsFiniteSet(j.seen) /\ MinPoints <= Cardinality(j.seen)
                             /\ j.point \in j.seen
                             /\ j.severity = Severity(j.point.value, j.seen \ {j.point})
      BY <3>4, <3>5, <3>7, <3>8 DEF Computed
    <3> QED
      BY <2>1, <3>9 DEF Computed
  <2> QED
    BY <2>2, <2>3
<1>4. \/ UNCHANGED <<judged, trend>>
      \/ \E f \in Tasks \union Requests : Analyze(f) \/ Judge(f)
  BY DEF Next, vars, files, history, Receive, Read, Store, Fail, Begin, Commit, Undo, Unanswered,
         Rollback, Delete
<1> QED
  BY <1>1, <1>2, <1>3, <1>4

LEMMA InitComputed == Init => Computed
  BY DEF Init, Computed

LEMMA ComputedIsRight == TypeOK /\ Computed => NothingUsualAlerts /\ RisingIsSeen
<1> SUFFICES ASSUME TypeOK, Computed PROVE NothingUsualAlerts /\ RisingIsSeen
  OBVIOUS
<1>1. \A p \in Points : p.value \in Int /\ p.time \in Int
  BY SeriesAssumption DEF Points, SeriesAssumption
<1>2. ASSUME NEW j \in judged, j.severity \in {"medium", "high"}
      PROVE  6 * Cardinality({q \in j.seen \ {j.point} : q.value = j.point.value})
                < Cardinality(j.seen) - 1
  <2>1. /\ IsFiniteSet(j.seen) /\ MinPoints <= Cardinality(j.seen) /\ j.point \in j.seen
        /\ j.severity = Severity(j.point.value, j.seen \ {j.point})
    BY DEF Computed
  <2>2. PICK H : H = j.seen \ {j.point}
    OBVIOUS
  <2>3. PICK v \in Int : v = j.point.value
    BY <1>1 DEF TypeOK
  <2>4. IsFiniteSet(H) /\ Cardinality(H) = Cardinality(j.seen) - 1
    BY <2>1, <2>2, FS_RemoveElement
  <2>5. H # {}
    BY <2>1, <2>4, FS_EmptySet, FS_CardinalityType DEF MinPoints
  <2>6. \A p \in H : p.value \in Int
    BY <1>1, <2>2 DEF TypeOK
  <2>7. Severity(v, H) \in {"medium", "high"}
    BY <1>2, <2>1, <2>2, <2>3
  <2>8. 6 * Cardinality({q \in H : q.value = v}) < Cardinality(H)
    BY <2>4, <2>5, <2>6, <2>7, UsualIsNotSevere
  <2> QED
    BY <2>2, <2>3, <2>4, <2>8
<1>3. ASSUME Rising(trend.used), trend.used # {}, Cardinality(trend.used) # 3
      PROVE  trend.direction = "increasing"
  <2>1. \A p \in trend.used : p.value \in Int /\ p.time \in Int
    BY <1>1 DEF TypeOK
  <2>2. /\ IsFiniteSet(trend.used) /\ Cardinality(trend.used) >= 2
        /\ trend.direction \in Directions(trend.used)
    BY <1>3 DEF Computed
  <2> QED
    BY <1>3, <2>1, <2>2, RisingIncreases
<1> QED
  BY <1>2, <1>3 DEF NothingUsualAlerts, RisingIsSeen

\* A value that makes up a sixth of the points it is compared with never causes
\* an alert, whatever the others are and however many.
THEOREM UsualNeverAlerts == Spec => []NothingUsualAlerts
BY SeriesTypeCorrect, InitComputed, NextComputed, ComputedIsRight, PTL DEF Spec

\* The trend of a series that rises from point to point is recorded as
\* increasing, but for the single average that three points give.
THEOREM RisingIsRecorded == Spec => []RisingIsSeen
BY SeriesTypeCorrect, InitComputed, NextComputed, ComputedIsRight, PTL DEF Spec
=============================================================================
