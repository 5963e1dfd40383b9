------------------------ MODULE TelegramRuntimeProofs ------------------------
(***************************************************************************)
(* The clients of the roles, for any tasks, any number of client objects   *)
(* and any number of breakdowns: what is connected is somebody's, the peer *)
(* cache is the client's, stop() is complete, and the runtime implements   *)
(* RoleClients.                                                            *)
(***************************************************************************)
EXTENDS TelegramRuntime, TLAPS

\* A role's lock is held by the task that is at work on its client.
LockInv ==
    /\ \A t \in Tasks : pc[t] \in Holding <=> lock[RoleOf(t)] = t
    /\ \A r \in Roles : lock[r] # None => RoleOf(lock[r]) = r

\* A role that a client is dialled for has none.
DiallingEmpty == \A t \in Tasks : pc[t] \in Dialling => table[RoleOf(t)] = None

ClientsInv == DiallingEmpty /\ ClientsOwned /\ PeersCurrent

\* What stop() has not stopped, it has still to stop.
StopInv ==
    phase = "stopping" =>
        \A r \in Roles : r \in to_stop \/ table[r] \in late \cup {None}

-----------------------------------------------------------------------------
(* The health of a channel *)

LEMMA HealthyTyped == Healthy \in ChannelHealth
BY MonitorAssumption DEF Healthy, ChannelHealth

LEMMA OneMoreTyped ==
  ASSUME NEW n \in 0 .. MaxFailures
  PROVE  OneMore(n) \in 0 .. MaxFailures
BY MonitorAssumption DEF OneMore

LEMMA HintTyped ==
  ASSUME NEW h \in ChannelHealth, NEW bot_api \in BOOLEAN
  PROVE  MaybeHint(h, bot_api) \in ChannelHealth
<1>1. (h.hinted \/ HintDue(h, bot_api)) \in BOOLEAN
  BY DEF HintDue
<1> QED BY <1>1 DEF MaybeHint, ChannelHealth

\* What a report makes of a channel's health is a health again, degraded
\* after a failure and not after a success.
LEMMA FailureTyped ==
  ASSUME NEW h \in ChannelHealth, NEW bot_api \in BOOLEAN, NEW due \in BOOLEAN
  PROVE  report_failure(h, bot_api, due) \in ChannelHealth
<1> DEFINE counted == [h EXCEPT !.degraded = TRUE, !.consecutive_failures = OneMore(@)]
           reported == MaybeHint(counted, bot_api)
<1>1. counted \in ChannelHealth
  BY OneMoreTyped DEF ChannelHealth
<1>2. reported \in ChannelHealth
  BY <1>1, HintTyped
<1> HIDE DEF reported
<1>3. [reported EXCEPT !.suppressed_failures = 0] \in ChannelHealth
  BY <1>2, MonitorAssumption DEF ChannelHealth
<1>4. [reported EXCEPT !.suppressed_failures = OneMore(@)] \in ChannelHealth
  BY <1>2, OneMoreTyped DEF ChannelHealth
<1> QED BY <1>3, <1>4 DEF report_failure, reported

LEMMA SuccessTyped ==
  ASSUME NEW h \in ChannelHealth
  PROVE  report_success(h) \in ChannelHealth /\ ~report_success(h).degraded
BY HealthyTyped DEF report_success, ChannelHealth, Healthy

-----------------------------------------------------------------------------
(* Types *)

LEMMA RolesKnown == \A t \in Tasks : RoleOf(t) \in Roles
BY DEF RoleOf, Roles

LEMMA ReportsTyped ==
  ASSUME health \in ChannelHealth, Failure \/ Success
  PROVE  health' \in ChannelHealth
BY FailureTyped, SuccessTyped DEF Failure, Success

LEMMA NewClientGone ==
  ASSUME HasRoom
  PROVE  NewClient \in Clients /\ link[NewClient] = "gone"
BY DEF HasRoom, NewClient

\* A dial that was cut off changes at most one link, to "left".
LEMMA LeftBehindTyped ==
  ASSUME link \in [Clients -> Links], NEW after \in LeftBehind
  PROVE  /\ after \in [Clients -> Links]
         /\ \A c \in Clients : after[c] \in {link[c], "left"}
BY DEF LeftBehind, Links

LEMMA DisposeTyped ==
  ASSUME TypeOK, NEW r \in Roles, Dispose(r)
  PROVE  /\ link' \in [Clients -> Links]
         /\ table' \in [Roles -> Clients \cup {None}]
         /\ fresh' \in [Roles -> BOOLEAN]
         /\ peers' \in [Roles -> Clients \cup {None}]
BY DEF Dispose, TypeOK, Links

LEMMA CancelledTyped ==
  ASSUME TypeOK, NEW t \in Tasks, Cancelled(t)
  PROVE  /\ lock' \in [Roles -> Tasks \cup {None}]
         /\ link' \in [Clients -> Links]
         /\ \A c \in Clients : link'[c] \in {link[c], "left"}
         /\ UNCHANGED <<table, fresh, peers, health, late, net>>
<1>1. lock' \in [Roles -> Tasks \cup {None}]
  BY DEF Cancelled, TypeOK
<1>2. link' \in LeftBehind \/ link' = link
  BY DEF Cancelled
<1> QED BY <1>1, <1>2, LeftBehindTyped DEF Cancelled, TypeOK

LEMMA TypeInit == Init => TypeOK
BY HealthyTyped, RuntimeAssumption DEF Init, TypeOK, Links, Steps

LEMMA TypeNext ==
  ASSUME TypeOK, [Next]_vars
  PROVE  TypeOK'
<1> USE DEF TypeOK, Links, Steps, Waiting, Dialling, Holding
<1>1. ASSUME NEW t \in Tasks, StartRequest(t) PROVE TypeOK'
  BY <1>1, RolesKnown, RuntimeAssumption DEF StartRequest, At, Goes, UnchangedClients,
     UnchangedRun
<1>2. ASSUME NEW t \in Tasks, EnsureProbes(t) PROVE TypeOK'
  BY <1>2, RolesKnown, RuntimeAssumption DEF EnsureProbes, At, Goes, Free, Locks,
     UnchangedClients, UnchangedRun
<1>3. ASSUME NEW t \in Tasks, EnsureReuses(t) PROVE TypeOK'
  BY <1>3, RolesKnown, RuntimeAssumption DEF EnsureReuses, At, Goes, UnchangedClients,
     UnchangedRun
<1>4. ASSUME NEW t \in Tasks, EnsureDials(t) PROVE TypeOK'
  BY <1>4, RolesKnown, DisposeTyped DEF EnsureDials, At, Goes, Free, Locks, UnchangedRun
<1>5. ASSUME NEW t \in Tasks, ProbeOk(t) PROVE TypeOK'
  BY <1>5, RolesKnown, ReportsTyped DEF ProbeOk, At, Goes, Unlocks, Stamp, UnchangedRun
<1>6. ASSUME NEW t \in Tasks, ProbeFails(t) PROVE TypeOK'
  BY <1>6, RolesKnown, DisposeTyped, ReportsTyped DEF ProbeFails, At, Goes, UnchangedRun
<1>7. ASSUME NEW t \in Tasks, DialOk(t) PROVE TypeOK'
  BY <1>7, RolesKnown, ReportsTyped, NewClientGone DEF DialOk, At, Goes, Unlocks, Stamp,
     UnchangedRun
<1>8. ASSUME NEW t \in Tasks, DialFails(t) PROVE TypeOK'
  BY <1>8, RolesKnown, DisposeTyped, ReportsTyped DEF DialFails, At, Goes, Unlocks,
     AfterFailure, UnchangedRun
<1>9. ASSUME NEW t \in Tasks, DialTimesOut(t) PROVE TypeOK'
  BY <1>9, RolesKnown, ReportsTyped, LeftBehindTyped, RuntimeAssumption DEF DialTimesOut,
     At, Goes, Unlocks, Trouble, AfterFailure, UnchangedRun
<1>10. ASSUME NEW t \in Tasks, Proceed(t) PROVE TypeOK'
  BY <1>10, RolesKnown, RuntimeAssumption DEF Proceed, At, Goes, UnchangedClients,
     UnchangedRun
<1>11. ASSUME NEW t \in Tasks, NothingToSend(t) PROVE TypeOK'
  BY <1>11, RolesKnown, RuntimeAssumption DEF NothingToSend, At, Goes, UnchangedClients,
     UnchangedRun
<1>12. ASSUME NEW t \in Tasks, ContextReuses(t) PROVE TypeOK'
  BY <1>12, RolesKnown, ReportsTyped DEF ContextReuses, At, Goes, Free, Locks, Stamp,
     UnchangedRun
<1>13. ASSUME NEW t \in Tasks, ContextDials(t) PROVE TypeOK'
  BY <1>13, RolesKnown, DisposeTyped DEF ContextDials, At, Goes, Free, Locks, UnchangedRun
<1>14. ASSUME NEW t \in Tasks, ResolvePeer(t) PROVE TypeOK'
  BY <1>14, RolesKnown, RuntimeAssumption DEF ResolvePeer, At, InUse, UnchangedRun
<1>15. ASSUME NEW t \in Tasks, UseEnds(t) PROVE TypeOK'
  BY <1>15, RolesKnown, RuntimeAssumption DEF UseEnds, At, Goes, Unlocks,
     UnchangedClients, UnchangedRun
<1>16. ASSUME NEW t \in Tasks, PublishFails(t) PROVE TypeOK'
  BY <1>16, RolesKnown, RuntimeAssumption DEF PublishFails, At, Goes, Unlocks,
     UnchangedClients, UnchangedRun
<1>17. ASSUME NEW t \in Tasks, InvalidateRole(t) PROVE TypeOK'
  BY <1>17, RolesKnown, DisposeTyped DEF InvalidateRole, At, Goes, Free, UnchangedRun
<1>18. ASSUME CycleTimeout PROVE TypeOK'
  BY <1>18, CancelledTyped, RuntimeAssumption DEF CycleTimeout, Goes, Trouble, Tasks
<1>19. ASSUME BeginStop PROVE TypeOK'
  BY <1>19, CancelledTyped, RuntimeAssumption DEF BeginStop, Goes, Tasks
<1>20. ASSUME NEW r \in Roles, StopRole(r) PROVE TypeOK'
  BY <1>20, RolesKnown, DisposeTyped DEF StopRole, Free
<1>21. ASSUME NetFails PROVE TypeOK'
  BY <1>21, RolesKnown, RuntimeAssumption DEF NetFails, Trouble
<1>22. ASSUME NetReturns PROVE TypeOK'
  BY <1>22, RolesKnown, RuntimeAssumption DEF NetReturns
<1>23. ASSUME NEW c \in Clients, LinkBreaks(c) PROVE TypeOK'
  BY <1>23, RolesKnown, RuntimeAssumption DEF LinkBreaks, Trouble, UnchangedByLink
<1>24. ASSUME NEW c \in Clients, LinkHeals(c) PROVE TypeOK'
  BY <1>24, RolesKnown, RuntimeAssumption DEF LinkHeals, UnchangedByLink
<1>25. ASSUME NEW c \in Clients, LinkDrops(c) PROVE TypeOK'
  BY <1>25, RolesKnown, ReportsTyped DEF LinkDrops, Failure, UnchangedByLink
<1>26. ASSUME ContactAges PROVE TypeOK'
  BY <1>26, RolesKnown, RuntimeAssumption DEF ContactAges, UnchangedRun
<1>27. CASE UNCHANGED vars
  BY <1>27 DEF vars
<1> QED BY <1>1, <1>2, <1>3, <1>4, <1>5, <1>6, <1>7, <1>8, <1>9, <1>10, <1>11, <1>12,
   <1>13, <1>14, <1>15, <1>16, <1>17, <1>18, <1>19, <1>20, <1>21, <1>22, <1>23, <1>24,
   <1>25, <1>26, <1>27 DEF Next, TaskStep, NetworkStep, EnsureBegins, ContextBegins,
   ProbeEnds, DialEnds, Used

\* The variables keep their types through every dial, failure and end of the
\* process.
THEOREM TypeCorrect == Spec => []TypeOK
BY TypeInit, TypeNext, PTL DEF Spec
-----------------------------------------------------------------------------
(* Who holds a role's lock *)

LEMMA CancelledUnlocks ==
  ASSUME TypeOK, LockInv, NEW t \in Tasks, Cancelled(t),
         pc' = [pc EXCEPT ![t] = "idle"] \/ pc' = [pc EXCEPT ![t] = "invalidate"]
  PROVE  LockInv'
BY RolesKnown, RuntimeAssumption DEF Cancelled, TypeOK, LockInv, Holding, Dialling

LEMMA LockNext ==
  ASSUME TypeOK, LockInv, [Next]_vars
  PROVE  LockInv'
<1> USE DEF TypeOK, LockInv, Steps, Waiting, Dialling, Holding
<1>1. ASSUME NEW t \in Tasks, StartRequest(t) PROVE LockInv'
  BY <1>1, RolesKnown, RuntimeAssumption DEF StartRequest, At, Goes, UnchangedClients,
     UnchangedRun
<1>2. ASSUME NEW t \in Tasks, EnsureProbes(t) PROVE LockInv'
  BY <1>2, RolesKnown, RuntimeAssumption DEF EnsureProbes, At, Goes, Free, Locks,
     UnchangedClients, UnchangedRun
<1>3. ASSUME NEW t \in Tasks, EnsureReuses(t) PROVE LockInv'
  BY <1>3, RolesKnown, RuntimeAssumption DEF EnsureReuses, At, Goes, UnchangedClients,
     UnchangedRun
<1>4. ASSUME NEW t \in Tasks, EnsureDials(t) PROVE LockInv'
  BY <1>4, RolesKnown, RuntimeAssumption DEF EnsureDials, At, Goes, Free, Locks,
     UnchangedRun
<1>5. ASSUME NEW t \in Tasks, ProbeOk(t) PROVE LockInv'
  BY <1>5, RolesKnown, RuntimeAssumption DEF ProbeOk, At, Goes, Unlocks, UnchangedRun
<1>6. ASSUME NEW t \in Tasks, ProbeFails(t) PROVE LockInv'
  BY <1>6, RolesKnown, RuntimeAssumption DEF ProbeFails, At, Goes, UnchangedRun
<1>7. ASSUME NEW t \in Tasks, DialOk(t) PROVE LockInv'
  BY <1>7, RolesKnown, RuntimeAssumption DEF DialOk, At, Goes, Unlocks
<1>8. ASSUME NEW t \in Tasks, DialFails(t) PROVE LockInv'
  BY <1>8, RolesKnown, RuntimeAssumption DEF DialFails, At, Goes, Unlocks, AfterFailure
<1>9. ASSUME NEW t \in Tasks, DialTimesOut(t) PROVE LockInv'
  BY <1>9, RolesKnown, RuntimeAssumption DEF DialTimesOut, At, Goes, Unlocks, AfterFailure
<1>10. ASSUME NEW t \in Tasks, Proceed(t) PROVE LockInv'
  BY <1>10, RolesKnown, RuntimeAssumption DEF Proceed, At, Goes, UnchangedClients,
     UnchangedRun
<1>11. ASSUME NEW t \in Tasks, NothingToSend(t) PROVE LockInv'
  BY <1>11, RolesKnown, RuntimeAssumption DEF NothingToSend, At, Goes, UnchangedClients,
     UnchangedRun
<1>12. ASSUME NEW t \in Tasks, ContextReuses(t) PROVE LockInv'
  BY <1>12, RolesKnown, RuntimeAssumption DEF ContextReuses, At, Goes, Free, Locks,
     UnchangedRun
<1>13. ASSUME NEW t \in Tasks, ContextDials(t) PROVE LockInv'
  BY <1>13, RolesKnown, RuntimeAssumption DEF ContextDials, At, Goes, Free, Locks,
     UnchangedRun
<1>14. ASSUME NEW t \in Tasks, ResolvePeer(t) PROVE LockInv'
  BY <1>14, RolesKnown, RuntimeAssumption DEF ResolvePeer, At, InUse, UnchangedRun
<1>15. ASSUME NEW t \in Tasks, UseEnds(t) PROVE LockInv'
  BY <1>15, RolesKnown, RuntimeAssumption DEF UseEnds, At, Goes, Unlocks,
     UnchangedClients, UnchangedRun
<1>16. ASSUME NEW t \in Tasks, PublishFails(t) PROVE LockInv'
  BY <1>16, RolesKnown, RuntimeAssumption DEF PublishFails, At, Goes, Unlocks,
     UnchangedClients, UnchangedRun
<1>17. ASSUME NEW t \in Tasks, InvalidateRole(t) PROVE LockInv'
  BY <1>17, RolesKnown, RuntimeAssumption DEF InvalidateRole, At, Goes, Free, UnchangedRun
<1>18. ASSUME CycleTimeout PROVE LockInv'
  BY <1>18, CancelledUnlocks DEF CycleTimeout, Goes, Tasks
<1>19. ASSUME BeginStop PROVE LockInv'
  BY <1>19, CancelledUnlocks DEF BeginStop, Goes, Tasks
<1>20. ASSUME NEW r \in Roles, StopRole(r) PROVE LockInv'
  BY <1>20, RolesKnown, RuntimeAssumption DEF StopRole, Free
<1>21. ASSUME NetFails PROVE LockInv'
  BY <1>21, RolesKnown, RuntimeAssumption DEF NetFails
<1>22. ASSUME NetReturns PROVE LockInv'
  BY <1>22, RolesKnown, RuntimeAssumption DEF NetReturns
<1>23. ASSUME NEW c \in Clients, LinkBreaks(c) PROVE LockInv'
  BY <1>23, RolesKnown, RuntimeAssumption DEF LinkBreaks, UnchangedByLink
<1>24. ASSUME NEW c \in Clients, LinkHeals(c) PROVE LockInv'
  BY <1>24, RolesKnown, RuntimeAssumption DEF LinkHeals, UnchangedByLink
<1>25. ASSUME NEW c \in Clients, LinkDrops(c) PROVE LockInv'
  BY <1>25, RolesKnown, RuntimeAssumption DEF LinkDrops, UnchangedByLink
<1>26. ASSUME ContactAges PROVE LockInv'
  BY <1>26, RolesKnown, RuntimeAssumption DEF ContactAges, UnchangedRun
<1>27. CASE UNCHANGED vars
  BY <1>27 DEF vars
<1> QED BY <1>1, <1>2, <1>3, <1>4, <1>5, <1>6, <1>7, <1>8, <1>9, <1>10, <1>11, <1>12,
   <1>13, <1>14, <1>15, <1>16, <1>17, <1>18, <1>19, <1>20, <1>21, <1>22, <1>23, <1>24,
   <1>25, <1>26, <1>27 DEF Next, TaskStep, NetworkStep, EnsureBegins, ContextBegins,
   ProbeEnds, DialEnds, Used

-----------------------------------------------------------------------------
(* What becomes of the clients *)

LEMMA DisposeClean ==
  ASSUME TypeOK, ClientsOwned, PeersCurrent, NEW r \in Roles, Dispose(r)
  PROVE  /\ table'[r] = None
         /\ \A q \in Roles : q # r => table'[q] = table[q]
         /\ ClientsOwned'
         /\ PeersCurrent'
BY RuntimeAssumption DEF Dispose, TypeOK, ClientsOwned, PeersCurrent

\* Ownership and the peer cache depend on the links only as far as they are
\* connected.
LEMMA NoNewLink ==
  ASSUME ClientsOwned, PeersCurrent, UNCHANGED <<table, peers>>,
         \A c \in Clients : link'[c] \in {"up", "broken"} => link[c] \in {"up", "broken"}
  PROVE  ClientsOwned' /\ PeersCurrent'
BY DEF ClientsOwned, PeersCurrent

LEMMA ClientsNext ==
  ASSUME TypeOK, LockInv, ClientsInv, [Next]_vars
  PROVE  ClientsInv'
<1> USE DEF TypeOK, ClientsInv, DiallingEmpty, Dialling
<1>1. ASSUME NEW t \in Tasks, StartRequest(t) PROVE ClientsInv'
  BY <1>1, NoNewLink DEF StartRequest, At, Goes, UnchangedClients
<1>2. ASSUME NEW t \in Tasks, EnsureProbes(t) PROVE ClientsInv'
  BY <1>2, NoNewLink DEF EnsureProbes, At, Goes, UnchangedClients
<1>3. ASSUME NEW t \in Tasks, EnsureReuses(t) PROVE ClientsInv'
  BY <1>3, NoNewLink DEF EnsureReuses, At, Goes, UnchangedClients
<1>4. ASSUME NEW t \in Tasks, EnsureDials(t) PROVE ClientsInv'
  BY <1>4, RolesKnown, DisposeClean DEF EnsureDials, At, Goes, Free, UnchangedRun
<1>5. ASSUME NEW t \in Tasks, ProbeOk(t) PROVE ClientsInv'
  BY <1>5, NoNewLink DEF ProbeOk, At, Goes
<1>6. ASSUME NEW t \in Tasks, ProbeFails(t) PROVE ClientsInv'
  BY <1>6, RolesKnown, DisposeClean DEF ProbeFails, At, Goes, UnchangedRun
<1>7. ASSUME NEW t \in Tasks, DialOk(t) PROVE ClientsInv'
  <2> DEFINE r == RoleOf(t)
  <2>1. r \in Roles /\ table[r] = None /\ peers[r] = None
    BY <1>7, RolesKnown DEF DialOk, PeersCurrent
  <2>2. NewClient \in Clients /\ link[NewClient] = "gone"
    BY <1>7, NewClientGone DEF DialOk
  <2>3. /\ link' = [link EXCEPT ![NewClient] = "up"]
        /\ table' = [table EXCEPT ![r] = NewClient]
        /\ UNCHANGED peers
    BY <1>7 DEF DialOk
  <2>4. ClientsOwned' /\ PeersCurrent'
    BY <2>1, <2>2, <2>3, RuntimeAssumption DEF ClientsOwned, PeersCurrent
  <2>5. DiallingEmpty'
    <3>1. pc' = [pc EXCEPT ![t] = "ready"] \/ pc' = [pc EXCEPT ![t] = "using"]
      BY <1>7 DEF DialOk, Goes
    <3>2. \A u \in Tasks : u # t /\ RoleOf(u) = r => pc[u] \notin Dialling
      BY <1>7 DEF DialOk, LockInv, Holding
    <3> QED BY <2>3, <3>1, <3>2, RolesKnown DEF Dialling
  <2> QED BY <2>4, <2>5
<1>8. ASSUME NEW t \in Tasks, DialFails(t) PROVE ClientsInv'
  BY <1>8, RolesKnown, DisposeClean DEF DialFails, At, Goes, AfterFailure, UnchangedRun
<1>9. ASSUME NEW t \in Tasks, DialTimesOut(t) PROVE ClientsInv'
  BY <1>9, NoNewLink, LeftBehindTyped DEF DialTimesOut, At, Goes, AfterFailure
<1>10. ASSUME NEW t \in Tasks, Proceed(t) PROVE ClientsInv'
  BY <1>10, NoNewLink DEF Proceed, At, Goes, UnchangedClients
<1>11. ASSUME NEW t \in Tasks, NothingToSend(t) PROVE ClientsInv'
  BY <1>11, NoNewLink DEF NothingToSend, At, Goes, UnchangedClients
<1>12. ASSUME NEW t \in Tasks, ContextReuses(t) PROVE ClientsInv'
  BY <1>12, NoNewLink DEF ContextReuses, At, Goes
<1>13. ASSUME NEW t \in Tasks, ContextDials(t) PROVE ClientsInv'
  BY <1>13, RolesKnown, DisposeClean DEF ContextDials, At, Goes, Free, UnchangedRun
<1>14. ASSUME NEW t \in Tasks, ResolvePeer(t) PROVE ClientsInv'
  <2>1. DiallingEmpty'
    BY <1>14 DEF ResolvePeer
  <2>2. ClientsOwned'
    BY <1>14 DEF ResolvePeer, ClientsOwned
  <2>3. PeersCurrent'
    BY <1>14 DEF ResolvePeer, InUse, PeersCurrent
  <2> QED BY <2>1, <2>2, <2>3
<1>15. ASSUME NEW t \in Tasks, UseEnds(t) PROVE ClientsInv'
  BY <1>15, NoNewLink DEF UseEnds, At, Goes, UnchangedClients
<1>16. ASSUME NEW t \in Tasks, PublishFails(t) PROVE ClientsInv'
  BY <1>16, NoNewLink DEF PublishFails, At, Goes, UnchangedClients
<1>17. ASSUME NEW t \in Tasks, InvalidateRole(t) PROVE ClientsInv'
  BY <1>17, RolesKnown, DisposeClean DEF InvalidateRole, At, Goes, Free, UnchangedRun
<1>18. ASSUME CycleTimeout PROVE ClientsInv'
  BY <1>18, NoNewLink, CancelledTyped DEF CycleTimeout, Goes, Tasks
<1>19. ASSUME BeginStop PROVE ClientsInv'
  BY <1>19, NoNewLink, CancelledTyped DEF BeginStop, Goes, Tasks
<1>20. ASSUME NEW r \in Roles, StopRole(r) PROVE ClientsInv'
  BY <1>20, RolesKnown, DisposeClean DEF StopRole, Free
<1>21. ASSUME NetFails PROVE ClientsInv'
  BY <1>21, NoNewLink DEF NetFails
<1>22. ASSUME NetReturns PROVE ClientsInv'
  BY <1>22, NoNewLink DEF NetReturns
<1>23. ASSUME NEW c \in Clients, LinkBreaks(c) PROVE ClientsInv'
  BY <1>23, NoNewLink DEF LinkBreaks, UnchangedByLink
<1>24. ASSUME NEW c \in Clients, LinkHeals(c) PROVE ClientsInv'
  BY <1>24, NoNewLink DEF LinkHeals, UnchangedByLink
<1>25. ASSUME NEW c \in Clients, LinkDrops(c) PROVE ClientsInv'
  BY <1>25, NoNewLink DEF LinkDrops, UnchangedByLink
<1>26. ASSUME ContactAges PROVE ClientsInv'
  BY <1>26, NoNewLink DEF ContactAges
<1>27. CASE UNCHANGED vars
  BY <1>27 DEF vars, ClientsOwned, PeersCurrent
<1> QED BY <1>1, <1>2, <1>3, <1>4, <1>5, <1>6, <1>7, <1>8, <1>9, <1>10, <1>11, <1>12,
   <1>13, <1>14, <1>15, <1>16, <1>17, <1>18, <1>19, <1>20, <1>21, <1>22, <1>23, <1>24,
   <1>25, <1>26, <1>27 DEF Next, TaskStep, NetworkStep, EnsureBegins, ContextBegins,
   ProbeEnds, DialEnds, Used
-----------------------------------------------------------------------------
(* What stop() has left to do *)

LEMMA StopNext ==
  ASSUME TypeOK, StopInv, [Next]_vars
  PROVE  StopInv'
<1> USE DEF TypeOK, StopInv
<1>1. ASSUME NEW t \in Tasks, StartRequest(t) PROVE StopInv'
  BY <1>1, RolesKnown DEF StartRequest, UnchangedClients, UnchangedRun
<1>2. ASSUME NEW t \in Tasks, EnsureProbes(t) PROVE StopInv'
  BY <1>2, RolesKnown DEF EnsureProbes, UnchangedClients, UnchangedRun
<1>3. ASSUME NEW t \in Tasks, EnsureReuses(t) PROVE StopInv'
  BY <1>3, RolesKnown DEF EnsureReuses, UnchangedClients, UnchangedRun
<1>4. ASSUME NEW t \in Tasks, EnsureDials(t) PROVE StopInv'
  BY <1>4, RolesKnown DEF EnsureDials, Dispose, UnchangedRun
<1>5. ASSUME NEW t \in Tasks, ProbeOk(t) PROVE StopInv'
  BY <1>5, RolesKnown DEF ProbeOk, UnchangedRun
<1>6. ASSUME NEW t \in Tasks, ProbeFails(t) PROVE StopInv'
  BY <1>6, RolesKnown DEF ProbeFails, Dispose, UnchangedRun
<1>7. ASSUME NEW t \in Tasks, DialOk(t) PROVE StopInv'
  BY <1>7, RolesKnown DEF DialOk, UnchangedRun
<1>8. ASSUME NEW t \in Tasks, DialFails(t) PROVE StopInv'
  BY <1>8, RolesKnown DEF DialFails, Dispose, UnchangedRun
<1>9. ASSUME NEW t \in Tasks, DialTimesOut(t) PROVE StopInv'
  BY <1>9, RolesKnown DEF DialTimesOut, UnchangedRun
<1>10. ASSUME NEW t \in Tasks, Proceed(t) PROVE StopInv'
  BY <1>10, RolesKnown DEF Proceed, UnchangedClients, UnchangedRun
<1>11. ASSUME NEW t \in Tasks, NothingToSend(t) PROVE StopInv'
  BY <1>11, RolesKnown DEF NothingToSend, UnchangedClients, UnchangedRun
<1>12. ASSUME NEW t \in Tasks, ContextReuses(t) PROVE StopInv'
  BY <1>12, RolesKnown DEF ContextReuses, UnchangedRun
<1>13. ASSUME NEW t \in Tasks, ContextDials(t) PROVE StopInv'
  BY <1>13, RolesKnown DEF ContextDials, Dispose, UnchangedRun
<1>14. ASSUME NEW t \in Tasks, ResolvePeer(t) PROVE StopInv'
  BY <1>14, RolesKnown DEF ResolvePeer, InUse, UnchangedRun
<1>15. ASSUME NEW t \in Tasks, UseEnds(t) PROVE StopInv'
  BY <1>15, RolesKnown DEF UseEnds, UnchangedClients, UnchangedRun
<1>16. ASSUME NEW t \in Tasks, PublishFails(t) PROVE StopInv'
  BY <1>16, RolesKnown DEF PublishFails, UnchangedClients, UnchangedRun
<1>17. ASSUME NEW t \in Tasks, InvalidateRole(t) PROVE StopInv'
  BY <1>17, RolesKnown DEF InvalidateRole, Dispose, UnchangedRun
<1>18. ASSUME CycleTimeout PROVE StopInv'
  BY <1>18 DEF CycleTimeout, Cancelled
<1>19. ASSUME BeginStop PROVE StopInv'
  BY <1>19 DEF BeginStop, Cancelled
<1>20. ASSUME NEW r \in Roles, StopRole(r) PROVE StopInv'
  BY <1>20, RolesKnown DEF StopRole, Dispose
<1>21. ASSUME NetFails PROVE StopInv'
  BY <1>21, RolesKnown DEF NetFails
<1>22. ASSUME NetReturns PROVE StopInv'
  BY <1>22, RolesKnown DEF NetReturns
<1>23. ASSUME NEW c \in Clients, LinkBreaks(c) PROVE StopInv'
  BY <1>23, RolesKnown DEF LinkBreaks, UnchangedByLink
<1>24. ASSUME NEW c \in Clients, LinkHeals(c) PROVE StopInv'
  BY <1>24, RolesKnown DEF LinkHeals, UnchangedByLink
<1>25. ASSUME NEW c \in Clients, LinkDrops(c) PROVE StopInv'
  BY <1>25, RolesKnown DEF LinkDrops, UnchangedByLink
<1>26. ASSUME ContactAges PROVE StopInv'
  BY <1>26, RolesKnown DEF ContactAges, UnchangedRun
<1>27. CASE UNCHANGED vars
  BY <1>27 DEF vars
<1> QED BY <1>1, <1>2, <1>3, <1>4, <1>5, <1>6, <1>7, <1>8, <1>9, <1>10, <1>11, <1>12,
   <1>13, <1>14, <1>15, <1>16, <1>17, <1>18, <1>19, <1>20, <1>21, <1>22, <1>23, <1>24,
   <1>25, <1>26, <1>27 DEF Next, TaskStep, NetworkStep, EnsureBegins, ContextBegins,
   ProbeEnds, DialEnds, Used

-----------------------------------------------------------------------------
(* The invariant *)

IInv == TypeOK /\ LockInv /\ ClientsInv /\ StopInv

LEMMA InvInit == Init => IInv
<1> SUFFICES ASSUME Init PROVE IInv
  OBVIOUS
<1>1. TypeOK
  BY TypeInit
<1>2. LockInv
  BY RolesKnown, RuntimeAssumption DEF Init, LockInv, Holding, Dialling
<1>3. ClientsInv /\ StopInv
  BY DEF Init, ClientsInv, DiallingEmpty, Dialling, ClientsOwned, PeersCurrent, StopInv
<1> QED BY <1>1, <1>2, <1>3 DEF IInv

LEMMA InvNext == IInv /\ [Next]_vars => IInv'
BY TypeNext, LockNext, ClientsNext, StopNext DEF IInv

LEMMA Invariance == Spec => []IInv
BY InvInit, InvNext, PTL DEF Spec

\* Every connected client is the client of a role (runtime.py:160, 175).
THEOREM NoClientForgotten == Spec => []ClientsOwned
<1>1. IInv => ClientsOwned
  BY DEF IInv, ClientsInv
<1> QED BY Invariance, <1>1, PTL

\* No cached peer outlives the client that resolved it (runtime.py:178).
THEOREM NoStalePeer == Spec => []PeersCurrent
<1>1. IInv => PeersCurrent
  BY DEF IInv, ClientsInv
<1> QED BY Invariance, <1>1, PTL

\* A completed stop() leaves only what was dialled after it began
\* (runtime.py:116).
THEOREM StopIsComplete == Spec => []StopLeavesLate
<1>1. IInv => StopLeavesLate
  BY DEF IInv, StopInv, StopLeavesLate, Stopped
<1> QED BY Invariance, <1>1, PTL

-----------------------------------------------------------------------------
(* Ready and degraded *)

LEMMA ReadyStep ==
  ASSUME TypeOK, [Next]_vars, NEW u \in Tasks, pc[u] # "ready", pc'[u] = "ready"
  PROVE  ~health'.degraded
<1>1. CASE \E t \in Tasks : EnsureReuses(t)
  BY <1>1 DEF EnsureReuses, ShouldProbe, Goes, TypeOK
<1>2. CASE \E t \in Tasks : ProbeOk(t) \/ DialOk(t)
  BY <1>2, SuccessTyped DEF ProbeOk, DialOk, Success, TypeOK
<1>3. CASE \E t \in Tasks : \/ StartRequest(t) \/ EnsureProbes(t) \/ EnsureDials(t)
                           \/ ProbeFails(t) \/ DialFails(t) \/ DialTimesOut(t)
                           \/ Proceed(t) \/ NothingToSend(t)
  BY <1>3 DEF StartRequest, EnsureProbes, EnsureDials, ProbeFails, DialFails, DialTimesOut,
              Proceed, NothingToSend, Goes, AfterFailure, TypeOK
<1>4. CASE \E t \in Tasks : \/ ContextReuses(t) \/ ContextDials(t) \/ ResolvePeer(t)
                           \/ UseEnds(t) \/ PublishFails(t) \/ InvalidateRole(t)
  BY <1>4 DEF ContextReuses, ContextDials, ResolvePeer, UseEnds, PublishFails, InvalidateRole,
              Goes, TypeOK
<1>5. CASE CycleTimeout \/ BeginStop
  BY <1>5 DEF CycleTimeout, BeginStop, Goes, TypeOK
<1>6. CASE (\E r \in Roles : StopRole(r)) \/ NetworkStep \/ UNCHANGED vars
  BY <1>6 DEF StopRole, NetworkStep, NetFails, NetReturns, LinkBreaks, LinkHeals, LinkDrops,
              UnchangedByLink, ContactAges, vars
<1> QED BY <1>1, <1>2, <1>3, <1>4, <1>5, <1>6
        DEF Next, TaskStep, EnsureBegins, ContextBegins, ProbeEnds, DialEnds, Used

\* No role becomes ready while the channel is degraded (runtime.py:71).
THEOREM ReadyMeansAnswered == Spec => ReadyNotDegraded
<1>1. TypeOK /\ [Next]_vars =>
        [\A t \in Tasks : pc[t] # "ready" /\ pc'[t] = "ready" => ~health'.degraded]_vars
  BY ReadyStep
<1> QED BY TypeCorrect, <1>1, PTL DEF Spec, ReadyNotDegraded

-----------------------------------------------------------------------------
(* The runtime implements RoleClients *)

SameUsers == \A r \in Roles : UserOf(r)' = UserOf(r)

LEMMA Stutters ==
  ASSUME SameUsers, table' = table
  PROVE  UNCHANGED RC!vars
BY DEF SameUsers, RC!vars

LEMMA Closes ==
  ASSUME NEW r \in Roles, SameUsers, UserOf(r) = None, table' = [table EXCEPT ![r] = None]
  PROVE  RC!Next
<1>1. RC!Close(r)
  BY DEF RC!Close, SameUsers
<1> QED BY <1>1 DEF RC!Next

LEMMA Opens ==
  ASSUME NEW r \in Roles, NEW c \in Clients, SameUsers, UserOf(r) = None,
         table' = [table EXCEPT ![r] = c]
  PROVE  RC!Next
<1>1. RC!Open(r, c)
  BY DEF RC!Open, SameUsers
<1> QED BY <1>1 DEF RC!Next

LEMMA Takes ==
  ASSUME NEW r \in Roles, NEW t \in Tasks, NEW c \in Clients, UserOf(r) = None, UserOf(r)' = t,
         \A q \in Roles \ {r} : UserOf(q)' = UserOf(q),
         table' = [table EXCEPT ![r] = c]
  PROVE  RC!Next
<1>1. RC!Take(r, t, c)
  BY DEF RC!Take
<1> QED BY <1>1 DEF RC!Next

LEMMA Gives ==
  ASSUME NEW r \in Roles, UserOf(r)' = None, table' = table,
         \A q \in Roles \ {r} : UserOf(q)' = UserOf(q)
  PROVE  RC!Next
<1>1. RC!Give(r)
  BY DEF RC!Give
<1> QED BY <1>1 DEF RC!Next

\* A task's step does not touch the use of the other role.
LEMMA OtherRole ==
  ASSUME TypeOK, LockInv, NEW t \in Tasks, NEW step, Goes(t, step),
         \A r \in Roles \ {RoleOf(t)} : lock'[r] = lock[r]
  PROVE  \A r \in Roles \ {RoleOf(t)} : UserOf(r)' = UserOf(r)
BY DEF TypeOK, LockInv, Goes, UserOf, At

\* A task that uses no client, before or after, changes no user.
LEMMA NotUsing ==
  ASSUME TypeOK, LockInv, NEW t \in Tasks, NEW step, Goes(t, step),
         pc[t] # "using", step # "using",
         UNCHANGED lock \/ (Locks(t) /\ Free(RoleOf(t))) \/ (Unlocks(t) /\ pc[t] \in Holding)
  PROVE  SameUsers
<1>1. \A r \in Roles \ {RoleOf(t)} : UserOf(r)' = UserOf(r)
  BY OtherRole, RolesKnown DEF TypeOK, Locks, Unlocks
<1>2. UserOf(RoleOf(t))' = UserOf(RoleOf(t))
  BY RolesKnown, RuntimeAssumption
     DEF TypeOK, LockInv, Goes, UserOf, At, Locks, Free, Unlocks, Holding
<1> QED BY <1>1, <1>2 DEF SameUsers

\* A task that begins or ends its use.
LEMMA BeginsUse ==
  ASSUME TypeOK, LockInv, NEW t \in Tasks, Goes(t, "using"),
         (Free(RoleOf(t)) /\ Locks(t)) \/ (pc[t] \in Dialling /\ UNCHANGED lock)
  PROVE  /\ UserOf(RoleOf(t)) = None
         /\ UserOf(RoleOf(t))' = t
         /\ \A r \in Roles \ {RoleOf(t)} : UserOf(r)' = UserOf(r)
<1>1. \A r \in Roles \ {RoleOf(t)} : UserOf(r)' = UserOf(r)
  BY OtherRole, RolesKnown DEF TypeOK, Locks
<1>2. UserOf(RoleOf(t)) = None
  BY RolesKnown DEF TypeOK, LockInv, UserOf, At, Free, Holding, Dialling
<1>3. lock'[RoleOf(t)] = t
  BY RolesKnown DEF TypeOK, LockInv, Locks, Holding
<1> QED BY <1>1, <1>2, <1>3, RolesKnown, RuntimeAssumption DEF TypeOK, UserOf, At, Goes

LEMMA EndsUse ==
  ASSUME TypeOK, LockInv, NEW t \in Tasks, NEW step, Goes(t, step), Unlocks(t)
  PROVE  /\ UserOf(RoleOf(t))' = None
         /\ \A r \in Roles \ {RoleOf(t)} : UserOf(r)' = UserOf(r)
<1>1. \A r \in Roles \ {RoleOf(t)} : UserOf(r)' = UserOf(r)
  BY OtherRole, RolesKnown DEF TypeOK, Unlocks
<1> QED BY <1>1, RolesKnown DEF TypeOK, UserOf, Unlocks

\* A cancelled task no longer uses its client.
LEMMA CancelledUse ==
  ASSUME TypeOK, LockInv, NEW t \in Tasks, NEW step, Goes(t, step), step # "using",
         Cancelled(t)
  PROVE  /\ SameUsers \/ UserOf(RoleOf(t))' = None
         /\ \A r \in Roles \ {RoleOf(t)} : UserOf(r)' = UserOf(r)
         /\ table' = table
<1>1. \A r \in Roles \ {RoleOf(t)} : lock'[r] = lock[r]
  BY DEF Cancelled, LockInv, TypeOK
<1>2. \A r \in Roles \ {RoleOf(t)} : UserOf(r)' = UserOf(r)
  BY <1>1, OtherRole
<1>3. CASE lock[RoleOf(t)] = t
  <2>1. lock'[RoleOf(t)] = None
    BY <1>3, RolesKnown DEF Cancelled, TypeOK
  <2> QED BY <2>1, <1>2 DEF Cancelled, UserOf
<1>4. CASE lock[RoleOf(t)] # t
  <2>1. lock'[RoleOf(t)] = lock[RoleOf(t)]
    BY <1>4, RolesKnown DEF Cancelled, TypeOK
  <2>2. UserOf(RoleOf(t))' = UserOf(RoleOf(t))
    BY <1>4, <2>1, RolesKnown DEF UserOf, At, Goes, TypeOK
  <2> QED BY <2>2, <1>2 DEF Cancelled, SameUsers
<1> QED BY <1>3, <1>4

LEMMA UsersOfSame ==
  ASSUME UNCHANGED <<lock, pc>>
  PROVE  SameUsers
BY DEF SameUsers, UserOf, At

LEMMA FreeHasNoUser ==
  ASSUME NEW r \in Roles, Free(r)
  PROVE  UserOf(r) = None
BY DEF Free, UserOf

LEMMA HolderNotUsing ==
  ASSUME LockInv, NEW t \in Tasks, pc[t] \in Holding \ {"using"}
  PROVE  UserOf(RoleOf(t)) = None
BY DEF LockInv, UserOf, At

LEMMA UseStep ==
  ASSUME TypeOK, LockInv, [Next]_vars
  PROVE  [RC!Next]_(RC!vars)
<1>1. ASSUME NEW t \in Tasks, StartRequest(t) PROVE [RC!Next]_(RC!vars)
  BY <1>1, NotUsing, Stutters DEF StartRequest, At, UnchangedClients
<1>2. ASSUME NEW t \in Tasks, EnsureProbes(t) PROVE [RC!Next]_(RC!vars)
  BY <1>2, NotUsing, Stutters DEF EnsureProbes, At, UnchangedClients
<1>3. ASSUME NEW t \in Tasks, EnsureReuses(t) PROVE [RC!Next]_(RC!vars)
  BY <1>3, NotUsing, Stutters DEF EnsureReuses, At, UnchangedClients
<1>4. ASSUME NEW t \in Tasks, EnsureDials(t) PROVE [RC!Next]_(RC!vars)
  BY <1>4, NotUsing, FreeHasNoUser, Closes, RolesKnown DEF EnsureDials, At, Dispose
<1>5. ASSUME NEW t \in Tasks, ProbeOk(t) PROVE [RC!Next]_(RC!vars)
  BY <1>5, NotUsing, Stutters DEF ProbeOk, At, Holding
<1>6. ASSUME NEW t \in Tasks, ProbeFails(t) PROVE [RC!Next]_(RC!vars)
  BY <1>6, NotUsing, HolderNotUsing, Closes, RolesKnown DEF ProbeFails, At, Dispose, Holding
<1>7. ASSUME NEW t \in Tasks, DialOk(t) PROVE [RC!Next]_(RC!vars)
  <2>1. NewClient \in Clients /\ table' = [table EXCEPT ![RoleOf(t)] = NewClient]
    BY <1>7, NewClientGone DEF DialOk
  <2>2. CASE At(t, "ensure_dial") /\ Unlocks(t) /\ Goes(t, "ready")
    <3>1. SameUsers /\ UserOf(RoleOf(t)) = None
      BY <2>2, NotUsing, HolderNotUsing DEF At, Dialling, Holding
    <3> QED BY <2>1, <3>1, Opens, RolesKnown
  <2>3. CASE At(t, "context_dial") /\ UNCHANGED lock /\ Goes(t, "using")
    <3>1. /\ UserOf(RoleOf(t)) = None
          /\ UserOf(RoleOf(t))' = t
          /\ \A r \in Roles \ {RoleOf(t)} : UserOf(r)' = UserOf(r)
      BY <2>3, BeginsUse DEF At, Dialling
    <3> QED BY <2>1, <3>1, Takes, RolesKnown
  <2> QED BY <1>7, <2>2, <2>3 DEF DialOk
<1>8. ASSUME NEW t \in Tasks, DialFails(t) PROVE [RC!Next]_(RC!vars)
  <2>1. PICK step \in AfterFailure(t) : Goes(t, step)
    BY <1>8 DEF DialFails
  <2>2. SameUsers
    BY <1>8, <2>1, NotUsing DEF DialFails, AfterFailure, Dialling, Holding
  <2> QED BY <1>8, <2>2, HolderNotUsing, Closes, RolesKnown
           DEF DialFails, Dispose, Dialling, Holding
<1>9. ASSUME NEW t \in Tasks, DialTimesOut(t) PROVE [RC!Next]_(RC!vars)
  <2>1. PICK step \in AfterFailure(t) : Goes(t, step)
    BY <1>9 DEF DialTimesOut
  <2> QED BY <1>9, <2>1, NotUsing, Stutters DEF DialTimesOut, AfterFailure, Dialling, Holding
<1>10. ASSUME NEW t \in Tasks, Proceed(t) PROVE [RC!Next]_(RC!vars)
  BY <1>10, NotUsing, Stutters DEF Proceed, At, UnchangedClients
<1>11. ASSUME NEW t \in Tasks, NothingToSend(t) PROVE [RC!Next]_(RC!vars)
  BY <1>11, NotUsing, Stutters DEF NothingToSend, At, UnchangedClients
<1>12. ASSUME NEW t \in Tasks, ContextReuses(t) PROVE [RC!Next]_(RC!vars)
  <2>1. table[RoleOf(t)] \in Clients /\ table' = [table EXCEPT ![RoleOf(t)] = table[RoleOf(t)]]
    BY <1>12, RolesKnown DEF ContextReuses, Connected, IsConnected, TypeOK
  <2>2. /\ UserOf(RoleOf(t)) = None
        /\ UserOf(RoleOf(t))' = t
        /\ \A r \in Roles \ {RoleOf(t)} : UserOf(r)' = UserOf(r)
    BY <1>12, BeginsUse DEF ContextReuses
  <2> QED BY <2>1, <2>2, Takes, RolesKnown
<1>13. ASSUME NEW t \in Tasks, ContextDials(t) PROVE [RC!Next]_(RC!vars)
  BY <1>13, NotUsing, FreeHasNoUser, Closes, RolesKnown DEF ContextDials, At, Dispose
<1>14. ASSUME NEW t \in Tasks, ResolvePeer(t) PROVE [RC!Next]_(RC!vars)
  BY <1>14, UsersOfSame, Stutters DEF ResolvePeer
<1>15. ASSUME NEW t \in Tasks, UseEnds(t) PROVE [RC!Next]_(RC!vars)
  BY <1>15, EndsUse, Gives, RolesKnown DEF UseEnds, UnchangedClients
<1>16. ASSUME NEW t \in Tasks, PublishFails(t) PROVE [RC!Next]_(RC!vars)
  BY <1>16, EndsUse, Gives, RolesKnown DEF PublishFails, UnchangedClients
<1>17. ASSUME NEW t \in Tasks, InvalidateRole(t) PROVE [RC!Next]_(RC!vars)
  BY <1>17, NotUsing, FreeHasNoUser, Closes, RolesKnown DEF InvalidateRole, At, Dispose
<1>18. ASSUME CycleTimeout PROVE [RC!Next]_(RC!vars)
  BY <1>18, CancelledUse, Gives, Stutters, RolesKnown DEF CycleTimeout, Tasks
<1>19. ASSUME BeginStop PROVE [RC!Next]_(RC!vars)
  BY <1>19, CancelledUse, Gives, Stutters, RolesKnown DEF BeginStop, Tasks
<1>20. ASSUME NEW r \in Roles, StopRole(r) PROVE [RC!Next]_(RC!vars)
  BY <1>20, UsersOfSame, FreeHasNoUser, Closes DEF StopRole, Dispose
<1>21. ASSUME NetFails PROVE [RC!Next]_(RC!vars)
  BY <1>21, UsersOfSame, Stutters DEF NetFails
<1>22. ASSUME NetReturns PROVE [RC!Next]_(RC!vars)
  BY <1>22, UsersOfSame, Stutters DEF NetReturns
<1>23. ASSUME NEW c \in Clients, LinkBreaks(c) PROVE [RC!Next]_(RC!vars)
  BY <1>23, UsersOfSame, Stutters DEF LinkBreaks, UnchangedByLink
<1>24. ASSUME NEW c \in Clients, LinkHeals(c) PROVE [RC!Next]_(RC!vars)
  BY <1>24, UsersOfSame, Stutters DEF LinkHeals, UnchangedByLink
<1>25. ASSUME NEW c \in Clients, LinkDrops(c) PROVE [RC!Next]_(RC!vars)
  BY <1>25, UsersOfSame, Stutters DEF LinkDrops, UnchangedByLink
<1>26. ASSUME ContactAges PROVE [RC!Next]_(RC!vars)
  BY <1>26, UsersOfSame, Stutters DEF ContactAges
<1>27. CASE UNCHANGED vars
  BY <1>27, UsersOfSame, Stutters DEF vars
<1> QED BY <1>1, <1>2, <1>3, <1>4, <1>5, <1>6, <1>7, <1>8, <1>9, <1>10, <1>11, <1>12,
   <1>13, <1>14, <1>15, <1>16, <1>17, <1>18, <1>19, <1>20, <1>21, <1>22, <1>23, <1>24,
   <1>25, <1>26, <1>27 DEF Next, TaskStep, NetworkStep, EnsureBegins, ContextBegins,
   ProbeEnds, DialEnds, Used

\* The clients of the roles are used by one task at a time and neither closed
\* nor exchanged meanwhile, whatever the tasks and the network do
\* (runtime.py:56, 121).
THEOREM RuntimeImplementsRoleClients == Spec => ImplementsRoleClients
<1>1. Init => RC!Init
  BY DEF Init, UserOf, RC!Init
<1>2. IInv /\ [Next]_vars => [RC!Next]_(RC!vars)
  BY UseStep DEF IInv
<1> QED BY <1>1, <1>2, Invariance, PTL DEF Spec, ImplementsRoleClients, RC!Spec
=============================================================================
