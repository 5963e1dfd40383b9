--------------------------- MODULE TelegramRuntime ---------------------------
(***************************************************************************)
(* The connected Telethon clients of the process (telegram/runtime.py), by *)
(* role: the publisher's, used by the worker's dispatches and by manual    *)
(* sends, and the one that downloads large media for uploads.  Each role   *)
(* has an asyncio lock, a client in the table, the peers it resolved, and  *)
(* the time of the last successful contact; both report to the health of   *)
(* the MTProto channel.                                                    *)
(*                                                                         *)
(* A step ends where the code awaits Telegram or a lock.  Of time there is *)
(* whether the last contact is within the probe interval.  How a dial      *)
(* (connect_runtime_client) finds its session is SessionArtifacts.         *)
(***************************************************************************)
EXTENDS ConnectivityMonitor, FiniteSets

CONSTANTS
    None,
    Worker,      \* the worker task
    Senders,     \* the tasks of manual sends
    Uploads,     \* the tasks that download media through MTProto
    Clients,     \* the client objects there can be at a time
    MaxTroubles  \* bound: breakdowns of the network or of a link, and timeouts

Tasks == {Worker} \cup Senders \cup Uploads

Roles == {"publisher", "media_fallback"}

RoleOf(t) == IF t \in Uploads THEN "media_fallback" ELSE "publisher"

ASSUME RuntimeAssumption ==
    /\ Worker \notin Senders \cup Uploads
    /\ Senders \cap Uploads = {}
    /\ None \notin Tasks
    /\ None \notin Clients
    /\ MaxTroubles \in Nat

VARIABLES
    net,       \* whether Telegram can be reached
    link,      \* the connection of each client
    table,     \* _clients: the client of each role, or None
    lock,      \* the task that holds each role's lock, or None
    fresh,     \* whether the role's last contact is within the probe interval
    peers,     \* the client whose peers the role's cache holds, or None
    health,    \* the health of the MTProto channel
    pc,        \* where each task is
    phase,     \* whether the process is running or stopping
    to_stop,   \* the roles that stop() has still to stop
    late,      \* history: clients dialled after stop() began
    troubles   \* breakdowns and timeouts so far

vars == <<net, link, table, lock, fresh, peers, health, pc, phase, to_stop, late, troubles>>

(***************************************************************************)
(* A link is up; or broken, which the client has not noticed: it is        *)
(* connected and its calls fail; or down.  A gone client is no object any  *)
(* more; a left one is connected, and nobody has it.                       *)
(***************************************************************************)
Links == {"up", "broken", "down", "gone", "left"}

Waiting == {"ensure", "context", "invalidate"}
Dialling == {"ensure_dial", "context_dial"}
Holding == Dialling \cup {"probe", "using"}
Steps == {"idle", "ready"} \cup Waiting \cup Holding

TypeOK ==
    /\ net \in {"up", "down"}
    /\ link \in [Clients -> Links]
    /\ table \in [Roles -> Clients \cup {None}]
    /\ lock \in [Roles -> Tasks \cup {None}]
    /\ fresh \in [Roles -> BOOLEAN]
    /\ peers \in [Roles -> Clients \cup {None}]
    /\ health \in ChannelHealth
    /\ pc \in [Tasks -> Steps]
    /\ phase \in {"running", "stopping"}
    /\ to_stop \subseteq Roles
    /\ late \subseteq Clients
    /\ troubles \in 0 .. MaxTroubles

Init ==
    /\ net \in {"up", "down"}
    /\ link = [c \in Clients |-> "gone"]
    /\ table = [r \in Roles |-> None]
    /\ lock = [r \in Roles |-> None]
    /\ fresh = [r \in Roles |-> FALSE]
    /\ peers = [r \in Roles |-> None]
    /\ health = Healthy
    /\ pc = [t \in Tasks |-> "idle"]
    /\ phase = "running"
    /\ to_stop = {}
    /\ late = {}
    /\ troubles = 0

IsConnected(c) == c # None /\ link[c] \in {"up", "broken"}

Connected(r) == IsConnected(table[r])

At(t, step) == pc[t] = step

Goes(t, step) == pc' = [pc EXCEPT ![t] = step]

Free(r) == lock[r] = None

Locks(t) == lock' = [lock EXCEPT ![RoleOf(t)] = t]

Unlocks(t) == lock' = [lock EXCEPT ![RoleOf(t)] = None]

Success == health' = report_success(health)

Failure == \E due \in BOOLEAN : health' = report_failure(health, FALSE, due)

Stamp(r) == fresh' = [fresh EXCEPT ![r] = TRUE]

Trouble ==
    /\ troubles < MaxTroubles
    /\ troubles' = troubles + 1

\* Mutant of Dispose: the client leaves the table without being disconnected.
DisposeConnected(r) ==
    /\ table' = [table EXCEPT ![r] = None]
    /\ fresh' = [fresh EXCEPT ![r] = FALSE]
    /\ peers' = [peers EXCEPT ![r] = None]
    /\ UNCHANGED link

\* Mutant of Dispose: the role's peers stay in the cache.
DisposeKeepsPeers(r) ==
    /\ table' = [table EXCEPT ![r] = None]
    /\ fresh' = [fresh EXCEPT ![r] = FALSE]
    /\ link' = IF table[r] = None THEN link ELSE [link EXCEPT ![table[r]] = "gone"]
    /\ UNCHANGED peers

\* _dispose_client_locked
Dispose(r) ==
    /\ table' = [table EXCEPT ![r] = None]
    /\ fresh' = [fresh EXCEPT ![r] = FALSE]
    /\ peers' = [peers EXCEPT ![r] = None]
    /\ link' = IF table[r] = None THEN link ELSE [link EXCEPT ![table[r]] = "gone"]

UnchangedClients == UNCHANGED <<link, table, fresh, peers>>

UnchangedRun == UNCHANGED <<net, phase, to_stop>>

-----------------------------------------------------------------------------
(* ensure_role_ready *)

StartRequest(t) ==
    /\ At(t, "idle")
    /\ phase = "running"
    /\ Goes(t, IF t \in Uploads THEN "context" ELSE "ensure")
    /\ UnchangedClients /\ UnchangedRun
    /\ UNCHANGED <<lock, health, late, troubles>>

\* Mutant of ShouldProbe: a degraded channel is no reason to probe.
ShouldProbeByAge(r) == Connected(r) /\ ~fresh[r]

ShouldProbe(r) == Connected(r) /\ (health.degraded \/ ~fresh[r])

EnsureProbes(t) ==
    /\ At(t, "ensure")
    /\ Free(RoleOf(t))
    /\ ShouldProbe(RoleOf(t))
    /\ Locks(t)
    /\ Goes(t, "probe")
    /\ UnchangedClients /\ UnchangedRun
    /\ UNCHANGED <<health, late, troubles>>

EnsureReuses(t) ==
    /\ At(t, "ensure")
    /\ Free(RoleOf(t))
    /\ Connected(RoleOf(t))
    /\ ~ShouldProbe(RoleOf(t))
    /\ Goes(t, "ready")
    /\ UnchangedClients /\ UnchangedRun
    /\ UNCHANGED <<lock, health, late, troubles>>

EnsureDials(t) ==
    /\ At(t, "ensure")
    /\ Free(RoleOf(t))
    /\ ~Connected(RoleOf(t))
    /\ Dispose(RoleOf(t))
    /\ Locks(t)
    /\ Goes(t, "ensure_dial")
    /\ UnchangedRun
    /\ UNCHANGED <<health, late, troubles>>

ProbeOk(t) ==
    /\ At(t, "probe")
    /\ Connected(RoleOf(t)) /\ link[table[RoleOf(t)]] = "up"
    /\ Success
    /\ Stamp(RoleOf(t))
    /\ Unlocks(t)
    /\ Goes(t, "ready")
    /\ UnchangedRun
    /\ UNCHANGED <<link, table, peers, late, troubles>>

\* The probe's error or timeout disposes of the client and dials another.
ProbeFails(t) ==
    /\ At(t, "probe")
    /\ ~(Connected(RoleOf(t)) /\ link[table[RoleOf(t)]] = "up")
    /\ Failure
    /\ Dispose(RoleOf(t))
    /\ Goes(t, "ensure_dial")
    /\ UnchangedRun
    /\ UNCHANGED <<lock, late, troubles>>

-----------------------------------------------------------------------------
(* The end of a dial: _ensure_client_locked under its timeout *)

HasRoom == \E c \in Clients : link[c] = "gone"

NewClient == CHOOSE c \in Clients : link[c] = "gone"

\* The new client is the role's; its dialler is ready, or goes on to use it.
DialOk(t) ==
    /\ pc[t] \in Dialling
    /\ net = "up"
    /\ HasRoom
    /\ link' = [link EXCEPT ![NewClient] = "up"]
    /\ table' = [table EXCEPT ![RoleOf(t)] = NewClient]
    /\ late' = IF phase = "running" THEN late ELSE late \cup {NewClient}
    /\ Success
    /\ Stamp(RoleOf(t))
    /\ \/ At(t, "ensure_dial") /\ Unlocks(t) /\ Goes(t, "ready")
       \/ At(t, "context_dial") /\ UNCHANGED lock /\ Goes(t, "using")
    /\ UnchangedRun
    /\ UNCHANGED <<peers, troubles>>

\* Where a task goes when its request fails: the worker invalidates the role
\* after a failure worth a retry.
AfterFailure(t) == IF t = Worker THEN {"idle", "invalidate"} ELSE {"idle"}

DialFails(t) ==
    /\ pc[t] \in Dialling
    /\ net = "down"
    /\ Failure
    /\ Dispose(RoleOf(t))
    /\ Unlocks(t)
    /\ \E step \in AfterFailure(t) : Goes(t, step)
    /\ UnchangedRun
    /\ UNCHANGED <<late, troubles>>

\* A dial cut off by a timeout may have connected already: nobody closes the
\* client then, connect_runtime_client only catches exceptions.  Bound: as
\* many stay behind as there are clients beside one of each role.
LeftBehind ==
    LET left == {c \in Clients : link[c] = "left"}
    IN  IF Cardinality(left) + Cardinality(Roles) < Cardinality(Clients)
        THEN {link, [link EXCEPT ![NewClient] = "left"]}
        ELSE {link}

DialTimesOut(t) ==
    /\ pc[t] \in Dialling
    /\ Trouble
    /\ link' \in LeftBehind
    /\ Failure
    /\ Unlocks(t)
    /\ \E step \in AfterFailure(t) : Goes(t, step)
    /\ UnchangedRun
    /\ UNCHANGED <<table, fresh, peers, late>>

-----------------------------------------------------------------------------
(* client_context and what its users do *)

Proceed(t) ==
    /\ At(t, "ready")
    /\ Goes(t, "context")
    /\ UnchangedClients /\ UnchangedRun
    /\ UNCHANGED <<lock, health, late, troubles>>

\* There is nothing to send, or its media cannot be prepared.
NothingToSend(t) ==
    /\ At(t, "ready")
    /\ Goes(t, "idle")
    /\ UnchangedClients /\ UnchangedRun
    /\ UNCHANGED <<lock, health, late, troubles>>

ContextReuses(t) ==
    /\ At(t, "context")
    /\ Free(RoleOf(t))
    /\ Connected(RoleOf(t))
    /\ Success
    /\ Stamp(RoleOf(t))
    /\ Locks(t)
    /\ Goes(t, "using")
    /\ UnchangedRun
    /\ UNCHANGED <<link, table, peers, late, troubles>>

ContextDials(t) ==
    /\ At(t, "context")
    /\ Free(RoleOf(t))
    /\ ~Connected(RoleOf(t))
    /\ Dispose(RoleOf(t))
    /\ Locks(t)
    /\ Goes(t, "context_dial")
    /\ UnchangedRun
    /\ UNCHANGED <<health, late, troubles>>

InUse(t) == table[RoleOf(t)]

\* resolve_input_peer, of a download whose source has to be searched for
ResolvePeer(t) ==
    /\ At(t, "using")
    /\ t \in Uploads
    /\ peers[RoleOf(t)] = None
    /\ IsConnected(InUse(t)) /\ link[InUse(t)] = "up"
    /\ peers' = [peers EXCEPT ![RoleOf(t)] = InUse(t)]
    /\ UnchangedRun
    /\ UNCHANGED <<link, table, lock, fresh, health, pc, late, troubles>>

\* The work is done or refused; over a link that is not up it fails, after
\* which only the worker does anything about the client.
UseEnds(t) ==
    /\ At(t, "using")
    /\ t = Worker => IsConnected(InUse(t)) /\ link[InUse(t)] = "up"
    /\ Unlocks(t)
    /\ Goes(t, "idle")
    /\ UnchangedClients /\ UnchangedRun
    /\ UNCHANGED <<health, late, troubles>>

\* Mutant of PublishFails: the role is not invalidated after the failure.
PublishFailsQuietly(t) ==
    /\ At(t, "using")
    /\ t = Worker
    /\ Unlocks(t)
    /\ Goes(t, "idle")
    /\ UnchangedClients /\ UnchangedRun
    /\ UNCHANGED <<health, late, troubles>>

PublishFails(t) ==
    /\ At(t, "using")
    /\ t = Worker
    /\ Unlocks(t)
    /\ Goes(t, "invalidate")
    /\ UnchangedClients /\ UnchangedRun
    /\ UNCHANGED <<health, late, troubles>>

\* Mutant of InvalidateRole: it does not wait for the role's lock.
InvalidateRoleAtOnce(t) ==
    /\ At(t, "invalidate")
    /\ Dispose(RoleOf(t))
    /\ Goes(t, "idle")
    /\ UnchangedRun
    /\ UNCHANGED <<lock, health, late, troubles>>

\* invalidate_role
InvalidateRole(t) ==
    /\ At(t, "invalidate")
    /\ Free(RoleOf(t))
    /\ Dispose(RoleOf(t))
    /\ Goes(t, "idle")
    /\ UnchangedRun
    /\ UNCHANGED <<lock, health, late, troubles>>

\* A cancelled task leaves its locks; nothing is reported or disposed of.
Cancelled(t) ==
    /\ lock' = [r \in Roles |-> IF lock[r] = t THEN None ELSE lock[r]]
    /\ IF pc[t] \in Dialling THEN link' \in LeftBehind ELSE UNCHANGED link
    /\ UNCHANGED <<table, fresh, peers, health, late, net>>

\* wait_for of run_forever ends the cycle, then the role is invalidated.
CycleTimeout ==
    /\ pc[Worker] \notin {"idle", "invalidate"}
    /\ Trouble
    /\ Cancelled(Worker)
    /\ Goes(Worker, "invalidate")
    /\ UNCHANGED <<phase, to_stop>>

-----------------------------------------------------------------------------
(* The launcher's end: the worker is cancelled, then stop() *)

\* Mutant of BeginStop: only the publisher is listed.
BeginStopPublisher ==
    /\ phase = "running"
    /\ phase' = "stopping"
    /\ to_stop' = {r \in {"publisher"} : table[r] # None}
    /\ Cancelled(Worker)
    /\ Goes(Worker, "idle")
    /\ UNCHANGED troubles

\* Mutant of BeginStop: it lists the clients of the roles.
BeginStopClients ==
    /\ phase = "running"
    /\ phase' = "stopping"
    /\ to_stop' = {table[r] : r \in Roles} \ {None}
    /\ Cancelled(Worker)
    /\ Goes(Worker, "idle")
    /\ UNCHANGED troubles

BeginStop ==
    /\ phase = "running"
    /\ phase' = "stopping"
    /\ to_stop' = {r \in Roles : table[r] # None}
    /\ Cancelled(Worker)
    /\ Goes(Worker, "idle")
    /\ UNCHANGED troubles

StopRole(r) ==
    /\ phase = "stopping"
    /\ r \in to_stop
    /\ Free(r)
    /\ Dispose(r)
    /\ to_stop' = to_stop \ {r}
    /\ UNCHANGED <<net, lock, health, pc, phase, late, troubles>>

Stopped == phase = "stopping" /\ to_stop = {}

-----------------------------------------------------------------------------
(* The network, Telethon's own reconnection, and time *)

NetFails ==
    /\ net = "up"
    /\ Trouble
    /\ net' = "down"
    /\ link' = [c \in Clients |-> IF link[c] = "up" THEN "broken" ELSE link[c]]
    /\ UNCHANGED <<table, lock, fresh, peers, health, pc, phase, to_stop, late>>

NetReturns ==
    /\ net = "down"
    /\ net' = "up"
    /\ UNCHANGED <<link, table, lock, fresh, peers, health, pc, phase, to_stop, late, troubles>>

UnchangedByLink == UNCHANGED <<net, table, lock, fresh, peers, pc, phase, to_stop, late>>

LinkBreaks(c) ==
    /\ link[c] = "up"
    /\ Trouble
    /\ link' = [link EXCEPT ![c] = "broken"]
    /\ UNCHANGED health
    /\ UnchangedByLink

LinkHeals(c) ==
    /\ link[c] = "broken"
    /\ net = "up"
    /\ link' = [link EXCEPT ![c] = "up"]
    /\ UNCHANGED <<health, troubles>>
    /\ UnchangedByLink

\* Telethon gives up; if the server closed the connection, the log's filter
\* reports it.
LinkDrops(c) ==
    /\ link[c] = "broken"
    /\ link' = [link EXCEPT ![c] = "down"]
    /\ Failure \/ UNCHANGED health
    /\ UNCHANGED troubles
    /\ UnchangedByLink

\* Only ensure_role_ready asks how old a contact is, and only for the publisher.
ContactAges ==
    /\ fresh["publisher"]
    /\ fresh' = [fresh EXCEPT !["publisher"] = FALSE]
    /\ UnchangedRun
    /\ UNCHANGED <<link, table, lock, peers, health, pc, late, troubles>>

-----------------------------------------------------------------------------
EnsureBegins(t) == EnsureProbes(t) \/ EnsureReuses(t) \/ EnsureDials(t)
ContextBegins(t) == ContextReuses(t) \/ ContextDials(t)
ProbeEnds(t) == ProbeOk(t) \/ ProbeFails(t)
DialEnds(t) == DialOk(t) \/ DialFails(t)
Used(t) == UseEnds(t) \/ PublishFails(t)

TaskStep(t) ==
    \/ StartRequest(t)
    \/ EnsureBegins(t)
    \/ ProbeEnds(t)
    \/ DialEnds(t)
    \/ DialTimesOut(t)
    \/ Proceed(t)
    \/ NothingToSend(t)
    \/ ContextBegins(t)
    \/ ResolvePeer(t)
    \/ Used(t)
    \/ InvalidateRole(t)

NetworkStep ==
    \/ NetFails
    \/ NetReturns
    \/ \E c \in Clients : LinkBreaks(c) \/ LinkHeals(c) \/ LinkDrops(c)
    \/ ContactAges

Next ==
    \/ \E t \in Tasks : TaskStep(t)
    \/ CycleTimeout
    \/ BeginStop
    \/ \E r \in Roles : StopRole(r)
    \/ NetworkStep

(***************************************************************************)
(* The event loop runs a task that can go on; a lock is handed to its      *)
(* waiters in the order they came; an attempt on the network ends, by its  *)
(* timeout at the latest; time passes.  The worker starts cycles, and      *)
(* finds something due again and again.                                    *)
(***************************************************************************)
TaskFairness(t) ==
    /\ SF_vars(EnsureBegins(t))
    /\ SF_vars(ContextBegins(t))
    /\ SF_vars(InvalidateRole(t))
    /\ WF_vars(ProbeEnds(t))
    /\ WF_vars(DialEnds(t))
    /\ WF_vars(Used(t))
    /\ WF_vars(Proceed(t) \/ NothingToSend(t))

Fairness ==
    /\ \A t \in {Worker} \cup Senders : TaskFairness(t)
    /\ WF_vars(StartRequest(Worker))
    /\ SF_vars(Proceed(Worker))
    /\ WF_vars(ContactAges)

Spec == Init /\ [][Next]_vars

FairSpec == Spec /\ Fairness

-----------------------------------------------------------------------------
(* Properties *)

\* Every connected client is the client of a role: whatever ends a request,
\* the program closes what it drops.  Left out are the dials a timeout or a
\* cancellation cut off, which the runtime never saw (runtime.py:160, 175).
ClientsOwned ==
    \A c \in Clients : link[c] \in {"up", "broken"} => \E r \in Roles : table[r] = c

\* The peers in a role's cache were resolved by the client it has now: a
\* cached peer is not used with another session (runtime.py:139, 178).
PeersCurrent ==
    \A r \in Roles : peers[r] \in {None, table[r]}

\* A role is never called ready on the word of an old contact while the
\* channel is degraded, by whichever role: there was an answer just now
\* (runtime.py:71).
ReadyNotDegraded ==
    [][\A t \in Tasks : pc[t] # "ready" /\ pc'[t] = "ready" => ~health'.degraded]_vars

\* stop() leaves no client behind, of either role, but those that a request
\* still running dialled after it began (runtime.py:116, launcher.py:211).
StopLeavesLate ==
    Stopped => \A r \in Roles : table[r] \in late \cup {None}

\* The task that uses a role's client.
UserOf(r) == IF lock[r] # None /\ At(lock[r], "using") THEN lock[r] ELSE None

RC == INSTANCE RoleClients WITH user <- [r \in Roles |-> UserOf(r)], client <- table

\* One task at a time uses a role's client, which stays open and the same
\* until then, although requests are made ready, invalidated, timed out and
\* stopped from elsewhere (runtime.py:56, 121).
ImplementsRoleClients == RC!Spec

\* When the network has come back for good, the worker publishes over a link
\* that is up again and again, even if Telethon never notices a broken one
\* (runtime.py:71, worker/service.py:62).
PublisherRecovers ==
    (<>[](net = "up") /\ [](phase = "running")) =>
        []<>(At(Worker, "using") /\ Connected("publisher") /\ link[table["publisher"]] = "up")
=============================================================================
