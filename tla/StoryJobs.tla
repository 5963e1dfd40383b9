------------------------------ MODULE StoryJobs ------------------------------
(***************************************************************************)
(* The scheduled_stories table and everything that reads and writes it in  *)
(* the unified client process: the worker's cycle (startup repair, claim,  *)
(* dispatch, mark), and the bot's handlers (create, delete, manual send),  *)
(* which run concurrently, each over its own SQLAlchemy session.           *)
(*                                                                         *)
(* SQLite lets one transaction at a time hold the write lock; it is taken  *)
(* by a session's first UPDATE, INSERT or DELETE and kept until it commits,*)
(* others read the last committed rows meanwhile, and a session that wants *)
(* it waits for the busy timeout and then fails.  A SELECT opens no        *)
(* transaction.  An object of a session is the copy it loaded; flushing it *)
(* writes by id the columns that differ from what was loaded.              *)
(***************************************************************************)
EXTENDS SchedulingRules, FiniteSets

CONSTANTS
    Worker,        \* the worker task
    Handlers,      \* the tasks that run bot handlers
    Commands,      \* the schedules operators ask for
    MaxJobId,      \* bound: ids are 1..MaxJobId
    MaxCreated,    \* bound: rows created in a behaviour
    MaxTime,       \* bound: the last instant
    MaxInterrupts, \* bound: process crashes plus cycle timeouts
    BatchSize,     \* WORKER_BATCH_SIZE
    JobLockTtl,    \* JOB_LOCK_TTL_SECONDS
    MinLead,       \* ONE_TIME_MIN_LEAD_SECONDS
    FloodWait      \* a flood wait within PUBLISH_RETRY_MAX_FLOOD_WAIT_SECONDS

OnceCommand(c) ==
    /\ c.schedule_type = "once"
    /\ c.scheduled_date \in Int
    /\ c.scheduled_time \in 0 .. SecondsPerDay - 1

WeeklyCommand(c) ==
    /\ c.schedule_type = "weekly"
    /\ c.weekdays \subseteq 0 .. DaysPerWeek - 1
    /\ c.weekdays # {}
    /\ c.scheduled_time \in 0 .. SecondsPerDay - 1

ASSUME StoryJobsAssumption ==
    /\ \A c \in Commands : OnceCommand(c) \/ WeeklyCommand(c)
    /\ Worker \notin Handlers
    /\ None \notin Handlers \cup {Worker}
    /\ MaxJobId \in Nat
    /\ MaxCreated \in Nat
    /\ MaxTime \in Nat
    /\ MaxInterrupts \in Nat
    /\ BatchSize \in Nat \ {0}
    /\ JobLockTtl \in Nat
    /\ MinLead \in Nat
    /\ FloodWait \in Nat

VARIABLES
    now,            \* the clock
    db,             \* committed rows by id; None where there is no row
    created,        \* rows created so far: the generation of the newest one
    writer,         \* the session that holds SQLite's write lock, or None
    role,           \* the task that holds the publisher role's lock, or None
    pc,             \* where each task is
    job,            \* the id each task works on
    copy,           \* the row of that id as the task's session has it
    outcome,        \* how its dispatch ended
    batch,          \* the worker's claimed (or, in repair, listed) copies
    stamp,          \* the timestamp of the repair under way
    repair_checked, \* _repair_checked
    interrupts,     \* crashes and cycle timeouts so far
    posts,          \* history: <<generation, local date>> of each publication
    duplicates,     \* history: <<schedule type, generation>> published again
    unheard,        \* history: generations with a publication no mark records
    overwritten     \* history: generations whose row was written or deleted from a stale copy

taskVars    == <<pc, job, copy, outcome, batch, stamp>>
historyVars == <<posts, duplicates, unheard, overwritten>>
vars == <<now, db, created, writer, role, taskVars, repair_checked, interrupts, historyVars>>

JobIds == 1 .. MaxJobId
Tasks  == Handlers \cup {Worker}
Statuses == {"pending", "processing", "sent", "failed", "cancelled"}

\* What last_error tells the code: nothing, a text that looks transient, one
\* that the repair wrote, or any other.
Errors == {"none", "transient", "recovered", "terminal"}

\* lock_token and locked_at are always set and cleared together, and the token
\* is never compared: locked_at stands for both.  attempt_count, last_sent_at
\* and updated_at decide nothing.
Row == [command                 : Commands,
        gen                     : 1 .. MaxCreated,
        status                  : Statuses,
        next_run_at             : Int \cup {None},
        retry_count             : Nat,
        retry_window_started_at : Int \cup {None},
        last_error              : Errors,
        last_sent_date          : Int \cup {None},
        locked_at               : Int \cup {None}]

ASSUME RowAssumption == None \notin Row

\* How a dispatch ends: published; a retryable failure whose text looks
\* transient ("dropped") or not ("offline"), or a flood wait within the limit;
\* a failure that is not retried whose text looks transient ("unavailable": a
\* longer flood wait, a connection refused by the bootstrap) or not.
Failures  == {"dropped", "offline", "flood", "unavailable", "rejected"}
Outcomes  == {"none", "sent"} \cup Failures
Retryable(o)  == o \in {"dropped", "offline", "flood"}
ErrorText(o)  == IF o \in {"dropped", "flood", "unavailable"} THEN "transient" ELSE "terminal"
RetryAfter(o) == IF o = "flood" THEN FloodWait ELSE None

Dispatching == {"ensure", "media", "acquire", "publishing", "rebuild", "republishing", "mark"}
WorkerPCs   == {"idle", "repair", "batch"} \cup Dispatching
HandlerPCs  == {"idle", "delete", "claim"} \cup Dispatching

-----------------------------------------------------------------------------
(* What the marking functions make of a session's copy of a row.           *)

\* Mutant of Cleared: the counter is removed, not reset.
ClearedToNone(row) == [row EXCEPT !.retry_count = None, !.retry_window_started_at = None, !.locked_at = None]

Cleared(row) == [row EXCEPT !.retry_count = 0, !.retry_window_started_at = None, !.locked_at = None]

Claimed(row, t) == [row EXCEPT !.status = "processing", !.locked_at = t]

\* Mutant of Sent: a one-time job is rescheduled like a weekly one.
SentAndRescheduled(row, t) ==
    LET today == local_schedule_date(t)
    IN  [Cleared(row) EXCEPT
           !.last_error = "none",
           !.last_sent_date = today,
           !.status = "pending",
           !.next_run_at = compute_next_run_at(row.command, t + 1, today)]

\* Mutant of Sent: the day of this publication is not passed on.
SentForgetful(row, t) ==
    [Cleared(row) EXCEPT
       !.last_error = "none",
       !.last_sent_date = local_schedule_date(t),
       !.status = IF row.command.schedule_type = "once" THEN "sent" ELSE "pending",
       !.next_run_at = IF row.command.schedule_type = "once" THEN None
                       ELSE compute_next_run_at(row.command, t + 1, row.last_sent_date)]

Sent(row, t) ==
    LET today == local_schedule_date(t)
    IN  [Cleared(row) EXCEPT
           !.last_error = "none",
           !.last_sent_date = today,
           !.status = IF row.command.schedule_type = "once" THEN "sent" ELSE "pending",
           !.next_run_at = IF row.command.schedule_type = "once" THEN None
                           ELSE compute_next_run_at(row.command, t + 1, today)]

\* Mutant of Failed: the day of the last publication is not passed on.
FailedForgetful(row, error, t) ==
    [Cleared(row) EXCEPT
       !.last_error = error,
       !.status = "failed",
       !.next_run_at = IF row.command.schedule_type = "once" THEN None
                       ELSE compute_next_run_at(row.command, t + 1, None)]

Failed(row, error, t) ==
    [Cleared(row) EXCEPT
       !.last_error = error,
       !.status = "failed",
       !.next_run_at = IF row.command.schedule_type = "once" THEN None
                       ELSE compute_next_run_at(row.command, t + 1, row.last_sent_date)]

\* Mutant of Retried: the lock is not given back.
RetriedLocked(row, plan) ==
    [row EXCEPT !.retry_count = plan.retry_count,
                !.retry_window_started_at = plan.window_started_at,
                !.last_error = "transient",
                !.status = "pending",
                !.next_run_at = plan.next_run_at]

Retried(row, plan) ==
    [row EXCEPT !.retry_count = plan.retry_count,
                !.retry_window_started_at = plan.window_started_at,
                !.last_error = "transient",
                !.locked_at = None,
                !.status = "pending",
                !.next_run_at = plan.next_run_at]

\* Mutant of PublishFailed: an answer that was lost counts as a success.
PublishFailedOptimistic(row, o, t) ==
    LET plan == plan_transient_retry(row, t, RetryAfter(o))
    IN  IF o = "dropped"          THEN Sent(row, t)
        ELSE IF ~Retryable(o)     THEN Failed(row, ErrorText(o), t)
        ELSE IF plan.should_retry THEN Retried(row, plan)
        ELSE Failed(row, "terminal", t)

\* Mutant of PublishFailed: a retry that is refused is not marked as failed.
PublishFailedUnmarked(row, o, t) ==
    LET plan == plan_transient_retry(row, t, RetryAfter(o))
    IN  IF ~Retryable(o)        THEN Failed(row, ErrorText(o), t)
        ELSE IF plan.should_retry THEN Retried(row, plan)
        ELSE row

\* _handle_publish_failure; a refused retry leaves the text of the closed window
PublishFailed(row, o, t) ==
    LET plan == plan_transient_retry(row, t, RetryAfter(o))
    IN  IF ~Retryable(o)        THEN Failed(row, ErrorText(o), t)
        ELSE IF plan.should_retry THEN Retried(row, plan)
        ELSE Failed(row, "terminal", t)

\* One turn of the loop of repair_recoverable_failed_jobs
Repaired(row, t) ==
    LET plan == plan_transient_retry(row, t, PublishRetryBaseDelay)
    IN  IF plan.should_retry
        THEN [Cleared(row) EXCEPT !.status = "pending", !.last_error = "recovered",
                                  !.next_run_at = plan.next_run_at]
        ELSE Failed(row, "terminal", t)

LooksTransient(row) == row.last_error \in {"transient", "recovered"}

Cancelled(row) == [row EXCEPT !.status = "cancelled", !.next_run_at = None, !.locked_at = None]

\* A flush sets in the row the columns the session changed since it loaded them.
Dirty(loaded, new, stored) == IF new = loaded THEN stored ELSE new

Flush(row, loaded, new) ==
    [row EXCEPT
       !.status                  = Dirty(loaded.status, new.status, @),
       !.next_run_at             = Dirty(loaded.next_run_at, new.next_run_at, @),
       !.retry_count             = Dirty(loaded.retry_count, new.retry_count, @),
       !.retry_window_started_at = Dirty(loaded.retry_window_started_at, new.retry_window_started_at, @),
       !.last_error              = Dirty(loaded.last_error, new.last_error, @),
       !.last_sent_date          = Dirty(loaded.last_sent_date, new.last_sent_date, @),
       !.locked_at               = Dirty(loaded.locked_at, new.locked_at, @)]

\* The generations concerned when a copy that is no longer the row is used for it
Stale(row, loaded) == IF row = loaded THEN {} ELSE {row.gen, loaded.gen}

-----------------------------------------------------------------------------
(* Which rows a claim takes.                                               *)

\* Mutant of Claimable: rows whose attempt is under way are eligible too.
ClaimableAgain(row) == row.status \in {"pending", "failed", "processing"}

Claimable(row) ==
    /\ row.status \in {"pending", "failed"}
    /\ row.locked_at # None => row.locked_at < now - JobLockTtl

Due(j) ==
    /\ db[j] # None
    /\ db[j].next_run_at # None
    /\ db[j].next_run_at <= now
    /\ Claimable(db[j])

Before(i, j) ==
    \/ db[i].next_run_at < db[j].next_run_at
    \/ db[i].next_run_at = db[j].next_run_at /\ i < j

\* ORDER BY next_run_at, id LIMIT BatchSize
DueBatch == {j \in JobIds : Due(j) /\ Cardinality({i \in JobIds : Due(i) /\ Before(i, j)}) < BatchSize}

NoBatch == [j \in JobIds |-> None]

CanWrite(a) == writer \in {None, a}
Unlocked(holder, a) == IF holder = a THEN None ELSE holder

Init ==
    /\ now = 0
    /\ db = [j \in JobIds |-> None]
    /\ created = 0
    /\ writer = None
    /\ role = None
    /\ pc = [a \in Tasks |-> "idle"]
    /\ job = [a \in Tasks |-> None]
    /\ copy = [a \in Tasks |-> None]
    /\ outcome = [a \in Tasks |-> "none"]
    /\ batch = NoBatch
    /\ stamp = 0
    /\ repair_checked = FALSE
    /\ interrupts = 0
    /\ posts = {}
    /\ duplicates = {}
    /\ unheard = {}
    /\ overwritten = {}

Tick ==
    /\ now < MaxTime
    /\ now' = now + 1
    /\ UNCHANGED <<db, created, writer, role, taskVars, repair_checked, interrupts, historyVars>>

-----------------------------------------------------------------------------
(* Task bookkeeping.                                                       *)

Goto(a, label) == pc' = [pc EXCEPT ![a] = label]

\* The task goes on to label with nothing in hand.
Release(a, label) ==
    /\ Goto(a, label)
    /\ job' = [job EXCEPT ![a] = None]
    /\ copy' = [copy EXCEPT ![a] = None]
    /\ outcome' = [outcome EXCEPT ![a] = "none"]

Load(a, j, row, label) ==
    /\ Goto(a, label)
    /\ job' = [job EXCEPT ![a] = j]
    /\ copy' = [copy EXCEPT ![a] = row]
    /\ UNCHANGED outcome

\* Mutant of Ended: client_context leaves its lock taken.
EndedInRole(a, o) ==
    /\ Goto(a, "mark")
    /\ outcome' = [outcome EXCEPT ![a] = o]
    /\ UNCHANGED <<role, job, copy>>

\* The dispatch ends: the role's lock is released and the outcome is marked next.
Ended(a, o) ==
    /\ Goto(a, "mark")
    /\ outcome' = [outcome EXCEPT ![a] = o]
    /\ role' = Unlocked(role, a)
    /\ UNCHANGED <<job, copy>>

\* Telegram has the story of task a's copy.
Posted(a) ==
    LET g     == copy[a].gen
        today == local_schedule_date(now)
        again == IF copy[a].command.schedule_type = "once"
                 THEN \E p \in posts : p[1] = g
                 ELSE a = Worker /\ <<g, today>> \in posts
    IN  /\ posts' = posts \cup {<<g, today>>}
        /\ duplicates' = IF again THEN duplicates \cup {<<copy[a].command.schedule_type, g>>} ELSE duplicates

-----------------------------------------------------------------------------
(* Bot: create a job.                                                      *)

\* INTEGER PRIMARY KEY without AUTOINCREMENT: the id is one more than the
\* largest in the table, so the id of a purged last row comes back.
CreateJob(j, c) ==
    LET next == compute_next_run_at(c, now, None)
    IN  /\ created < MaxCreated
        /\ \A i \in j .. MaxJobId : db[i] = None
        /\ j > 1 => db[j - 1] # None
        /\ writer = None
        /\ next # None
        /\ c.schedule_type = "once" => next - now >= MinLead
        /\ created' = created + 1
        /\ db' = [db EXCEPT ![j] =
                    [command |-> c, gen |-> created + 1, status |-> "pending", next_run_at |-> next,
                     retry_count |-> 0, retry_window_started_at |-> None, last_error |-> "none",
                     last_sent_date |-> None, locked_at |-> None]]
        /\ UNCHANGED <<now, writer, role, taskVars, repair_checked, interrupts, historyVars>>

-----------------------------------------------------------------------------
(* Bot: delete a job.  The read and the write are two statements, and only *)
(* the write locks.                                                        *)

DeleteRead(h, j) ==
    /\ pc[h] = "idle"
    /\ db[j] # None
    /\ db[j].status # "processing"
    /\ Load(h, j, db[j], "delete")
    /\ UNCHANGED <<now, db, created, writer, role, batch, stamp, repair_checked, interrupts, historyVars>>

\* Mutant of DeleteCancel: a job is cancelled whatever its status.
DeleteCancelAny(h) ==
    /\ pc[h] = "delete"
    /\ writer = None
    /\ db[job[h]] # None
    /\ db' = [db EXCEPT ![job[h]] = Flush(@, copy[h], Cancelled(copy[h]))]
    /\ overwritten' = overwritten \cup Stale(db[job[h]], copy[h])
    /\ Release(h, "idle")
    /\ UNCHANGED <<now, created, writer, role, batch, stamp, repair_checked, interrupts, posts, duplicates, unheard>>

DeleteCancel(h) ==
    /\ pc[h] = "delete"
    /\ writer = None
    /\ copy[h].status \in {"pending", "failed"}
    /\ db[job[h]] # None
    /\ db' = [db EXCEPT ![job[h]] = Flush(@, copy[h], Cancelled(copy[h]))]
    /\ overwritten' = overwritten \cup Stale(db[job[h]], copy[h])
    /\ Release(h, "idle")
    /\ UNCHANGED <<now, created, writer, role, batch, stamp, repair_checked, interrupts, posts, duplicates, unheard>>

DeletePurge(h) ==
    /\ pc[h] = "delete"
    /\ writer = None
    /\ copy[h].status \in {"sent", "cancelled"}
    /\ db' = [db EXCEPT ![job[h]] = None]
    /\ overwritten' = IF db[job[h]] = None THEN overwritten
                      ELSE overwritten \cup Stale(db[job[h]], copy[h])
    /\ Release(h, "idle")
    /\ UNCHANGED <<now, created, writer, role, batch, stamp, repair_checked, interrupts, posts, duplicates, unheard>>

-----------------------------------------------------------------------------
(* Bot: send a job now.                                                    *)

ManualRead(h, j) ==
    /\ pc[h] = "idle"
    /\ db[j] # None
    /\ db[j].status \in {"pending", "failed"}
    /\ Load(h, j, db[j], "claim")
    /\ UNCHANGED <<now, db, created, writer, role, batch, stamp, repair_checked, interrupts, historyVars>>

\* Mutant of ManualClaim: the condition is tested on the copy read before.
ManualClaimUnchecked(h) ==
    /\ pc[h] = "claim"
    /\ writer = None
    /\ db[job[h]] # None
    /\ Claimable(copy[h])
    /\ writer' = h
    /\ Goto(h, "ensure")
    /\ copy' = [copy EXCEPT ![h] = Claimed(@, now)]
    /\ overwritten' = overwritten \cup Stale(db[job[h]], copy[h])
    /\ UNCHANGED <<now, db, created, role, job, outcome, batch, stamp, repair_checked, interrupts,
                   posts, duplicates, unheard>>

\* claim_for_dispatch is not committed: the handler keeps the write lock, and
\* the table shows the unclaimed row, until the whole request is done.
ManualClaim(h) ==
    /\ pc[h] = "claim"
    /\ writer = None
    /\ db[job[h]] # None
    /\ Claimable(db[job[h]])
    /\ writer' = h
    /\ Goto(h, "ensure")
    /\ copy' = [copy EXCEPT ![h] = Claimed(@, now)]
    /\ overwritten' = overwritten \cup Stale(db[job[h]], copy[h])
    /\ UNCHANGED <<now, db, created, role, job, outcome, batch, stamp, repair_checked, interrupts,
                   posts, duplicates, unheard>>

\* The write is refused: the row is gone (a delete of it), not claimable (a
\* claim of it), or the write lock stays taken for the busy timeout.
HandlerRefused(h) ==
    /\ \/ /\ pc[h] \in {"delete", "claim"}
          /\ writer # None
       \/ /\ pc[h] = "delete"
          /\ copy[h].status \in {"pending", "failed"}
          /\ db[job[h]] = None
       \/ /\ pc[h] = "claim"
          /\ writer = None
          /\ db[job[h]] # None => ~Claimable(db[job[h]])
    /\ Release(h, "idle")
    /\ UNCHANGED <<now, db, created, writer, role, batch, stamp, repair_checked, interrupts, historyVars>>

\* mark_sent or mark_failed, then the commit of the whole request
ManualMark(h) ==
    LET new == IF outcome[h] = "sent" THEN Sent(copy[h], now)
               ELSE Failed(copy[h], ErrorText(outcome[h]), now)
    IN  /\ h \in Handlers
        /\ pc[h] = "mark"
        /\ db' = [db EXCEPT ![job[h]] = Flush(Claimed(@, copy[h].locked_at), copy[h], new)]
        /\ writer' = None
        /\ Release(h, "idle")
        /\ UNCHANGED <<now, created, role, batch, stamp, repair_checked, interrupts, historyVars>>

-----------------------------------------------------------------------------
(* dispatch_claimed_job, by the worker or by a handler.                    *)

\* ensure_role_ready takes the role's lock, so it waits for another's publication.
EnsureRoleReady(a) ==
    /\ pc[a] = "ensure"
    /\ role = None
    /\ \/ Goto(a, "media") /\ UNCHANGED <<job, copy, outcome, role>>
       \/ Ended(a, "offline")
    /\ UNCHANGED <<now, db, created, writer, batch, stamp, repair_checked, interrupts, historyVars>>

\* The original is gone, or its preparation fails or times out.
MediaFails(a) == UNCHANGED writer /\ \E o \in {"rejected", "dropped"} : Ended(a, o)

\* The prepared file is there, or it is rebuilt and its path flushed.
EnsureMedia(a) ==
    /\ pc[a] = "media"
    /\ \/ Goto(a, "acquire") /\ UNCHANGED <<job, copy, outcome, role, writer>>
       \/ /\ CanWrite(a)
          /\ db[job[a]] # None
          /\ writer' = a
          /\ Goto(a, "acquire")
          /\ UNCHANGED <<job, copy, outcome, role>>
       \/ MediaFails(a)
    /\ UNCHANGED <<now, db, created, batch, stamp, repair_checked, interrupts, historyVars>>

\* client_context: the lock, then a connection
AcquireRole(a) ==
    /\ pc[a] = "acquire"
    /\ role = None
    /\ \/ Goto(a, "publishing") /\ role' = a /\ UNCHANGED <<job, copy, outcome>>
       \/ \E o \in {"dropped", "unavailable", "rejected"} : Ended(a, o)
    /\ UNCHANGED <<now, db, created, writer, batch, stamp, repair_checked, interrupts, historyVars>>

Publishing(a) == pc[a] \in {"publishing", "republishing"}

PublishOk(a) ==
    /\ Publishing(a)
    /\ Posted(a)
    /\ Ended(a, "sent")
    /\ UNCHANGED <<now, db, created, writer, batch, stamp, repair_checked, interrupts, unheard, overwritten>>

\* Telegram posts the story and the answer is lost, or comes after the timeout.
PublishUnheard(a) ==
    /\ Publishing(a)
    /\ Posted(a)
    /\ unheard' = unheard \cup {copy[a].gen}
    /\ Ended(a, "dropped")
    /\ UNCHANGED <<now, db, created, writer, batch, stamp, repair_checked, interrupts, overwritten>>

PublishFails(a) ==
    /\ Publishing(a)
    /\ \E o \in Failures : Ended(a, o)
    /\ UNCHANGED <<now, db, created, writer, batch, stamp, repair_checked, interrupts, historyVars>>

\* The first "media file invalid" answer leads to a rebuild under the role's
\* lock; the second is a failure like any other.
MediaInvalid(a) ==
    /\ pc[a] = "publishing"
    /\ Goto(a, "rebuild")
    /\ UNCHANGED <<now, db, created, writer, role, job, copy, outcome, batch, stamp,
                   repair_checked, interrupts, historyVars>>

RebuildMedia(a) ==
    /\ pc[a] = "rebuild"
    /\ \/ /\ CanWrite(a)
          /\ db[job[a]] # None
          /\ writer' = a
          /\ Goto(a, "republishing")
          /\ UNCHANGED <<job, copy, outcome, role>>
       \/ MediaFails(a)
    /\ UNCHANGED <<now, db, created, batch, stamp, repair_checked, interrupts, historyVars>>

Dispatch(a) ==
    \/ EnsureRoleReady(a)
    \/ EnsureMedia(a)
    \/ AcquireRole(a)
    \/ PublishOk(a)
    \/ PublishUnheard(a)
    \/ PublishFails(a)
    \/ MediaInvalid(a)
    \/ RebuildMedia(a)

-----------------------------------------------------------------------------
(* Worker: the repair of failed jobs, once per process.                    *)

FailedJobs == {j \in JobIds : db[j] # None /\ db[j].status = "failed"}

RepairRead ==
    /\ pc[Worker] = "idle"
    /\ ~repair_checked
    /\ Goto(Worker, "repair")
    /\ batch' = [j \in JobIds |-> IF j \in FailedJobs THEN db[j] ELSE None]
    /\ stamp' = now
    /\ UNCHANGED <<now, db, created, writer, role, job, copy, outcome, repair_checked, interrupts, historyVars>>

RepairWrites == {j \in JobIds : batch[j] # None /\ LooksTransient(batch[j])}

\* Mutant of RepairCommit: the repair is never noted as done.
RepairCommitForgotten ==
    /\ pc[Worker] = "repair"
    /\ RepairWrites # {} => writer = None
    /\ \A j \in RepairWrites : db[j] # None
    /\ db' = [j \in JobIds |-> IF j \in RepairWrites
                               THEN Flush(db[j], batch[j], Repaired(batch[j], stamp))
                               ELSE db[j]]
    /\ overwritten' = overwritten \cup UNION {Stale(db[j], batch[j]) : j \in RepairWrites}
    /\ batch' = NoBatch
    /\ stamp' = 0
    /\ Goto(Worker, "idle")
    /\ UNCHANGED <<now, created, writer, role, job, copy, outcome, repair_checked, interrupts,
                   posts, duplicates, unheard>>

\* Every row is flushed before the one commit.
RepairCommit ==
    /\ pc[Worker] = "repair"
    /\ RepairWrites # {} => writer = None
    /\ \A j \in RepairWrites : db[j] # None
    /\ db' = [j \in JobIds |-> IF j \in RepairWrites
                               THEN Flush(db[j], batch[j], Repaired(batch[j], stamp))
                               ELSE db[j]]
    /\ overwritten' = overwritten \cup UNION {Stale(db[j], batch[j]) : j \in RepairWrites}
    /\ repair_checked' = TRUE
    /\ batch' = NoBatch
    /\ stamp' = 0
    /\ Goto(Worker, "idle")
    /\ UNCHANGED <<now, created, writer, role, job, copy, outcome, interrupts, posts, duplicates, unheard>>

-----------------------------------------------------------------------------
(* Worker: claim, take one, mark.                                          *)

\* Not reached unless ensure_role_ready, which needs the role's lock, says yes.
ClaimDueJobs ==
    /\ pc[Worker] = "idle"
    /\ repair_checked
    /\ role = None
    /\ writer = None
    /\ DueBatch # {}
    /\ db' = [j \in JobIds |-> IF j \in DueBatch THEN Claimed(db[j], now) ELSE db[j]]
    /\ batch' = [j \in JobIds |-> IF j \in DueBatch THEN Claimed(db[j], now) ELSE None]
    /\ Goto(Worker, "batch")
    /\ UNCHANGED <<now, created, writer, role, job, copy, outcome, stamp, repair_checked, interrupts, historyVars>>

\* RETURNING gives the claimed rows in no particular order.
TakeJob(j) ==
    /\ pc[Worker] = "batch"
    /\ batch[j] # None
    /\ Load(Worker, j, batch[j], "ensure")
    /\ batch' = [batch EXCEPT ![j] = None]
    /\ UNCHANGED <<now, db, created, writer, role, stamp, repair_checked, interrupts, historyVars>>

\* Mutant of WorkerMark: a failed attempt leaves the loop.
WorkerMarkAndLeave ==
    LET j   == job[Worker]
        row == copy[Worker]
        new == IF outcome[Worker] = "sent" THEN Sent(row, now)
               ELSE PublishFailed(row, outcome[Worker], now)
    IN  /\ pc[Worker] = "mark"
        /\ Retryable(outcome[Worker]) => role = None
        /\ CanWrite(Worker)
        /\ db[j] # None
        /\ db' = [db EXCEPT ![j] = Flush(@, row, new)]
        /\ overwritten' = overwritten \cup Stale(db[j], row)
        /\ writer' = None
        /\ Release(Worker, IF batch = NoBatch \/ outcome[Worker] # "sent" THEN "idle" ELSE "batch")
        /\ UNCHANGED <<now, created, role, batch, stamp, repair_checked, interrupts, posts, duplicates, unheard>>

\* The flush and the commit that follows it; a retryable failure first
\* invalidates the role, which needs its lock.
WorkerMark ==
    LET j   == job[Worker]
        row == copy[Worker]
        new == IF outcome[Worker] = "sent" THEN Sent(row, now)
               ELSE PublishFailed(row, outcome[Worker], now)
    IN  /\ pc[Worker] = "mark"
        /\ Retryable(outcome[Worker]) => role = None
        /\ CanWrite(Worker)
        /\ db[j] # None
        /\ db' = [db EXCEPT ![j] = Flush(@, row, new)]
        /\ overwritten' = overwritten \cup Stale(db[j], row)
        /\ writer' = None
        /\ Release(Worker, IF batch = NoBatch THEN "idle" ELSE "batch")
        /\ UNCHANGED <<now, created, role, batch, stamp, repair_checked, interrupts, posts, duplicates, unheard>>

\* The cycle is over with whatever it had claimed: the session closes.
EndCycle ==
    /\ Release(Worker, "idle")
    /\ batch' = NoBatch
    /\ stamp' = 0
    /\ writer' = Unlocked(writer, Worker)
    /\ role' = Unlocked(role, Worker)
    /\ UNCHANGED <<now, db, created, repair_checked>>

\* Generations of these tasks whose publication is not recorded yet
Unrecorded(S) == {copy[a].gen : a \in {b \in S : outcome[b] = "sent"}}

\* A flush fails: the write lock stays taken for the busy timeout, or the row
\* is gone (StaleDataError).  The error leaves run_once through a commit of
\* the broken session.
WorkerFlushFails ==
    /\ \/ /\ pc[Worker] = "repair"
          /\ RepairWrites # {}
          /\ writer # None \/ \E j \in RepairWrites : db[j] = None
       \/ /\ pc[Worker] \in {"media", "rebuild", "mark"}
          /\ ~CanWrite(Worker) \/ db[job[Worker]] = None
    /\ EndCycle
    /\ unheard' = unheard \cup Unrecorded({Worker})
    /\ UNCHANGED <<interrupts, posts, duplicates, overwritten>>

\* Interrupted while publishing, the story may be out or not.
MaybePosted(S) ==
    /\ UNCHANGED overwritten
    /\ \/ /\ unheard' = unheard \cup Unrecorded(S)
          /\ UNCHANGED <<posts, duplicates>>
       \/ \E a \in S : /\ Publishing(a)
                       /\ Posted(a)
                       /\ unheard' = unheard \cup Unrecorded(S) \cup {copy[a].gen}

\* wait_for cancels run_once: no handler of run_once sees a CancelledError.
CycleTimeout ==
    /\ interrupts < MaxInterrupts
    /\ pc[Worker] # "idle"
    /\ interrupts' = interrupts + 1
    /\ EndCycle
    /\ MaybePosted({Worker})

-----------------------------------------------------------------------------
\* The process dies, uncommitted writes with it, and is started again.
Crash ==
    /\ interrupts < MaxInterrupts
    /\ interrupts' = interrupts + 1
    /\ pc' = [a \in Tasks |-> "idle"]
    /\ job' = [a \in Tasks |-> None]
    /\ copy' = [a \in Tasks |-> None]
    /\ outcome' = [a \in Tasks |-> "none"]
    /\ batch' = NoBatch
    /\ stamp' = 0
    /\ writer' = None
    /\ role' = None
    /\ repair_checked' = FALSE
    /\ MaybePosted(Tasks)
    /\ UNCHANGED <<now, db, created>>

Next ==
    \/ Tick
    \/ \E j \in JobIds, c \in Commands : CreateJob(j, c)
    \/ \E h \in Handlers, j \in JobIds : DeleteRead(h, j) \/ ManualRead(h, j)
    \/ \E h \in Handlers : \/ DeleteCancel(h) \/ DeletePurge(h)
                           \/ ManualClaim(h) \/ HandlerRefused(h) \/ ManualMark(h)
    \/ \E a \in Tasks : Dispatch(a)
    \/ RepairRead \/ RepairCommit
    \/ ClaimDueJobs
    \/ \E j \in JobIds : TakeJob(j)
    \/ WorkerMark
    \/ WorkerFlushFails
    \/ CycleTimeout
    \/ Crash

Spec == Init /\ [][Next]_vars

(***************************************************************************)
(* Fairness.  The event loop runs every task that can go on: weak fairness *)
(* where only the task itself can end the wait, strong fairness where it   *)
(* waits for a lock that others take and release (the asyncio lock of the  *)
(* role, and SQLite's write lock, which the next cycle asks for again).    *)
(* Telegram and the operators owe nothing, except that the publisher is    *)
(* not unreachable for ever.                                               *)
(***************************************************************************)
TaskFairness ==
    /\ WF_vars(Tick)
    /\ \A a \in Tasks : SF_vars(Dispatch(a))
    /\ \A h \in Handlers : /\ WF_vars(ManualMark(h))
                          /\ WF_vars(HandlerRefused(h))
                          /\ SF_vars(DeleteCancel(h) \/ DeletePurge(h))
                          /\ SF_vars(ManualClaim(h))
    /\ WF_vars(RepairRead)
    /\ SF_vars(RepairCommit)
    /\ SF_vars(ClaimDueJobs)
    /\ WF_vars(\E j \in JobIds : TakeJob(j))
    /\ SF_vars(WorkerMark)
    /\ WF_vars(WorkerFlushFails)

FairSpec == Spec /\ TaskFairness

-----------------------------------------------------------------------------
(* Properties.                                                             *)

TypeOK ==
    /\ now \in Nat
    /\ db \in [JobIds -> Row \cup {None}]
    /\ created \in 0 .. MaxCreated
    /\ writer \in Tasks \cup {None}
    /\ role \in Tasks \cup {None}
    /\ pc \in [Tasks -> WorkerPCs \cup HandlerPCs]
    /\ job \in [Tasks -> JobIds \cup {None}]
    /\ copy \in [Tasks -> Row \cup {None}]
    /\ outcome \in [Tasks -> Outcomes]
    /\ batch \in [JobIds -> Row \cup {None}]
    /\ stamp \in Nat
    /\ repair_checked \in BOOLEAN
    /\ interrupts \in Nat
    /\ posts \subseteq (1 .. MaxCreated) \X Int
    /\ duplicates \subseteq {"once", "weekly"} \X (1 .. MaxCreated)
    /\ unheard \subseteq 1 .. MaxCreated
    /\ overwritten \subseteq 1 .. MaxCreated

InDispatch(a) == pc[a] \in Dispatching

\* The rows (generations) of id j that the worker has claimed and not marked yet
WorkerHolds(j) ==
    (IF pc[Worker] = "batch" \/ InDispatch(Worker) THEN {batch[j]} ELSE {})
    \cup (IF InDispatch(Worker) /\ job[Worker] = j THEN {copy[Worker]} ELSE {})

\* No row is being dispatched by two tasks: neither by two manual sends, nor by
\* a manual send and the worker, whose batch rows wait for their turn with no
\* lock but their status (due_jobs.py claim_due_jobs, story_jobs.py
\* claim_for_dispatch).
DispatchExclusive ==
    \A h \in Handlers : InDispatch(h) =>
        /\ \A g \in Handlers : InDispatch(g) => g = h
        /\ db[job[h]] # None
        /\ \A row \in WorkerHolds(job[h]) : row # None => row.gen # db[job[h]].gen

\* What the worker has claimed stays claimed until it marks it: whatever the
\* other sessions do meanwhile, the row is still PROCESSING, or cancelled by a
\* delete that had read it before the claim, or gone (claim_due_jobs, mark_sent,
\* delete_job).
ClaimStands ==
    \A j \in JobIds : \A row \in WorkerHolds(j) :
        row # None /\ db[j] # None /\ db[j].gen = row.gen
        => db[j].status \in {"processing", "cancelled"}

\* A row that may be claimed carries no claim: every way out of PROCESSING
\* clears lock_token and locked_at, so the stale-lock clause of the two claims
\* never decides anything.
EligibleUnlocked ==
    \A j \in JobIds : db[j] # None /\ db[j].status \in {"pending", "failed"} => db[j].locked_at = None

\* A one-time job waiting for its automatic retry waits within its own local
\* day, whatever the delay, the flood wait and the hour of the failure
\* (plan_transient_retry), unless a stale copy was flushed over its row.
RetryWithinDay ==
    \A j \in JobIds :
        /\ db[j] # None
        /\ db[j].command.schedule_type = "once"
        /\ db[j].status = "pending"
        /\ db[j].last_error = "transient"
        /\ db[j].gen \notin overwritten
        => local_schedule_date(db[j].next_run_at) <= db[j].command.scheduled_date

\* A job shown as sent was published (mark_sent follows the dispatch in both
\* services), unless a stale copy was flushed over its row.
SentWasPublished ==
    \A j \in JobIds : db[j] # None /\ db[j].status = "sent" /\ db[j].gen \notin overwritten
                      => \E p \in posts : p[1] = db[j].gen

\* A one-time story goes out again only when an earlier publication was not
\* recorded (its answer lost, or the task interrupted before the mark) or its
\* row was overwritten from a stale copy.
DuplicateExplained == \A d \in duplicates : d[1] = "once" => d[2] \in unheard \cup overwritten

\* A weekly job that failed has a later slot on a selected weekday, not on the
\* day of its last publication (mark_failed), unless its row was overwritten.
WeeklyRollsForward ==
    \A j \in JobIds :
        /\ db[j] # None
        /\ db[j].command.schedule_type = "weekly"
        /\ db[j].status = "failed"
        /\ db[j].gen \notin overwritten
        => /\ db[j].next_run_at # None
           /\ LET date == local_schedule_date(db[j].next_run_at)
              IN  /\ Weekday(date) \in db[j].command.weekdays
                  /\ date # db[j].last_sent_date

\* On a scheduled attempt, which is neither a retry nor requeued by the repair,
\* the worker publishes a weekly story on a local day it has not gone out on, by
\* hand or by the worker (compute_next_run_at, mark_sent, mark_failed), unless a
\* publication was not recorded or the row was overwritten.
WeeklyOncePerDay ==
    /\ Publishing(Worker)
    /\ copy[Worker].command.schedule_type = "weekly"
    /\ copy[Worker].retry_count = 0
    /\ copy[Worker].last_error # "recovered"
    /\ copy[Worker].gen \notin unheard \cup overwritten
    => <<copy[Worker].gen, local_schedule_date(now)>> \notin posts

\* The task waits for a lock that only another task gives back: for the role, or
\* for the write lock.  The worker, and a request that has no lock yet, give up
\* the latter at the busy timeout.
Waits(a) ==
    \/ /\ role # None
       /\ pc[a] \in {"ensure", "acquire"} \/ (a = Worker /\ pc[a] = "mark" /\ Retryable(outcome[a]))
    \/ a \in Handlers /\ pc[a] = "rebuild" /\ ~CanWrite(a)

\* As long as requests or a cycle are under way, one of them goes on: that a
\* manual send keeps the write lock while it waits for the role, and the worker
\* the role while it waits for the write lock, closes no circle of tasks that
\* wait for each other (dispatch_claimed_job, client_context, manual_send_job).
SomeoneGoesOn ==
    (\E a \in Tasks : pc[a] # "idle") => \E a \in Tasks : pc[a] # "idle" /\ ~Waits(a)

Held(j) == \E row \in WorkerHolds(j) : row # None

\* What the worker has claimed leaves its hands marked, whatever a delete or a
\* manual send has done to the row meanwhile, unless the cycle is cut off, or ends
\* with a flush that the write lock or a missing row refuses (run_once).
ClaimsAreMarked ==
    [][\A j \in JobIds : Held(j) /\ ~Held(j)' =>
         \/ db'[j] # None /\ db'[j].status \in {"pending", "failed", "sent"}
         \/ interrupts' # interrupts
         \/ ~CanWrite(Worker)
         \/ db[job[Worker]] = None]_vars

\* With no operator at work and no interruption, a cycle marks every row it has
\* claimed, however each attempt of the batch ends (the loop of run_once).
CycleMarksAll ==
    Handlers = {} /\ interrupts = 0 /\ pc[Worker] \in {"idle", "repair"}
    => \A j \in JobIds : db[j] # None => db[j].status # "processing"

\* The life of the row's generation, as JobLifecycle tells it
Stage(row) == CASE row.status \in {"pending", "failed"} -> "open"
                [] row.status = "processing" -> "underway"
                [] OTHER -> row.status

RowsOf(g) == {j \in JobIds : db[j] # None /\ db[j].gen = g}

StageOf(g) ==
    IF g \in overwritten THEN "contested"
    ELSE IF g > created THEN "unborn"
    ELSE IF RowsOf(g) = {} THEN "gone"
    ELSE Stage(db[CHOOSE j \in RowsOf(g) : TRUE])

Lifecycle ==
    INSTANCE JobLifecycle WITH Jobs  <- 1 .. MaxCreated,
                               stage <- [g \in 1 .. MaxCreated |-> StageOf(g)],
                               out   <- {p[1] : p \in posts}

\* A job whose row no stale copy touched is published only while it is open or
\* under way, is called sent only after, is cancelled only when no attempt is
\* under way, and does not come back from sent, cancelled or deleted, though
\* the sessions of the worker and of the handlers each act on copies
\* (repositories/story_jobs.py, due_jobs.py, scheduler/service.py).
ImplementsLifecycle == Lifecycle!Spec

\* Every request and every cycle ends, though a manual send holds the write
\* lock while it waits for the role and the worker may hold the role while it
\* waits for the write lock.
TasksFinish == \A a \in Tasks : pc[a] # "idle" ~> pc[a] = "idle"

\* A due job is claimed, sent by hand or deleted in the end, even when the
\* process crashed or a cycle timed out before (run_once, run_forever).
DueIsTaken == \A j \in JobIds : Due(j) ~> ~Due(j)

-----------------------------------------------------------------------------
(* What documents and messages of the repository say, and the code does    *)
(* not keep to.                                                            *)

\* A job in PROCESSING leaves it ("wait for the current attempt to end", the
\* answer of manual_send_job).
ProcessingEnds ==
    \A j \in JobIds : (db[j] # None /\ db[j].status = "processing")
                      ~> (db[j] = None \/ db[j].status # "processing")

\* A cancelled job is not published any more (delete_job.py: "cancelled and
\* will not be sent any more").
CancelledUnsent ==
    [][\A j \in JobIds, p \in posts' \ posts :
         db[j] # None /\ db[j].gen = p[1] => db[j].status # "cancelled"]_vars

\* The worker publishes a weekly story at most once a day unless a publication
\* went unheard (README: "without creating duplicate posts").
WeeklyNoDuplicates == \A d \in duplicates : d[1] = "weekly" => d[2] \in unheard \cup overwritten
=============================================================================
