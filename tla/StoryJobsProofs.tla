--------------------------- MODULE StoryJobsProofs ---------------------------
(***************************************************************************)
(* The invariants of StoryJobs, for any handlers, schedules, delays and    *)
(* bounds.                                                                 *)
(***************************************************************************)
EXTENDS StoryJobs, SchedulingRulesProofs

-----------------------------------------------------------------------------
(* What the marking functions return.                                      *)

LEMMA RowFields ==
  ASSUME NEW row \in Row
  PROVE  /\ row.command \in Commands
         /\ row.gen \in 1 .. MaxCreated
         /\ row.status \in Statuses
         /\ row.next_run_at \in Int \cup {None}
         /\ row.retry_count \in Nat
         /\ row.retry_window_started_at \in Int \cup {None}
         /\ row.last_error \in Errors
         /\ row.last_sent_date \in Int \cup {None}
         /\ row.locked_at \in Int \cup {None}
BY DEF Row

\* The copies of a row that stay of its schedule and its generation
SameJob(row, new) == new \in Row /\ new.gen = row.gen /\ new.command = row.command

LEMMA ClaimedRow ==
  ASSUME NEW row \in Row, NEW t \in Int \cup {None}
  PROVE  SameJob(row, Claimed(row, t)) /\ Claimed(row, t).status = "processing" /\ Claimed(row, t).locked_at = t
BY DEF SameJob, Row, Claimed, Statuses

LEMMA CancelledRow ==
  ASSUME NEW row \in Row
  PROVE  SameJob(row, Cancelled(row)) /\ Cancelled(row).status = "cancelled" /\ Cancelled(row).locked_at = None
BY DEF SameJob, Row, Cancelled, Statuses

LEMMA ClearedRow ==
  ASSUME NEW row \in Row
  PROVE  SameJob(row, Cleared(row)) /\ Cleared(row).locked_at = None
BY DEF SameJob, Row, Cleared

LEMMA NextRunOfCommand ==
  ASSUME NEW command \in Commands, NEW t \in Int, NEW lastSent
  PROVE  compute_next_run_at(command, t, lastSent) \in Int \cup {None}
<1>1. \/ command.schedule_type = "once" /\ command.scheduled_date \in Int
      \/ command.schedule_type # "once"
  BY StoryJobsAssumption DEF OnceCommand, WeeklyCommand
<1>2. command.scheduled_time \in Int
  BY StoryJobsAssumption, CalendarAssumption DEF OnceCommand, WeeklyCommand
<1> QED BY <1>1, <1>2, NextRunType

LEMMA SentRow ==
  ASSUME NEW row \in Row, NEW t \in Int
  PROVE  /\ SameJob(row, Sent(row, t))
         /\ Sent(row, t).status \in {"sent", "pending"}
         /\ Sent(row, t).locked_at = None
<1> DEFINE next == compute_next_run_at(row.command, t + 1, local_schedule_date(t))
           cleared == Cleared(row)
<1>1. next \in Int \cup {None} /\ local_schedule_date(t) \in Int
  BY NextRunOfCommand, RowFields, ClockTypes
<1>2. cleared \in Row /\ cleared.gen = row.gen /\ cleared.command = row.command /\ cleared.locked_at = None
  BY ClearedRow DEF SameJob
<1> HIDE DEF next, cleared
<1>3. Sent(row, t) = [cleared EXCEPT
           !.last_error = "none",
           !.last_sent_date = local_schedule_date(t),
           !.status = IF row.command.schedule_type = "once" THEN "sent" ELSE "pending",
           !.next_run_at = IF row.command.schedule_type = "once" THEN None ELSE next]
  BY DEF Sent, next, cleared
<1> QED BY <1>1, <1>2, <1>3 DEF SameJob, Row, Statuses, Errors

LEMMA FailedRow ==
  ASSUME NEW row \in Row, NEW error \in Errors, NEW t \in Int
  PROVE  /\ SameJob(row, Failed(row, error, t))
         /\ Failed(row, error, t).status = "failed"
         /\ Failed(row, error, t).locked_at = None
<1> DEFINE next == compute_next_run_at(row.command, t + 1, row.last_sent_date)
           cleared == Cleared(row)
<1>1. next \in Int \cup {None}
  BY NextRunOfCommand, RowFields
<1>2. cleared \in Row /\ cleared.gen = row.gen /\ cleared.command = row.command /\ cleared.locked_at = None
  BY ClearedRow DEF SameJob
<1> HIDE DEF next, cleared
<1>3. Failed(row, error, t) = [cleared EXCEPT
           !.last_error = error,
           !.status = "failed",
           !.next_run_at = IF row.command.schedule_type = "once" THEN None ELSE next]
  BY DEF Failed, next, cleared
<1> QED BY <1>1, <1>2, <1>3 DEF SameJob, Row, Statuses, Errors

LEMMA PlanOfRow ==
  ASSUME NEW row \in Row, NEW t \in Int, NEW retryAfter \in Nat \cup {None}
  PROVE  LET plan == plan_transient_retry(row, t, retryAfter)
         IN  /\ plan.should_retry \in BOOLEAN
             /\ plan.retry_count \in Nat
             /\ plan.window_started_at \in Int \cup {None}
             /\ plan.next_run_at \in Int \cup {None}
BY RowFields, RetryPlanType

LEMMA PublishFailedRow ==
  ASSUME NEW row \in Row, NEW o \in Outcomes, NEW t \in Int
  PROVE  /\ SameJob(row, PublishFailed(row, o, t))
         /\ PublishFailed(row, o, t).status \in {"failed", "pending"}
         /\ PublishFailed(row, o, t).locked_at = None
<1> DEFINE plan == plan_transient_retry(row, t, RetryAfter(o))
<1>1. /\ plan.should_retry \in BOOLEAN
      /\ plan.retry_count \in Nat
      /\ plan.window_started_at \in Int \cup {None}
      /\ plan.next_run_at \in Int \cup {None}
  <2>1. RetryAfter(o) \in Nat \cup {None}
    BY StoryJobsAssumption DEF RetryAfter
  <2> QED BY <2>1, PlanOfRow
<1> HIDE DEF plan
<1>2. SameJob(row, Retried(row, plan)) /\ Retried(row, plan).status = "pending" /\ Retried(row, plan).locked_at = None
  BY <1>1 DEF SameJob, Row, Retried, Statuses, Errors
<1>3. ErrorText(o) \in Errors /\ "terminal" \in Errors
  BY DEF ErrorText, Errors
<1>4. PublishFailed(row, o, t) \in {Failed(row, ErrorText(o), t), Retried(row, plan), Failed(row, "terminal", t)}
  BY DEF PublishFailed, plan
<1> QED BY <1>2, <1>3, <1>4, FailedRow

LEMMA RepairedRow ==
  ASSUME NEW row \in Row, NEW t \in Int
  PROVE  /\ SameJob(row, Repaired(row, t))
         /\ Repaired(row, t).status \in {"failed", "pending"}
         /\ Repaired(row, t).locked_at = None
<1> DEFINE plan == plan_transient_retry(row, t, PublishRetryBaseDelay)
           cleared == Cleared(row)
           requeued == [cleared EXCEPT !.status = "pending", !.last_error = "recovered",
                                       !.next_run_at = plan.next_run_at]
<1>1. plan.next_run_at \in Int \cup {None}
  BY RetryAssumption, PlanOfRow
<1>2. cleared \in Row /\ cleared.gen = row.gen /\ cleared.command = row.command /\ cleared.locked_at = None
  BY ClearedRow DEF SameJob
<1> HIDE DEF plan, cleared
<1>3. SameJob(row, requeued) /\ requeued.status = "pending" /\ requeued.locked_at = None
  BY <1>1, <1>2 DEF SameJob, Row, Statuses, Errors
<1>4. Repaired(row, t) \in {requeued, Failed(row, "terminal", t)}
  BY DEF Repaired, plan, cleared
<1> HIDE DEF requeued
<1> QED BY <1>3, <1>4, FailedRow DEF Errors

LEMMA FlushedRow ==
  ASSUME NEW row \in Row, NEW loaded \in Row, NEW new \in Row
  PROVE  /\ SameJob(row, Flush(row, loaded, new))
         /\ Flush(row, loaded, new).status = Dirty(loaded.status, new.status, row.status)
         /\ Flush(row, loaded, new).locked_at = Dirty(loaded.locked_at, new.locked_at, row.locked_at)
<1> DEFINE status == Dirty(loaded.status, new.status, row.status)
           next   == Dirty(loaded.next_run_at, new.next_run_at, row.next_run_at)
           count  == Dirty(loaded.retry_count, new.retry_count, row.retry_count)
           window == Dirty(loaded.retry_window_started_at, new.retry_window_started_at, row.retry_window_started_at)
           error  == Dirty(loaded.last_error, new.last_error, row.last_error)
           sent   == Dirty(loaded.last_sent_date, new.last_sent_date, row.last_sent_date)
           locked == Dirty(loaded.locked_at, new.locked_at, row.locked_at)
<1>1. /\ status \in Statuses
      /\ next \in Int \cup {None}
      /\ count \in Nat
      /\ window \in Int \cup {None}
      /\ error \in Errors
      /\ sent \in Int \cup {None}
      /\ locked \in Int \cup {None}
  BY RowFields DEF Dirty
<1>2. Flush(row, loaded, new) =
        [row EXCEPT !.status = status, !.next_run_at = next, !.retry_count = count,
                    !.retry_window_started_at = window, !.last_error = error,
                    !.last_sent_date = sent, !.locked_at = locked]
  BY DEF Flush
<1> HIDE DEF status, next, count, window, error, sent, locked
<1>3. LET flushed == [row EXCEPT !.status = status, !.next_run_at = next, !.retry_count = count,
                                !.retry_window_started_at = window, !.last_error = error,
                                !.last_sent_date = sent, !.locked_at = locked]
      IN  SameJob(row, flushed) /\ flushed.status = status /\ flushed.locked_at = locked
  BY <1>1 DEF SameJob, Row
<1> QED BY <1>2, <1>3 DEF status, locked

LEMMA StaleGenerations ==
  ASSUME NEW row \in Row, NEW loaded \in Row
  PROVE  Stale(row, loaded) \subseteq 1 .. MaxCreated
BY RowFields DEF Stale

-----------------------------------------------------------------------------
(* The inductive invariant, in parts.                                      *)

\* A task past its first read works on a row of an id.
InHand ==
    \A a \in Tasks :
        /\ pc[a] \in Dispatching \cup {"delete", "claim"} => job[a] \in JobIds /\ copy[a] \in Row
        /\ outcome[a] = "sent" => InDispatch(a)

\* A manual send has the write lock from its claim to its commit, and the table
\* shows the row as it was before.
ManualHolds ==
    \A h \in Handlers : InDispatch(h) =>
        /\ writer = h
        /\ db[job[h]] # None
        /\ db[job[h]].status \in {"pending", "failed"}

\* TypeOK in three parts, the first with InHand
TaskTypes ==
    /\ pc \in [Tasks -> WorkerPCs \cup HandlerPCs]
    /\ job \in [Tasks -> JobIds \cup {None}]
    /\ copy \in [Tasks -> Row \cup {None}]
    /\ outcome \in [Tasks -> Outcomes]
    /\ InHand

TableTypes ==
    /\ now \in Nat
    /\ db \in [JobIds -> Row \cup {None}]
    /\ created \in 0 .. MaxCreated
    /\ writer \in Tasks \cup {None}
    /\ role \in Tasks \cup {None}
    /\ batch \in [JobIds -> Row \cup {None}]
    /\ stamp \in Nat
    /\ repair_checked \in BOOLEAN
    /\ interrupts \in Nat

Generations == 1 .. MaxCreated

HistoryTypes ==
    /\ posts \subseteq Generations \X Int
    /\ duplicates \subseteq {"once", "weekly"} \X Generations
    /\ unheard \subseteq Generations
    /\ overwritten \subseteq Generations

TypeInv == TaskTypes /\ TableTypes /\ HistoryTypes

LEMMA TypeInvParts == TypeInv => TypeOK
BY DEF TypeInv, TypeOK, TaskTypes, TableTypes, HistoryTypes, Generations

LEMMA TypeInvInit == Init => TypeInv
<1> SUFFICES ASSUME Init PROVE TypeInv
  OBVIOUS
<1> USE StoryJobsAssumption DEF Init
<1>1. TaskTypes
  BY DEF TaskTypes, InHand, InDispatch, Dispatching, WorkerPCs, Outcomes
<1>2. TableTypes
  <2>1. db \in [JobIds -> Row \cup {None}] /\ batch \in [JobIds -> Row \cup {None}]
    BY DEF NoBatch
  <2>2. now \in Nat /\ created \in 0 .. MaxCreated /\ stamp \in Nat /\ interrupts \in Nat
    OBVIOUS
  <2>3. repair_checked \in BOOLEAN /\ writer \in Tasks \cup {None} /\ role \in Tasks \cup {None}
    OBVIOUS
  <2> QED BY <2>1, <2>2, <2>3 DEF TableTypes
<1>3. HistoryTypes
  BY DEF HistoryTypes
<1> QED BY <1>1, <1>2, <1>3 DEF TypeInv

-----------------------------------------------------------------------------
(* What the bookkeeping of the tasks preserves.                            *)

LEMMA MoveTypes ==
  ASSUME TaskTypes, NEW a \in Tasks, NEW label \in WorkerPCs, Goto(a, label),
         UNCHANGED <<job, copy, outcome>>,
         label \in Dispatching <=> InDispatch(a)
  PROVE  TaskTypes'
BY DEF TaskTypes, Goto, InHand, InDispatch, Dispatching, WorkerPCs, HandlerPCs

LEMMA ReleaseTypes ==
  ASSUME TaskTypes, NEW a \in Tasks, NEW label \in {"idle", "batch"}, Release(a, label)
  PROVE  TaskTypes'
BY DEF TaskTypes, Release, Goto, InHand, InDispatch, Dispatching, WorkerPCs, HandlerPCs, Outcomes

LEMMA LoadTypes ==
  ASSUME TaskTypes, NEW a \in Tasks, NEW j \in JobIds, NEW row \in Row,
         NEW label \in {"delete", "claim", "ensure"}, Load(a, j, row, label), pc[a] \in {"idle", "batch"}
  PROVE  TaskTypes'
BY DEF TaskTypes, Load, Goto, InHand, InDispatch, Dispatching, WorkerPCs, HandlerPCs

LEMMA EndedTypes ==
  ASSUME TaskTypes, NEW a \in Tasks, NEW o \in Outcomes, Ended(a, o), InDispatch(a)
  PROVE  TaskTypes'
BY DEF TaskTypes, Ended, Goto, InHand, InDispatch, Dispatching, WorkerPCs, HandlerPCs

LEMMA ReleasedLock ==
  ASSUME NEW holder \in Tasks \cup {None}, NEW a \in Tasks
  PROVE  Unlocked(holder, a) \in Tasks \cup {None}
BY DEF Unlocked

LEMMA PostedTypes ==
  ASSUME TypeInv, NEW a \in Tasks, InDispatch(a), Posted(a)
  PROVE  /\ posts' \subseteq Generations \X Int
         /\ duplicates' \subseteq {"once", "weekly"} \X Generations
         /\ copy[a].gen \in Generations
<1>1. copy[a].gen \in Generations
  BY RowFields DEF TypeInv, TaskTypes, InHand, InDispatch, Generations
<1>2. local_schedule_date(now) \in Int
  BY ClockTypes DEF TypeInv, TableTypes
<1>3. copy[a].command.schedule_type \in {"once", "weekly"}
  <2>1. copy[a].command \in Commands
    BY RowFields DEF TypeInv, TaskTypes, InHand, InDispatch
  <2> QED BY <2>1, StoryJobsAssumption DEF OnceCommand, WeeklyCommand
<1> QED BY <1>1, <1>2, <1>3 DEF Posted, TypeInv, HistoryTypes

LEMMA UnrecordedTypes ==
  ASSUME TypeInv, NEW S \in SUBSET Tasks
  PROVE  Unrecorded(S) \subseteq Generations
BY RowFields DEF TypeInv, TaskTypes, InHand, InDispatch, Unrecorded, Generations

LEMMA MaybePostedTypes ==
  ASSUME TypeInv, NEW S \in SUBSET Tasks, MaybePosted(S)
  PROVE  HistoryTypes'
<1>1. Unrecorded(S) \subseteq Generations
  BY UnrecordedTypes
<1>2. CASE unheard' = unheard \cup Unrecorded(S) /\ UNCHANGED <<posts, duplicates, overwritten>>
  BY <1>1, <1>2 DEF TypeInv, HistoryTypes
<1>3. ASSUME NEW a \in S, Publishing(a), Posted(a), UNCHANGED overwritten,
             unheard' = unheard \cup Unrecorded(S) \cup {copy[a].gen}
      PROVE  HistoryTypes'
  <2>1. InDispatch(a)
    BY <1>3 DEF Publishing, InDispatch, Dispatching
  <2> QED BY <1>1, <1>3, <2>1, PostedTypes DEF TypeInv, HistoryTypes
<1> QED BY <1>2, <1>3 DEF MaybePosted

-----------------------------------------------------------------------------
(* TypeInv is preserved.                                                   *)

LEMMA HandlerTypes ==
  ASSUME TypeInv, ManualHolds, NEW h \in Handlers,
         \/ \E j \in JobIds : DeleteRead(h, j) \/ ManualRead(h, j)
         \/ DeleteCancel(h) \/ DeletePurge(h) \/ ManualClaim(h) \/ HandlerRefused(h) \/ ManualMark(h)
  PROVE  TypeInv'
<1> USE DEF TypeInv
<1>0. h \in Tasks
  BY DEF Tasks
<1>1. ASSUME NEW j \in JobIds, DeleteRead(h, j) \/ ManualRead(h, j) PROVE TypeInv'
  <2>1. db[j] \in Row
    BY <1>1 DEF DeleteRead, ManualRead, TableTypes
  <2>2. TaskTypes'
    BY <1>0, <1>1, <2>1, LoadTypes DEF DeleteRead, ManualRead
  <2>3. TableTypes' /\ HistoryTypes'
    BY <1>1 DEF DeleteRead, ManualRead, TableTypes, HistoryTypes, historyVars
  <2> QED BY <2>2, <2>3
<1>2. CASE DeleteCancel(h)
  <2>1. job[h] \in JobIds /\ copy[h] \in Row /\ db[job[h]] \in Row
    BY <1>0, <1>2 DEF DeleteCancel, TaskTypes, InHand, TableTypes
  <2>2. TaskTypes'
    BY <1>0, <1>2, ReleaseTypes DEF DeleteCancel
  <2>3. TableTypes'
    <3>1. Flush(db[job[h]], copy[h], Cancelled(copy[h])) \in Row
      BY <2>1, CancelledRow, FlushedRow DEF SameJob
    <3> QED BY <1>2, <2>1, <3>1 DEF DeleteCancel, TableTypes
  <2>4. HistoryTypes'
    BY <1>2, <2>1, StaleGenerations DEF DeleteCancel, HistoryTypes, Generations
  <2> QED BY <2>2, <2>3, <2>4
<1>3. CASE DeletePurge(h)
  <2>1. TaskTypes'
    BY <1>0, <1>3, ReleaseTypes DEF DeletePurge
  <2>2. TableTypes'
    BY <1>3 DEF DeletePurge, TableTypes
  <2>3. HistoryTypes'
    <3>1. job[h] \in JobIds /\ copy[h] \in Row /\ db[job[h]] \in Row \cup {None}
      BY <1>0, <1>3 DEF DeletePurge, TaskTypes, InHand, TableTypes
    <3> QED BY <1>3, <3>1, StaleGenerations DEF DeletePurge, HistoryTypes, Generations
  <2> QED BY <2>1, <2>2, <2>3
<1>4. CASE ManualClaim(h)
  <2>1. job[h] \in JobIds /\ copy[h] \in Row /\ db[job[h]] \in Row
    BY <1>0, <1>4 DEF ManualClaim, TaskTypes, InHand, TableTypes
  <2>2. TaskTypes'
    <3>1. Claimed(copy[h], now) \in Row
      BY <2>1, ClaimedRow DEF TableTypes, SameJob
    <3> QED BY <1>0, <1>4, <2>1, <3>1
            DEF ManualClaim, Goto, TaskTypes, InHand, InDispatch, Dispatching, WorkerPCs, HandlerPCs
  <2>3. TableTypes'
    BY <1>0, <1>4 DEF ManualClaim, TableTypes
  <2>4. HistoryTypes'
    BY <1>4, <2>1, StaleGenerations DEF ManualClaim, HistoryTypes, Generations
  <2> QED BY <2>2, <2>3, <2>4
<1>5. CASE HandlerRefused(h)
  <2>1. TaskTypes'
    BY <1>0, <1>5, ReleaseTypes DEF HandlerRefused
  <2>2. TableTypes' /\ HistoryTypes'
    BY <1>5 DEF HandlerRefused, TableTypes, HistoryTypes, historyVars
  <2> QED BY <2>1, <2>2
<1>6. CASE ManualMark(h)
  <2>1. job[h] \in JobIds /\ copy[h] \in Row /\ db[job[h]] \in Row
    BY <1>0, <1>6 DEF ManualMark, ManualHolds, TaskTypes, InHand, InDispatch, Dispatching, TableTypes
  <2>2. TaskTypes'
    BY <1>0, <1>6, ReleaseTypes DEF ManualMark
  <2>3. TableTypes'
    <3> DEFINE new == IF outcome[h] = "sent" THEN Sent(copy[h], now)
                      ELSE Failed(copy[h], ErrorText(outcome[h]), now)
               before == Claimed(db[job[h]], copy[h].locked_at)
    <3>1. new \in Row
      BY <2>1, SentRow, FailedRow DEF SameJob, TableTypes, ErrorText, Errors
    <3>2. before \in Row
      BY <2>1, ClaimedRow, RowFields DEF SameJob
    <3>3. Flush(before, copy[h], new) \in Row
      <4> HIDE DEF new, before
      <4> QED BY <2>1, <3>1, <3>2, FlushedRow DEF SameJob
    <3>4. db' = [db EXCEPT ![job[h]] = Flush(before, copy[h], new)]
      BY <1>6 DEF ManualMark
    <3> HIDE DEF new, before
    <3> QED BY <1>6, <2>1, <3>3, <3>4 DEF ManualMark, TableTypes
  <2>4. HistoryTypes'
    BY <1>6 DEF ManualMark, HistoryTypes, historyVars
  <2> QED BY <2>2, <2>3, <2>4
<1> QED BY <1>1, <1>2, <1>3, <1>4, <1>5, <1>6

LEMMA DispatchTypes ==
  ASSUME TypeInv, NEW a \in Tasks, Dispatch(a)
  PROVE  TypeInv'
<1> USE DEF TypeInv
<1>1. InDispatch(a)
  BY DEF Dispatch, EnsureRoleReady, EnsureMedia, AcquireRole, PublishOk, PublishUnheard, PublishFails, MediaInvalid,
         RebuildMedia, Publishing, InDispatch, Dispatching
<1>2. TaskTypes'
  <2>1. CASE \E o \in Outcomes : Ended(a, o)
    BY <1>1, <2>1, EndedTypes
  <2>2. CASE UNCHANGED <<job, copy, outcome>> /\ \E label \in Dispatching : Goto(a, label)
    BY <1>1, <2>2, MoveTypes DEF WorkerPCs
  <2>3. \/ \E o \in Outcomes : Ended(a, o)
        \/ UNCHANGED <<job, copy, outcome>> /\ \E label \in Dispatching : Goto(a, label)
    BY DEF Dispatch, EnsureRoleReady, EnsureMedia, AcquireRole, PublishOk, PublishUnheard, PublishFails, MediaInvalid,
           RebuildMedia, MediaFails, Outcomes, Failures, Dispatching
  <2> QED BY <2>1, <2>2, <2>3
<1>3. TableTypes'
  <2>1. writer' \in Tasks \cup {None}
    BY DEF Dispatch, EnsureRoleReady, EnsureMedia, AcquireRole, PublishOk, PublishUnheard, PublishFails, MediaInvalid,
           RebuildMedia, MediaFails, TableTypes
  <2>2. role' \in Tasks \cup {None}
    BY ReleasedLock DEF Dispatch, EnsureRoleReady, EnsureMedia, AcquireRole, PublishOk, PublishUnheard, PublishFails,
           MediaInvalid, RebuildMedia, MediaFails, Ended, TableTypes
  <2>3. UNCHANGED <<now, db, created, batch, stamp, repair_checked, interrupts>>
    BY DEF Dispatch, EnsureRoleReady, EnsureMedia, AcquireRole, PublishOk, PublishUnheard, PublishFails, MediaInvalid,
           RebuildMedia
  <2> QED BY <2>1, <2>2, <2>3 DEF TableTypes
<1>4. HistoryTypes'
  <2>1. CASE PublishOk(a)
    BY <1>1, <2>1, PostedTypes DEF PublishOk, HistoryTypes
  <2>2. CASE PublishUnheard(a)
    BY <1>1, <2>2, PostedTypes DEF PublishUnheard, HistoryTypes
  <2>3. CASE UNCHANGED historyVars
    BY <2>3 DEF historyVars, HistoryTypes
  <2> QED BY <2>1, <2>2, <2>3
          DEF Dispatch, EnsureRoleReady, EnsureMedia, AcquireRole, PublishFails, MediaInvalid, RebuildMedia
<1> QED BY <1>2, <1>3, <1>4

LEMMA EndCycleTypes ==
  ASSUME TypeInv, EndCycle
  PROVE  TaskTypes' /\ (interrupts' \in Nat => TableTypes')
<1>1. Worker \in Tasks
  BY DEF Tasks
<1>2. TaskTypes'
  BY <1>1, ReleaseTypes DEF TypeInv, EndCycle
<1>3. writer' \in Tasks \cup {None} /\ role' \in Tasks \cup {None}
  BY <1>1, ReleasedLock DEF TypeInv, TableTypes, EndCycle
<1>4. batch' \in [JobIds -> Row \cup {None}] /\ stamp' \in Nat
  BY DEF EndCycle, NoBatch
<1> QED BY <1>2, <1>3, <1>4 DEF TypeInv, TableTypes, EndCycle

LEMMA WorkerTypes ==
  ASSUME TypeInv,
         RepairRead \/ RepairCommit \/ ClaimDueJobs \/ (\E j \in JobIds : TakeJob(j)) \/ WorkerMark
           \/ WorkerFlushFails \/ CycleTimeout
  PROVE  TypeInv'
<1> USE DEF TypeInv
<1>0. Worker \in Tasks
  BY DEF Tasks
<1>1. CASE RepairRead
  <2>1. TaskTypes'
    BY <1>0, <1>1, MoveTypes DEF RepairRead, WorkerPCs, InDispatch, Dispatching
  <2>2. TableTypes' /\ HistoryTypes'
    BY <1>1 DEF RepairRead, TableTypes, HistoryTypes, historyVars
  <2> QED BY <2>1, <2>2
<1>2. CASE RepairCommit
  <2>1. TaskTypes'
    BY <1>0, <1>2, MoveTypes DEF RepairCommit, WorkerPCs, InDispatch, Dispatching
  <2>2. \A j \in RepairWrites : j \in JobIds /\ batch[j] \in Row /\ db[j] \in Row
    BY <1>2 DEF RepairCommit, RepairWrites, TableTypes
  <2>3. \A j \in RepairWrites : Flush(db[j], batch[j], Repaired(batch[j], stamp)) \in Row
    BY <2>2, RepairedRow, FlushedRow DEF SameJob, TableTypes
  <2>4. TableTypes'
    <3>1. db' \in [JobIds -> Row \cup {None}]
      BY <1>2, <2>3 DEF RepairCommit, TableTypes
    <3>2. batch' \in [JobIds -> Row \cup {None}] /\ stamp' \in Nat /\ repair_checked' \in BOOLEAN
      BY <1>2 DEF RepairCommit, NoBatch
    <3> QED BY <1>2, <3>1, <3>2 DEF RepairCommit, TableTypes
  <2>5. HistoryTypes'
    <3>1. \A j \in RepairWrites : Stale(db[j], batch[j]) \subseteq Generations
      BY <2>2, StaleGenerations DEF Generations
    <3> QED BY <1>2, <3>1 DEF RepairCommit, HistoryTypes
  <2> QED BY <2>1, <2>4, <2>5
<1>3. CASE ClaimDueJobs
  <2>1. TaskTypes'
    BY <1>0, <1>3, MoveTypes DEF ClaimDueJobs, WorkerPCs, InDispatch, Dispatching
  <2>2. \A j \in DueBatch : j \in JobIds /\ Claimed(db[j], now) \in Row
    BY ClaimedRow DEF DueBatch, Due, TableTypes, SameJob
  <2>3. TableTypes' /\ HistoryTypes'
    BY <1>3, <2>2 DEF ClaimDueJobs, TableTypes, HistoryTypes, historyVars
  <2> QED BY <2>1, <2>3
<1>4. ASSUME NEW j \in JobIds, TakeJob(j) PROVE TypeInv'
  <2>1. batch[j] \in Row
    BY <1>4 DEF TakeJob, TableTypes
  <2>2. TaskTypes'
    BY <1>0, <1>4, <2>1, LoadTypes DEF TakeJob
  <2>3. TableTypes' /\ HistoryTypes'
    BY <1>4 DEF TakeJob, TableTypes, HistoryTypes, historyVars
  <2> QED BY <2>2, <2>3
<1>5. CASE WorkerMark
  <2> DEFINE j   == job[Worker]
             row == copy[Worker]
             new == IF outcome[Worker] = "sent" THEN Sent(row, now)
                    ELSE PublishFailed(row, outcome[Worker], now)
  <2>1. j \in JobIds /\ row \in Row /\ db[j] \in Row
    BY <1>0, <1>5 DEF WorkerMark, TaskTypes, InHand, Dispatching, TableTypes
  <2>2. TaskTypes'
    BY <1>0, <1>5, ReleaseTypes DEF WorkerMark
  <2>3. TableTypes'
    <3>1. new \in Row
      BY <1>0, <2>1, SentRow, PublishFailedRow DEF SameJob, TaskTypes, TableTypes
    <3>2. Flush(db[j], row, new) \in Row
      <4> HIDE DEF new, row, j
      <4> QED BY <2>1, <3>1, FlushedRow DEF SameJob
    <3>3. db' = [db EXCEPT ![j] = Flush(db[j], row, new)]
      BY <1>5 DEF WorkerMark
    <3> HIDE DEF new, row, j
    <3> QED BY <1>5, <2>1, <3>2, <3>3 DEF WorkerMark, TableTypes
  <2>4. HistoryTypes'
    BY <1>5, <2>1, StaleGenerations DEF WorkerMark, HistoryTypes, Generations
  <2> QED BY <2>2, <2>3, <2>4
<1>6. CASE WorkerFlushFails
  <2>1. TaskTypes' /\ TableTypes'
    BY <1>6, EndCycleTypes DEF WorkerFlushFails, TableTypes
  <2>2. HistoryTypes'
    BY <1>0, <1>6, UnrecordedTypes DEF WorkerFlushFails, HistoryTypes
  <2> QED BY <2>1, <2>2
<1>7. CASE CycleTimeout
  <2>1. TaskTypes' /\ TableTypes'
    BY <1>7, EndCycleTypes DEF CycleTimeout, TableTypes
  <2>2. HistoryTypes'
    BY <1>0, <1>7, MaybePostedTypes DEF CycleTimeout
  <2> QED BY <2>1, <2>2
<1> QED BY <1>1, <1>2, <1>3, <1>4, <1>5, <1>6, <1>7

LEMMA TypeInvStep ==
  ASSUME TypeInv, ManualHolds, [Next]_vars
  PROVE  TypeInv'
<1> USE DEF TypeInv
<1>1. CASE Tick
  BY <1>1 DEF Tick, taskVars, historyVars, TaskTypes, InHand, InDispatch, TableTypes, HistoryTypes
<1>2. ASSUME NEW j \in JobIds, NEW c \in Commands, CreateJob(j, c) PROVE TypeInv'
  <2> DEFINE new == [command |-> c, gen |-> created + 1, status |-> "pending",
                     next_run_at |-> compute_next_run_at(c, now, None),
                     retry_count |-> 0, retry_window_started_at |-> None, last_error |-> "none",
                     last_sent_date |-> None, locked_at |-> None]
  <2>1. created + 1 \in 1 .. MaxCreated
    BY <1>2, StoryJobsAssumption DEF CreateJob, TableTypes
  <2>2. compute_next_run_at(c, now, None) \in Int \cup {None}
    BY NextRunOfCommand DEF TableTypes
  <2>3. new \in Row
    BY <2>1, <2>2 DEF Row, Statuses, Errors
  <2>4. db' = [db EXCEPT ![j] = new] /\ created' = created + 1
    BY <1>2 DEF CreateJob
  <2> HIDE DEF new
  <2>5. TableTypes'
    BY <1>2, <2>1, <2>3, <2>4, StoryJobsAssumption DEF CreateJob, TableTypes, taskVars
  <2>6. TaskTypes' /\ HistoryTypes'
    BY <1>2 DEF CreateJob, taskVars, historyVars, TaskTypes, InHand, InDispatch, HistoryTypes
  <2> QED BY <2>5, <2>6
<1>3. CASE Crash
  <2>1. TaskTypes'
    BY <1>3 DEF Crash, TaskTypes, InHand, InDispatch, Dispatching, WorkerPCs, Outcomes
  <2>2. TableTypes'
    <3>1. batch' \in [JobIds -> Row \cup {None}] /\ stamp' \in Nat /\ interrupts' \in Nat
      BY <1>3 DEF Crash, TableTypes, NoBatch
    <3>2. repair_checked' \in BOOLEAN /\ writer' \in Tasks \cup {None} /\ role' \in Tasks \cup {None}
      BY <1>3 DEF Crash
    <3> QED BY <1>3, <3>1, <3>2 DEF Crash, TableTypes
  <2>3. HistoryTypes'
    BY <1>3, MaybePostedTypes DEF Crash
  <2> QED BY <2>1, <2>2, <2>3
<1>4. CASE UNCHANGED vars
  BY <1>4 DEF vars, taskVars, historyVars, TaskTypes, InHand, InDispatch, TableTypes, HistoryTypes
<1> QED
  BY <1>1, <1>2, <1>3, <1>4, HandlerTypes, DispatchTypes, WorkerTypes DEF Next

-----------------------------------------------------------------------------
(* The rest of the inductive invariant.                                    *)

\* A new row has a generation that no row and no claimed copy has.
KnownGenerations ==
    \A j \in JobIds :
        /\ db[j] # None => db[j].gen <= created
        /\ \A row \in WorkerHolds(j) : row # None => row.gen <= created

\* The row under dispatch has left the batch.
OneInHand == InDispatch(Worker) => batch[job[Worker]] = None

\* A claimed copy carries the claim, so that marking it clears the lock.
CopiesLocked ==
    /\ \A a \in Tasks : InDispatch(a) => copy[a].status = "processing" /\ copy[a].locked_at # None
    /\ pc[Worker] = "batch" \/ InDispatch(Worker)
       => \A j \in JobIds : batch[j] # None => batch[j].status = "processing" /\ batch[j].locked_at # None

\* What the repair listed is not claimed while it waits to write.
RepairListUnlocked ==
    pc[Worker] = "repair" =>
        \A j \in JobIds : batch[j] # None =>
            /\ batch[j].status = "failed"
            /\ batch[j].locked_at = None
            /\ db[j] # None => db[j].locked_at = None

\* What a delete read is not claimed either.
DeleteCopiesUnlocked ==
    \A h \in Handlers : pc[h] = "delete" /\ copy[h].status \in {"pending", "failed"} => copy[h].locked_at = None

LockInv == CopiesLocked /\ EligibleUnlocked /\ RepairListUnlocked /\ DeleteCopiesUnlocked

ClaimInv == ManualHolds /\ ClaimStands /\ KnownGenerations /\ OneInHand

IInv == TypeInv /\ ClaimInv /\ LockInv

LEMMA IInvInit == Init => IInv
<1> SUFFICES ASSUME Init PROVE IInv
  OBVIOUS
<1>1. TypeInv
  BY TypeInvInit
<1>2. ~InDispatch(Worker) /\ pc[Worker] = "idle" /\ \A h \in Handlers : ~InDispatch(h) /\ pc[h] = "idle"
  BY DEF Init, InDispatch, Dispatching, Tasks
<1>3. ClaimInv
  BY <1>2 DEF Init, ClaimInv, ManualHolds, ClaimStands, KnownGenerations, OneInHand, WorkerHolds
<1>4. LockInv
  BY <1>2 DEF Init, LockInv, CopiesLocked, EligibleUnlocked, RepairListUnlocked, DeleteCopiesUnlocked, InDispatch,
              Dispatching
<1> QED BY <1>1, <1>3, <1>4 DEF IInv

LEMMA ExclusiveFromInv == IInv => DispatchExclusive
BY DEF IInv, TypeInv, TaskTypes, TableTypes, ClaimInv, ManualHolds, ClaimStands, DispatchExclusive, InHand, InDispatch, Tasks

-----------------------------------------------------------------------------
(* ClaimInv is preserved.                                                  *)

\* The worker's task, as another task's step leaves it
WorkerStays == UNCHANGED <<pc[Worker], job[Worker], copy[Worker], batch>>

LEMMA HoldsKept ==
  ASSUME ClaimInv, UNCHANGED <<db, created>>,
         \A j \in JobIds : WorkerHolds(j)' \subseteq WorkerHolds(j) \cup {None}
  PROVE  ClaimStands' /\ KnownGenerations'
<1> HIDE DEF WorkerHolds
<1> QED BY DEF ClaimInv, ClaimStands, KnownGenerations

LEMMA StayingHolds ==
  ASSUME ClaimInv, WorkerStays
  PROVE  /\ \A j \in JobIds : WorkerHolds(j)' = WorkerHolds(j)
         /\ OneInHand'
BY DEF ClaimInv, WorkerStays, WorkerHolds, OneInHand, InDispatch

LEMMA OthersStep ==
  ASSUME TypeInv, NEW h \in Handlers,
         \/ \E label : Release(h, label) /\ UNCHANGED batch
         \/ \E j, row, label : Load(h, j, row, label) /\ UNCHANGED batch
         \/ \E label : Goto(h, label) /\ UNCHANGED <<job, copy, batch>>
         \/ \E label, row : Goto(h, label) /\ copy' = [copy EXCEPT ![h] = row] /\ UNCHANGED <<job, batch>>
         \/ \E o : Ended(h, o) /\ UNCHANGED batch
  PROVE  /\ WorkerStays
         /\ \A g \in Handlers : g # h => UNCHANGED <<pc[g], job[g], copy[g]>>
<1>1. Worker \in Tasks /\ h # Worker /\ Handlers \subseteq Tasks
  BY StoryJobsAssumption DEF Tasks
<1> QED BY <1>1 DEF TypeInv, TaskTypes, Release, Load, Goto, Ended, WorkerStays

\* One row is written: its generation stays, and its status is one that the
\* worker's claim on it, if there is one, allows.
LEMMA RowRewritten ==
  ASSUME TypeInv, ClaimInv, NEW i \in JobIds, NEW new,
         db[i] # None, db' = [db EXCEPT ![i] = new], new.gen = db[i].gen, UNCHANGED created,
         \A j \in JobIds : WorkerHolds(j)' \subseteq WorkerHolds(j) \cup {None},
         \A row \in WorkerHolds(i)' : row # None /\ row.gen = new.gen => new.status \in {"processing", "cancelled"}
  PROVE  ClaimStands' /\ KnownGenerations'
<1> HIDE DEF WorkerHolds
<1>1. db'[i] = new /\ \A j \in JobIds : j # i => db'[j] = db[j]
  BY DEF TypeInv, TableTypes
<1>2. ClaimStands'
  <2> SUFFICES ASSUME NEW j \in JobIds, NEW row \in WorkerHolds(j)', row # None, db'[j] # None, db'[j].gen = row.gen
               PROVE  db'[j].status \in {"processing", "cancelled"}
    BY DEF ClaimStands
  <2>1. CASE j = i
    BY <1>1, <2>1
  <2>2. CASE j # i
    BY <1>1, <2>2 DEF ClaimInv, ClaimStands
  <2> QED BY <2>1, <2>2
<1>3. KnownGenerations'
  <2> SUFFICES ASSUME NEW j \in JobIds
               PROVE  /\ db'[j] # None => db'[j].gen <= created
                      /\ \A row \in WorkerHolds(j)' : row # None => row.gen <= created
    BY DEF KnownGenerations
  <2>1. db'[j] # None => db'[j].gen <= created
    BY <1>1 DEF ClaimInv, KnownGenerations
  <2>2. \A row \in WorkerHolds(j)' : row # None => row.gen <= created
    BY DEF ClaimInv, KnownGenerations
  <2> QED BY <2>1, <2>2
<1> QED BY <1>2, <1>3

\* A step with SQLite's write lock free, or in the hands of its own task, meets no
\* manual send under way but its own.
LEMMA WriterAlone ==
  ASSUME ManualHolds, NEW a, CanWrite(a), NEW h \in Handlers, InDispatch(h)
  PROVE  a = h
BY StoryJobsAssumption DEF ManualHolds, CanWrite, Tasks

LEMMA HandlerClaims ==
  ASSUME TypeInv, ClaimInv, NEW h \in Handlers,
         \/ \E j \in JobIds : DeleteRead(h, j) \/ ManualRead(h, j)
         \/ DeleteCancel(h) \/ DeletePurge(h) \/ ManualClaim(h) \/ HandlerRefused(h) \/ ManualMark(h)
  PROVE  ClaimInv'
<1>0. h \in Tasks /\ Handlers \subseteq Tasks
  BY DEF Tasks
<1>1. /\ WorkerStays
      /\ \A g \in Handlers : g # h => UNCHANGED <<pc[g], job[g], copy[g]>>
  BY OthersStep DEF DeleteRead, ManualRead, DeleteCancel, DeletePurge, ManualClaim, HandlerRefused, ManualMark
<1>2. (\A j \in JobIds : WorkerHolds(j)' = WorkerHolds(j)) /\ OneInHand'
  BY <1>1, StayingHolds
<1>3. UNCHANGED created
  BY DEF DeleteRead, ManualRead, DeleteCancel, DeletePurge, ManualClaim, HandlerRefused, ManualMark
<1>4. ASSUME NEW j \in JobIds, DeleteRead(h, j) \/ ManualRead(h, j) PROVE ClaimInv'
  <2>1. UNCHANGED <<db, writer>> /\ ~InDispatch(h)'
    BY <1>0, <1>4 DEF DeleteRead, ManualRead, Load, Goto, InDispatch, Dispatching, TypeInv, TaskTypes
  <2>2. ManualHolds'
    BY <1>1, <2>1 DEF ClaimInv, ManualHolds, InDispatch
  <2> QED BY <1>2, <1>3, <2>1, <2>2, HoldsKept DEF ClaimInv
<1>5. CASE DeleteCancel(h)
  <2>1. job[h] \in JobIds /\ copy[h] \in Row /\ db[job[h]] \in Row
    BY <1>0, <1>5 DEF DeleteCancel, TypeInv, TaskTypes, InHand, TableTypes
  <2> DEFINE new == Flush(db[job[h]], copy[h], Cancelled(copy[h]))
  <2>2. new.gen = db[job[h]].gen /\ new.status = "cancelled"
    BY <1>5, <2>1, CancelledRow, FlushedRow DEF DeleteCancel, SameJob, Dirty
  <2>3. db' = [db EXCEPT ![job[h]] = new]
    BY <1>5 DEF DeleteCancel
  <2> HIDE DEF new
  <2>4. ManualHolds'
    <3>1. \A g \in Handlers : ~InDispatch(g)
      BY <1>5, StoryJobsAssumption DEF DeleteCancel, ClaimInv, ManualHolds
    <3>2. ~InDispatch(h)'
      BY <1>0, <1>5 DEF DeleteCancel, Release, Goto, InDispatch, Dispatching, TypeInv, TaskTypes
    <3> QED BY <1>1, <3>1, <3>2 DEF ManualHolds, InDispatch
  <2>5. ClaimStands' /\ KnownGenerations'
    <3>1. db[job[h]] # None
      BY <1>5 DEF DeleteCancel
    <3> HIDE DEF WorkerHolds
    <3> QED BY <1>2, <1>3, <2>1, <2>2, <2>3, <3>1, RowRewritten
  <2> QED BY <1>2, <2>4, <2>5 DEF ClaimInv
<1>6. CASE DeletePurge(h)
  <2>1. job[h] \in JobIds /\ db' = [db EXCEPT ![job[h]] = None]
    BY <1>0, <1>6 DEF DeletePurge, TypeInv, TaskTypes, InHand
  <2>2. ManualHolds'
    <3>1. \A g \in Handlers : ~InDispatch(g)
      BY <1>6, StoryJobsAssumption DEF DeletePurge, ClaimInv, ManualHolds
    <3>2. ~InDispatch(h)'
      BY <1>0, <1>6 DEF DeletePurge, Release, Goto, InDispatch, Dispatching, TypeInv, TaskTypes
    <3> QED BY <1>1, <3>1, <3>2 DEF ManualHolds, InDispatch
  <2>3. ClaimStands' /\ KnownGenerations'
    <3> HIDE DEF WorkerHolds
    <3> QED BY <1>2, <1>3, <2>1 DEF ClaimInv, ClaimStands, KnownGenerations, TypeInv, TableTypes
  <2> QED BY <1>2, <2>2, <2>3 DEF ClaimInv
<1>7. CASE ManualClaim(h)
  <2>1. UNCHANGED <<db, job>> /\ writer' = h /\ db[job[h]] # None /\ db[job[h]].status \in {"pending", "failed"}
    BY <1>7 DEF ManualClaim, Claimable
  <2>2. \A g \in Handlers : ~InDispatch(g)
    BY <1>7, StoryJobsAssumption DEF ManualClaim, ClaimInv, ManualHolds
  <2>3. ManualHolds'
    BY <1>1, <2>1, <2>2 DEF ManualHolds, InDispatch
  <2> QED BY <1>2, <1>3, <2>1, <2>3, HoldsKept DEF ClaimInv
<1>8. CASE HandlerRefused(h)
  <2>1. UNCHANGED <<db, writer>> /\ ~InDispatch(h)'
    BY <1>0, <1>8 DEF HandlerRefused, Release, Goto, InDispatch, Dispatching, TypeInv, TaskTypes
  <2>2. ManualHolds'
    BY <1>1, <2>1 DEF ClaimInv, ManualHolds, InDispatch
  <2> QED BY <1>2, <1>3, <2>1, <2>2, HoldsKept DEF ClaimInv
<1>9. CASE ManualMark(h)
  <2>1. InDispatch(h)
    BY <1>9 DEF ManualMark, InDispatch, Dispatching
  <2>2. /\ job[h] \in JobIds /\ copy[h] \in Row /\ db[job[h]] \in Row
        /\ writer = h /\ db[job[h]].status \in {"pending", "failed"}
    BY <1>0, <2>1 DEF ClaimInv, ManualHolds, TypeInv, TaskTypes, InHand, InDispatch, TableTypes
  <2> DEFINE marked == IF outcome[h] = "sent" THEN Sent(copy[h], now)
                       ELSE Failed(copy[h], ErrorText(outcome[h]), now)
             before == Claimed(db[job[h]], copy[h].locked_at)
             new == Flush(before, copy[h], marked)
  <2>3. new.gen = db[job[h]].gen
    <3>1. marked \in Row
      <4>1. now \in Int /\ ErrorText(outcome[h]) \in Errors
        BY DEF TypeInv, TableTypes, ErrorText, Errors
      <4> QED BY <2>2, <4>1, SentRow, FailedRow DEF SameJob
    <3>2. before \in Row /\ before.gen = db[job[h]].gen
      BY <2>2, ClaimedRow, RowFields DEF SameJob
    <3> HIDE DEF marked, before
    <3> QED BY <2>2, <3>1, <3>2, FlushedRow DEF SameJob
  <2>4. db' = [db EXCEPT ![job[h]] = new]
    BY <1>9 DEF ManualMark
  <2> HIDE DEF new
  <2>5. ManualHolds'
    <3>1. \A g \in Handlers : InDispatch(g) => g = h
      BY <2>2 DEF ClaimInv, ManualHolds
    <3>2. ~InDispatch(h)'
      BY <1>0, <1>9 DEF ManualMark, Release, Goto, InDispatch, Dispatching, TypeInv, TaskTypes
    <3> QED BY <1>1, <3>1, <3>2 DEF ManualHolds, InDispatch
  <2>6. ClaimStands' /\ KnownGenerations'
    <3> HIDE DEF WorkerHolds
    <3>1. db[job[h]] # None
      BY <2>1 DEF ClaimInv, ManualHolds
    <3>2. \A row \in WorkerHolds(job[h]) : row # None => row.gen # db[job[h]].gen
      BY <2>2, <3>1 DEF ClaimInv, ClaimStands
    <3>3. PICK i \in JobIds : i = job[h]
      BY <2>2
    <3>4. db[i] # None /\ db' = [db EXCEPT ![i] = new] /\ new.gen = db[i].gen
      BY <2>3, <2>4, <3>1, <3>3
    <3>5. \A row \in WorkerHolds(i)' : row # None => row.gen # new.gen
      BY <1>2, <3>2, <3>3, <3>4
    <3> QED BY <1>2, <1>3, <3>4, <3>5, RowRewritten
  <2> QED BY <1>2, <2>5, <2>6 DEF ClaimInv
<1> QED BY <1>4, <1>5, <1>6, <1>7, <1>8, <1>9

LEMMA DispatchClaims ==
  ASSUME TypeInv, ClaimInv, NEW a \in Tasks, Dispatch(a)
  PROVE  ClaimInv'
<1>0. Worker \in Tasks /\ Handlers \subseteq Tasks /\ Worker \notin Handlers
  BY StoryJobsAssumption DEF Tasks
<1>1. UNCHANGED <<db, created, batch, job, copy>>
  BY DEF Dispatch, EnsureRoleReady, EnsureMedia, AcquireRole, PublishOk, PublishUnheard, PublishFails, MediaInvalid,
         RebuildMedia, MediaFails, Ended
<1>2. InDispatch(a) /\ \E label \in Dispatching : pc' = [pc EXCEPT ![a] = label]
  BY DEF Dispatch, EnsureRoleReady, EnsureMedia, AcquireRole, PublishOk, PublishUnheard, PublishFails, MediaInvalid,
         RebuildMedia, MediaFails, Ended, Goto, Publishing, InDispatch, Dispatching
<1>3. UNCHANGED writer \/ (CanWrite(a) /\ writer' = a)
  BY DEF Dispatch, EnsureRoleReady, EnsureMedia, AcquireRole, PublishOk, PublishUnheard, PublishFails, MediaInvalid,
         RebuildMedia, MediaFails
<1>4. \A b \in Tasks : InDispatch(b)' = InDispatch(b)
  BY <1>2 DEF InDispatch, TypeInv, TaskTypes
<1>5. (pc[Worker] = "batch" \/ InDispatch(Worker))' = (pc[Worker] = "batch" \/ InDispatch(Worker))
  BY <1>0, <1>2 DEF InDispatch, Dispatching, TypeInv, TaskTypes
<1>6. ManualHolds'
  BY <1>0, <1>1, <1>3, <1>4, WriterAlone DEF ClaimInv, ManualHolds
<1>7. \A j \in JobIds : WorkerHolds(j)' = WorkerHolds(j)
  BY <1>0, <1>1, <1>4, <1>5 DEF WorkerHolds
<1>8. OneInHand'
  BY <1>0, <1>1, <1>4 DEF ClaimInv, OneInHand
<1> QED BY <1>1, <1>6, <1>7, <1>8, HoldsKept DEF ClaimInv

\* A step of the worker's task alone, with the table and the write lock of any
\* manual send as they were
LEMMA ManualHoldsKept ==
  ASSUME ManualHolds, UNCHANGED db,
         \A h \in Handlers : UNCHANGED <<pc[h], job[h]>>,
         \A h \in Handlers : writer = h => writer' = h
  PROVE  ManualHolds'
BY DEF ManualHolds, InDispatch

LEMMA EndCycleClaims ==
  ASSUME TypeInv, ClaimInv, EndCycle
  PROVE  ClaimInv'
<1>0. Worker \in Tasks /\ Handlers \subseteq Tasks /\ Worker \notin Handlers
  BY StoryJobsAssumption DEF Tasks
<1>1. UNCHANGED <<db, created>> /\ pc' = [pc EXCEPT ![Worker] = "idle"] /\ job' = [job EXCEPT ![Worker] = None]
  BY DEF EndCycle, Release, Goto
<1>2. ManualHolds'
  <2>1. \A h \in Handlers : UNCHANGED <<pc[h], job[h]>>
    BY <1>0, <1>1 DEF TypeInv, TaskTypes
  <2>2. \A h \in Handlers : writer = h => writer' = h
    BY <1>0 DEF EndCycle, Unlocked
  <2> QED BY <1>1, <2>1, <2>2, ManualHoldsKept DEF ClaimInv
<1>3. pc'[Worker] = "idle"
  BY <1>0, <1>1 DEF TypeInv, TaskTypes
<1>4. OneInHand' /\ \A j \in JobIds : WorkerHolds(j)' = {}
  BY <1>3 DEF OneInHand, WorkerHolds, InDispatch, Dispatching
<1> QED BY <1>1, <1>2, <1>4, HoldsKept DEF ClaimInv

LEMMA WorkerClaims ==
  ASSUME TypeInv, ClaimInv,
         RepairRead \/ RepairCommit \/ ClaimDueJobs \/ (\E j \in JobIds : TakeJob(j)) \/ WorkerMark
           \/ WorkerFlushFails \/ CycleTimeout
  PROVE  ClaimInv'
<1>0. Worker \in Tasks /\ Handlers \subseteq Tasks /\ Worker \notin Handlers
  BY StoryJobsAssumption DEF Tasks
<1>1. CASE RepairRead
  <2>1. UNCHANGED <<db, created, writer, job>> /\ pc' = [pc EXCEPT ![Worker] = "repair"]
    BY <1>1 DEF RepairRead, Goto
  <2>2. pc'[Worker] = "repair" /\ \A h \in Handlers : UNCHANGED <<pc[h], job[h]>>
    BY <1>0, <2>1 DEF TypeInv, TaskTypes
  <2>3. ManualHolds'
    BY <2>1, <2>2, ManualHoldsKept DEF ClaimInv
  <2>4. OneInHand' /\ \A j \in JobIds : WorkerHolds(j)' = {}
    BY <2>2 DEF OneInHand, WorkerHolds, InDispatch, Dispatching
  <2> QED BY <2>1, <2>3, <2>4, HoldsKept DEF ClaimInv
<1>2. CASE RepairCommit
  <2>1. UNCHANGED <<created, writer, job>> /\ pc' = [pc EXCEPT ![Worker] = "idle"]
    BY <1>2 DEF RepairCommit, Goto
  <2>2. pc'[Worker] = "idle" /\ \A h \in Handlers : UNCHANGED <<pc[h], job[h]>>
    BY <1>0, <2>1 DEF TypeInv, TaskTypes
  <2>3. OneInHand' /\ \A j \in JobIds : WorkerHolds(j)' = {}
    BY <2>2 DEF OneInHand, WorkerHolds, InDispatch, Dispatching
  <2>4. ManualHolds'
    <3>1. CASE RepairWrites = {}
      <4>1. UNCHANGED db
        BY <1>2, <3>1 DEF RepairCommit, TypeInv, TableTypes
      <4> QED BY <2>1, <2>2, <4>1, ManualHoldsKept DEF ClaimInv
    <3>2. CASE RepairWrites # {}
      <4>1. \A h \in Handlers : ~InDispatch(h)
        BY <1>2, <3>2, StoryJobsAssumption DEF RepairCommit, ClaimInv, ManualHolds
      <4> QED BY <2>2, <4>1 DEF ManualHolds, InDispatch
    <3> QED BY <3>1, <3>2
  <2>5. \A j \in JobIds : db'[j] # None => db[j] # None /\ db'[j].gen = db[j].gen
    <3> SUFFICES ASSUME NEW j \in JobIds, db'[j] # None
                 PROVE  db[j] # None /\ db'[j].gen = db[j].gen
      OBVIOUS
    <3>1. CASE j \in RepairWrites
      <4>1. batch[j] \in Row /\ db[j] \in Row /\ db[j] # None
        BY <1>2, <3>1 DEF RepairCommit, RepairWrites, TypeInv, TableTypes
      <4>2. Repaired(batch[j], stamp) \in Row
        BY <4>1, RepairedRow DEF SameJob, TypeInv, TableTypes
      <4>3. Flush(db[j], batch[j], Repaired(batch[j], stamp)).gen = db[j].gen
        BY <4>1, <4>2, FlushedRow DEF SameJob
      <4> QED BY <1>2, <3>1, <4>1, <4>3 DEF RepairCommit
    <3>2. CASE j \notin RepairWrites
      BY <1>2, <3>2 DEF RepairCommit
    <3> QED BY <3>1, <3>2
  <2>6. ClaimStands' /\ KnownGenerations'
    BY <2>1, <2>3, <2>5 DEF ClaimInv, ClaimStands, KnownGenerations
  <2> QED BY <2>3, <2>4, <2>6 DEF ClaimInv
<1>3. CASE ClaimDueJobs
  <2>1. UNCHANGED <<created, writer, job>> /\ pc' = [pc EXCEPT ![Worker] = "batch"] /\ writer = None
    BY <1>3 DEF ClaimDueJobs, Goto
  <2>2. pc'[Worker] = "batch" /\ \A h \in Handlers : UNCHANGED <<pc[h], job[h]>>
    BY <1>0, <2>1 DEF TypeInv, TaskTypes
  <2>3. OneInHand' /\ \A j \in JobIds : WorkerHolds(j)' = {batch'[j]}
    BY <2>2 DEF OneInHand, WorkerHolds, InDispatch, Dispatching
  <2>4. ManualHolds'
    <3>1. \A h \in Handlers : ~InDispatch(h)
      BY <2>1, StoryJobsAssumption DEF ClaimInv, ManualHolds
    <3> QED BY <2>2, <3>1 DEF ManualHolds, InDispatch
  <2>5. ASSUME NEW j \in JobIds
        PROVE  /\ db'[j] # None => db[j] # None /\ db'[j].gen = db[j].gen
               /\ batch'[j] # None => /\ batch'[j] = db'[j]
                                      /\ db[j] # None
                                      /\ batch'[j].gen = db[j].gen
                                      /\ db'[j].status = "processing"
    <3>1. CASE j \in DueBatch
      <4>1. db[j] \in Row /\ db[j] # None
        BY <3>1 DEF DueBatch, Due, TypeInv, TableTypes
      <4>2. Claimed(db[j], now).gen = db[j].gen /\ Claimed(db[j], now).status = "processing"
        BY <4>1, ClaimedRow DEF SameJob, TypeInv, TableTypes
      <4> QED BY <1>3, <3>1, <4>1, <4>2 DEF ClaimDueJobs
    <3>2. CASE j \notin DueBatch
      BY <1>3, <3>2 DEF ClaimDueJobs
    <3> QED BY <3>1, <3>2
  <2>6. ClaimStands' /\ KnownGenerations'
    BY <2>1, <2>3, <2>5 DEF ClaimInv, ClaimStands, KnownGenerations
  <2> QED BY <2>3, <2>4, <2>6 DEF ClaimInv
<1>4. ASSUME NEW j \in JobIds, TakeJob(j) PROVE ClaimInv'
  <2>1. /\ UNCHANGED <<db, created, writer>>
        /\ pc[Worker] = "batch"
        /\ pc' = [pc EXCEPT ![Worker] = "ensure"]
        /\ job' = [job EXCEPT ![Worker] = j]
        /\ copy' = [copy EXCEPT ![Worker] = batch[j]]
        /\ batch' = [batch EXCEPT ![j] = None]
    BY <1>4 DEF TakeJob, Load, Goto
  <2>2. /\ pc'[Worker] = "ensure" /\ job'[Worker] = j /\ copy'[Worker] = batch[j] /\ batch'[j] = None
        /\ \A i \in JobIds : i # j => batch'[i] = batch[i]
        /\ \A h \in Handlers : UNCHANGED <<pc[h], job[h]>>
    BY <1>0, <2>1 DEF TypeInv, TaskTypes, TableTypes
  <2>3. ManualHolds'
    BY <2>1, <2>2, ManualHoldsKept DEF ClaimInv
  <2>4. OneInHand'
    BY <2>2 DEF OneInHand
  <2>5. \A i \in JobIds : WorkerHolds(i)' \subseteq WorkerHolds(i) \cup {None}
    BY <2>1, <2>2 DEF WorkerHolds, InDispatch, Dispatching
  <2> QED BY <2>1, <2>3, <2>4, <2>5, HoldsKept DEF ClaimInv
<1>5. CASE WorkerMark
  <2> DEFINE row == copy[Worker]
             marked == IF outcome[Worker] = "sent" THEN Sent(row, now)
                       ELSE PublishFailed(row, outcome[Worker], now)
             new == Flush(db[job[Worker]], row, marked)
  <2>1. InDispatch(Worker)
    BY <1>5 DEF WorkerMark, InDispatch, Dispatching
  <2>2. /\ job[Worker] \in JobIds /\ row \in Row /\ db[job[Worker]] \in Row /\ db[job[Worker]] # None
        /\ batch[job[Worker]] = None
    BY <1>0, <1>5, <2>1 DEF WorkerMark, ClaimInv, OneInHand, TypeInv, TaskTypes, InHand, InDispatch, TableTypes
  <2>3. new.gen = db[job[Worker]].gen
    <3>1. marked \in Row
      <4>1. now \in Int /\ outcome[Worker] \in Outcomes
        BY <1>0 DEF TypeInv, TaskTypes, TableTypes
      <4> QED BY <2>2, <4>1, SentRow, PublishFailedRow DEF SameJob
    <3> HIDE DEF marked, row
    <3> QED BY <2>2, <3>1, FlushedRow DEF SameJob
  <2>4. /\ UNCHANGED <<created, batch>>
        /\ db' = [db EXCEPT ![job[Worker]] = new]
        /\ job' = [job EXCEPT ![Worker] = None]
        /\ \E label \in {"idle", "batch"} : pc' = [pc EXCEPT ![Worker] = label]
    BY <1>5 DEF WorkerMark, Release, Goto
  <2> HIDE DEF new, row
  <2>5. pc'[Worker] \in {"idle", "batch"} /\ \A h \in Handlers : UNCHANGED <<pc[h], job[h]>>
    BY <1>0, <2>4 DEF TypeInv, TaskTypes
  <2>6. ManualHolds'
    <3>1. \A h \in Handlers : ~InDispatch(h)
      BY <1>0, <1>5, WriterAlone DEF WorkerMark, ClaimInv
    <3> QED BY <2>5, <3>1 DEF ManualHolds, InDispatch
  <2>7. OneInHand' /\ \A j \in JobIds : WorkerHolds(j)' \subseteq {batch[j]}
    BY <2>4, <2>5 DEF OneInHand, WorkerHolds, InDispatch, Dispatching
  <2>8. \A j \in JobIds : batch[j] \in WorkerHolds(j)
    BY <2>1 DEF WorkerHolds
  <2>9. ClaimStands' /\ KnownGenerations'
    <3>1. PICK i \in JobIds : i = job[Worker]
      BY <2>2
    <3>2. db[i] # None /\ db' = [db EXCEPT ![i] = new] /\ new.gen = db[i].gen /\ batch[i] = None
      BY <2>2, <2>3, <2>4, <3>1
    <3>3. \A row_ \in WorkerHolds(i)' : row_ = None
      BY <2>7, <3>2
    <3>4. \A j \in JobIds : WorkerHolds(j)' \subseteq WorkerHolds(j) \cup {None}
      BY <2>7, <2>8
    <3> QED BY <2>4, <3>2, <3>3, <3>4, RowRewritten
  <2> QED BY <2>6, <2>7, <2>9 DEF ClaimInv
<1>6. CASE WorkerFlushFails
  BY <1>6, EndCycleClaims DEF WorkerFlushFails
<1>7. CASE CycleTimeout
  BY <1>7, EndCycleClaims DEF CycleTimeout
<1> QED BY <1>1, <1>2, <1>3, <1>4, <1>5, <1>6, <1>7

LEMMA ClaimInvStep ==
  ASSUME TypeInv, ClaimInv, [Next]_vars
  PROVE  ClaimInv'
<1>0. Worker \in Tasks /\ Handlers \subseteq Tasks
  BY DEF Tasks
<1>1. CASE UNCHANGED <<db, created, writer, pc, job, copy, batch>>
  BY <1>1 DEF ClaimInv, ManualHolds, ClaimStands, KnownGenerations, OneInHand, WorkerHolds, InDispatch
<1>2. CASE Tick \/ UNCHANGED vars
  BY <1>1, <1>2 DEF Tick, vars, taskVars
<1>3. ASSUME NEW j \in JobIds, NEW c \in Commands, CreateJob(j, c) PROVE ClaimInv'
  <2>1. /\ writer = None /\ UNCHANGED <<pc, job, copy, batch>>
        /\ created' = created + 1 /\ db[j] = None
        /\ \A i \in JobIds : i # j => db'[i] = db[i]
        /\ db'[j].gen = created + 1
    BY <1>3 DEF CreateJob, taskVars, TypeInv, TableTypes, JobIds
  <2>2. ManualHolds'
    BY <2>1, StoryJobsAssumption DEF ClaimInv, ManualHolds, InDispatch
  <2>3. OneInHand' /\ \A i \in JobIds : WorkerHolds(i)' = WorkerHolds(i)
    BY <2>1 DEF ClaimInv, OneInHand, WorkerHolds, InDispatch
  <2>4. created \in Nat /\ \A i \in JobIds : \A row \in WorkerHolds(i) : row # None => row \in Row
    <3>1. created \in Nat
      BY StoryJobsAssumption DEF TypeInv, TableTypes
    <3>2. \A i \in JobIds : \A row \in WorkerHolds(i) : row # None => row \in Row
      BY <1>0 DEF TypeInv, TaskTypes, TableTypes, WorkerHolds
    <3> QED BY <3>1, <3>2
  <2>5. ClaimStands'
    <3> SUFFICES ASSUME NEW i \in JobIds, NEW row \in WorkerHolds(i), row # None, db'[i] # None, db'[i].gen = row.gen
                 PROVE  db'[i].status \in {"processing", "cancelled"}
      BY <2>3 DEF ClaimStands
    <3>1. row.gen <= created /\ row.gen \in Int
      BY <2>4, RowFields DEF ClaimInv, KnownGenerations
    <3>2. i # j
      BY <2>1, <2>4, <3>1
    <3> QED BY <2>1, <3>2 DEF ClaimInv, ClaimStands
  <2>6. KnownGenerations'
    <3> SUFFICES ASSUME NEW i \in JobIds
                 PROVE  /\ db'[i] # None => db'[i].gen <= created + 1
                        /\ \A row \in WorkerHolds(i) : row # None => row.gen <= created + 1
      BY <2>1, <2>3 DEF KnownGenerations
    <3>1. ASSUME NEW row \in Row, row.gen <= created PROVE row.gen <= created + 1
      BY <2>4, <3>1, RowFields
    <3>2. db'[i] # None => db'[i].gen <= created + 1
      BY <2>1, <2>4, <3>1 DEF ClaimInv, KnownGenerations, TypeInv, TableTypes
    <3>3. \A row \in WorkerHolds(i) : row # None => row.gen <= created + 1
      BY <2>4, <3>1 DEF ClaimInv, KnownGenerations
    <3> QED BY <3>2, <3>3
  <2> QED BY <2>2, <2>3, <2>5, <2>6 DEF ClaimInv
<1>4. CASE Crash
  <2>1. UNCHANGED <<db, created>> /\ pc' = [a \in Tasks |-> "idle"]
    BY <1>4 DEF Crash
  <2>2. ManualHolds' /\ OneInHand' /\ \A j \in JobIds : WorkerHolds(j)' = {}
    BY <1>0, <2>1 DEF ManualHolds, OneInHand, WorkerHolds, InDispatch, Dispatching
  <2> QED BY <2>1, <2>2, HoldsKept DEF ClaimInv
<1> QED BY <1>2, <1>3, <1>4, HandlerClaims, DispatchClaims, WorkerClaims DEF Next

-----------------------------------------------------------------------------
(* LockInv is preserved.                                                   *)

\* A handler's step that leaves the table alone and gives no claim
LEMMA HandlerLocks ==
  ASSUME TypeInv, ClaimInv, LockInv, NEW h \in Handlers,
         \/ \E j \in JobIds : DeleteRead(h, j) \/ ManualRead(h, j)
         \/ DeleteCancel(h) \/ DeletePurge(h) \/ ManualClaim(h) \/ HandlerRefused(h) \/ ManualMark(h)
  PROVE  LockInv'
<1>0. h \in Tasks /\ Worker \in Tasks /\ Handlers \subseteq Tasks /\ h # Worker
  BY StoryJobsAssumption DEF Tasks
<1>1. /\ WorkerStays
      /\ \A g \in Handlers : g # h => UNCHANGED <<pc[g], job[g], copy[g]>>
  BY OthersStep DEF DeleteRead, ManualRead, DeleteCancel, DeletePurge, ManualClaim, HandlerRefused, ManualMark
<1>2. pc'[Worker] = pc[Worker] /\ copy'[Worker] = copy[Worker] /\ batch' = batch
  BY <1>1 DEF WorkerStays
\* Parts of LockInv about the worker's copies and about other handlers
<1>3. ASSUME InDispatch(h)' => copy'[h].status = "processing" /\ copy'[h].locked_at # None
      PROVE  CopiesLocked'
  BY <1>1, <1>2, <1>3 DEF LockInv, CopiesLocked, InDispatch, Tasks
<1>4. ASSUME pc'[h] = "delete" /\ copy'[h].status \in {"pending", "failed"} => copy'[h].locked_at = None
      PROVE  DeleteCopiesUnlocked'
  BY <1>1, <1>4 DEF LockInv, DeleteCopiesUnlocked
\* ... and about the table
<1>5. ASSUME NEW i \in JobIds,
             \A j \in JobIds : j # i => db'[j] = db[j],
             db'[i] # None => \/ db'[i].locked_at = None
                             \/ /\ db[i] # None
                                /\ db'[i].locked_at = db[i].locked_at
                                /\ db'[i].status \notin {"pending", "failed"}
      PROVE  EligibleUnlocked' /\ RepairListUnlocked'
  <2>1. EligibleUnlocked'
    BY <1>5 DEF LockInv, EligibleUnlocked
  <2>2. RepairListUnlocked'
    BY <1>2, <1>5 DEF LockInv, RepairListUnlocked
  <2> QED BY <2>1, <2>2
<1>6. ASSUME UNCHANGED db PROVE EligibleUnlocked' /\ RepairListUnlocked'
  BY <1>2, <1>6 DEF LockInv, EligibleUnlocked, RepairListUnlocked
<1>7. ASSUME NEW j \in JobIds, DeleteRead(h, j) PROVE LockInv'
  <2>1. UNCHANGED db /\ pc'[h] = "delete" /\ copy'[h] = db[j] /\ db[j] # None
    BY <1>0, <1>7 DEF DeleteRead, Load, Goto, TypeInv, TaskTypes
  <2>2. DeleteCopiesUnlocked'
    BY <1>4, <2>1 DEF LockInv, EligibleUnlocked
  <2>3. CopiesLocked'
    BY <1>3, <2>1 DEF InDispatch, Dispatching
  <2> QED BY <1>6, <2>1, <2>2, <2>3 DEF LockInv
<1>8. ASSUME NEW j \in JobIds, ManualRead(h, j) PROVE LockInv'
  <2>1. UNCHANGED db /\ pc'[h] = "claim"
    BY <1>0, <1>8 DEF ManualRead, Load, Goto, TypeInv, TaskTypes
  <2>2. CopiesLocked' /\ DeleteCopiesUnlocked'
    BY <1>3, <1>4, <2>1 DEF InDispatch, Dispatching
  <2> QED BY <1>6, <2>1, <2>2 DEF LockInv
<1>9. CASE DeleteCancel(h)
  <2>1. /\ job[h] \in JobIds /\ copy[h] \in Row /\ db[job[h]] \in Row /\ db[job[h]] # None
        /\ pc[h] = "delete" /\ copy[h].status \in {"pending", "failed"}
    BY <1>0, <1>9 DEF DeleteCancel, TypeInv, TaskTypes, InHand, TableTypes
  <2> DEFINE new == Flush(db[job[h]], copy[h], Cancelled(copy[h]))
  <2>2. new.status = "cancelled" /\ new.locked_at = db[job[h]].locked_at
    <3>1. copy[h].locked_at = None
      BY <2>1 DEF LockInv, DeleteCopiesUnlocked
    <3> QED BY <2>1, <3>1, CancelledRow, FlushedRow DEF SameJob, Dirty
  <2>3. db' = [db EXCEPT ![job[h]] = new] /\ pc'[h] = "idle"
    BY <1>0, <1>9 DEF DeleteCancel, Release, Goto, TypeInv, TaskTypes
  <2> HIDE DEF new
  <2>4. PICK i \in JobIds : i = job[h]
    BY <2>1
  <2>5. /\ \A j \in JobIds : j # i => db'[j] = db[j]
        /\ db'[i] = new
    BY <2>3, <2>4 DEF TypeInv, TableTypes
  <2>6. EligibleUnlocked' /\ RepairListUnlocked'
    BY <1>5, <2>1, <2>2, <2>4, <2>5
  <2>7. CopiesLocked' /\ DeleteCopiesUnlocked'
    BY <1>3, <1>4, <2>3 DEF InDispatch, Dispatching
  <2> QED BY <2>6, <2>7 DEF LockInv
<1>10. CASE DeletePurge(h)
  <2>1. job[h] \in JobIds /\ db' = [db EXCEPT ![job[h]] = None] /\ pc'[h] = "idle"
    BY <1>0, <1>10 DEF DeletePurge, Release, Goto, TypeInv, TaskTypes, InHand
  <2>2. PICK i \in JobIds : i = job[h]
    BY <2>1
  <2>3. db'[i] = None /\ \A j \in JobIds : j # i => db'[j] = db[j]
    BY <2>1, <2>2 DEF TypeInv, TableTypes
  <2>4. EligibleUnlocked' /\ RepairListUnlocked'
    BY <1>5, <2>3
  <2>5. CopiesLocked' /\ DeleteCopiesUnlocked'
    BY <1>3, <1>4, <2>1 DEF InDispatch, Dispatching
  <2> QED BY <2>4, <2>5 DEF LockInv
<1>11. CASE ManualClaim(h)
  <2>1. copy[h] \in Row /\ UNCHANGED db /\ pc'[h] = "ensure" /\ copy'[h] = Claimed(copy[h], now)
    BY <1>0, <1>11 DEF ManualClaim, Goto, TypeInv, TaskTypes, InHand
  <2>2. now \in Int /\ now # None
    BY NoneAssumption DEF TypeInv, TableTypes
  <2>3. copy'[h].status = "processing" /\ copy'[h].locked_at # None
    BY <2>1, <2>2, ClaimedRow
  <2>4. CopiesLocked' /\ DeleteCopiesUnlocked'
    BY <1>3, <1>4, <2>1, <2>3
  <2> QED BY <1>6, <2>1, <2>4 DEF LockInv
<1>12. CASE HandlerRefused(h)
  <2>1. UNCHANGED db /\ pc'[h] = "idle"
    BY <1>0, <1>12 DEF HandlerRefused, Release, Goto, TypeInv, TaskTypes
  <2>2. CopiesLocked' /\ DeleteCopiesUnlocked'
    BY <1>3, <1>4, <2>1 DEF InDispatch, Dispatching
  <2> QED BY <1>6, <2>1, <2>2 DEF LockInv
<1>13. CASE ManualMark(h)
  <2>1. InDispatch(h)
    BY <1>13 DEF ManualMark, InDispatch, Dispatching
  <2>2. job[h] \in JobIds /\ copy[h] \in Row /\ db[job[h]] \in Row /\ copy[h].locked_at # None
    BY <1>0, <2>1 DEF LockInv, CopiesLocked, ClaimInv, ManualHolds, TypeInv, TaskTypes, InHand, InDispatch, TableTypes
  <2> DEFINE marked == IF outcome[h] = "sent" THEN Sent(copy[h], now)
                       ELSE Failed(copy[h], ErrorText(outcome[h]), now)
             before == Claimed(db[job[h]], copy[h].locked_at)
             new == Flush(before, copy[h], marked)
  <2>3. new.locked_at = None
    <3>1. marked \in Row /\ marked.locked_at = None
      <4>1. now \in Int /\ ErrorText(outcome[h]) \in Errors
        BY DEF TypeInv, TableTypes, ErrorText, Errors
      <4> QED BY <2>2, <4>1, SentRow, FailedRow DEF SameJob
    <3>2. before \in Row
      BY <2>2, ClaimedRow, RowFields DEF SameJob
    <3> HIDE DEF marked, before
    <3> QED BY <2>2, <3>1, <3>2, FlushedRow DEF Dirty
  <2>4. db' = [db EXCEPT ![job[h]] = new] /\ pc'[h] = "idle"
    BY <1>0, <1>13 DEF ManualMark, Release, Goto, TypeInv, TaskTypes
  <2> HIDE DEF new
  <2>5. PICK i \in JobIds : i = job[h]
    BY <2>2
  <2>6. db'[i].locked_at = None /\ \A j \in JobIds : j # i => db'[j] = db[j]
    BY <2>3, <2>4, <2>5 DEF TypeInv, TableTypes
  <2>7. EligibleUnlocked' /\ RepairListUnlocked'
    BY <1>5, <2>6
  <2>8. CopiesLocked' /\ DeleteCopiesUnlocked'
    BY <1>3, <1>4, <2>4 DEF InDispatch, Dispatching
  <2> QED BY <2>7, <2>8 DEF LockInv
<1> QED BY <1>7, <1>8, <1>9, <1>10, <1>11, <1>12, <1>13

LEMMA DispatchLocks ==
  ASSUME TypeInv, LockInv, NEW a \in Tasks, Dispatch(a)
  PROVE  LockInv'
<1>0. Worker \in Tasks /\ Handlers \subseteq Tasks
  BY DEF Tasks
<1>1. UNCHANGED <<db, batch, copy>>
  BY DEF Dispatch, EnsureRoleReady, EnsureMedia, AcquireRole, PublishOk, PublishUnheard, PublishFails, MediaInvalid,
         RebuildMedia, MediaFails, Ended
<1>2. InDispatch(a) /\ \E label \in Dispatching : pc' = [pc EXCEPT ![a] = label]
  BY DEF Dispatch, EnsureRoleReady, EnsureMedia, AcquireRole, PublishOk, PublishUnheard, PublishFails, MediaInvalid,
         RebuildMedia, MediaFails, Ended, Goto, Publishing, InDispatch, Dispatching
<1>3. \A b \in Tasks : /\ InDispatch(b)' = InDispatch(b)
                       /\ pc'[b] \in {"batch", "repair", "delete"} => pc'[b] = pc[b]
  BY <1>2 DEF InDispatch, Dispatching, TypeInv, TaskTypes
<1>4. CopiesLocked'
  BY <1>0, <1>1, <1>3 DEF LockInv, CopiesLocked
<1>5. EligibleUnlocked'
  BY <1>1 DEF LockInv, EligibleUnlocked
<1>6. RepairListUnlocked'
  BY <1>0, <1>1, <1>3 DEF LockInv, RepairListUnlocked
<1>7. DeleteCopiesUnlocked'
  BY <1>0, <1>1, <1>3 DEF LockInv, DeleteCopiesUnlocked
<1> QED BY <1>4, <1>5, <1>6, <1>7 DEF LockInv

\* What CopiesLocked says of the worker
WorkerCopiesLocked ==
    /\ InDispatch(Worker) => copy[Worker].status = "processing" /\ copy[Worker].locked_at # None
    /\ pc[Worker] = "batch" \/ InDispatch(Worker)
       => \A j \in JobIds : batch[j] # None => batch[j].status = "processing" /\ batch[j].locked_at # None

\* A step of the worker alone keeps what LockInv says of the handlers.
LEMMA WorkerStepLocks ==
  ASSUME TypeInv, LockInv, WorkerCopiesLocked',
         \A h \in Handlers : UNCHANGED <<pc[h], copy[h]>>
  PROVE  CopiesLocked' /\ DeleteCopiesUnlocked'
BY DEF LockInv, CopiesLocked, DeleteCopiesUnlocked, WorkerCopiesLocked, InDispatch, Tasks

LEMMA EndCycleLocks ==
  ASSUME TypeInv, LockInv, EndCycle
  PROVE  LockInv'
<1>0. Worker \in Tasks /\ Handlers \subseteq Tasks /\ Worker \notin Handlers
  BY StoryJobsAssumption DEF Tasks
<1>1. /\ UNCHANGED db
      /\ pc' = [pc EXCEPT ![Worker] = "idle"]
      /\ copy' = [copy EXCEPT ![Worker] = None]
  BY DEF EndCycle, Release, Goto
<1>2. pc'[Worker] = "idle" /\ \A h \in Handlers : UNCHANGED <<pc[h], copy[h]>>
  BY <1>0, <1>1 DEF TypeInv, TaskTypes
<1>3. CopiesLocked' /\ DeleteCopiesUnlocked'
  BY <1>2, WorkerStepLocks DEF WorkerCopiesLocked, InDispatch, Dispatching
<1>4. EligibleUnlocked' /\ RepairListUnlocked'
  BY <1>1, <1>2 DEF LockInv, EligibleUnlocked, RepairListUnlocked
<1> QED BY <1>3, <1>4 DEF LockInv

LEMMA RepairLocks ==
  ASSUME TypeInv, LockInv, RepairRead \/ RepairCommit
  PROVE  LockInv'
<1>0. Worker \in Tasks /\ Handlers \subseteq Tasks /\ Worker \notin Handlers
  BY StoryJobsAssumption DEF Tasks
<1>1. CASE RepairRead
  <2>1. /\ UNCHANGED <<db, copy>>
        /\ pc' = [pc EXCEPT ![Worker] = "repair"]
        /\ \A j \in JobIds : batch'[j] # None => db[j] # None /\ db[j].status = "failed" /\ batch'[j] = db[j]
    BY <1>1 DEF RepairRead, FailedJobs, Goto
  <2>2. pc'[Worker] = "repair" /\ \A h \in Handlers : UNCHANGED <<pc[h], copy[h]>>
    BY <1>0, <2>1 DEF TypeInv, TaskTypes
  <2>3. CopiesLocked' /\ DeleteCopiesUnlocked'
    BY <2>2, WorkerStepLocks DEF WorkerCopiesLocked, InDispatch, Dispatching
  <2>4. EligibleUnlocked' /\ RepairListUnlocked'
    BY <2>1 DEF LockInv, EligibleUnlocked, RepairListUnlocked
  <2> QED BY <2>3, <2>4 DEF LockInv
<1>2. CASE RepairCommit
  <2>1. UNCHANGED copy /\ pc[Worker] = "repair" /\ pc' = [pc EXCEPT ![Worker] = "idle"]
    BY <1>2 DEF RepairCommit, Goto
  <2>2. pc'[Worker] = "idle" /\ \A h \in Handlers : UNCHANGED <<pc[h], copy[h]>>
    BY <1>0, <2>1 DEF TypeInv, TaskTypes
  <2>3. CopiesLocked' /\ DeleteCopiesUnlocked'
    BY <2>2, WorkerStepLocks DEF WorkerCopiesLocked, InDispatch, Dispatching
  <2>4. EligibleUnlocked'
    <3> SUFFICES ASSUME NEW j \in JobIds, db'[j] # None, db'[j].status \in {"pending", "failed"}
                 PROVE  db'[j].locked_at = None
      BY DEF EligibleUnlocked
    <3>1. CASE j \in RepairWrites
      <4>1. batch[j] \in Row /\ db[j] \in Row /\ batch[j].locked_at = None /\ db[j].locked_at = None
        BY <1>2, <2>1, <3>1 DEF RepairCommit, RepairWrites, TypeInv, TableTypes, LockInv, RepairListUnlocked
      <4>2. Repaired(batch[j], stamp) \in Row /\ Repaired(batch[j], stamp).locked_at = None
        BY <4>1, RepairedRow DEF SameJob, TypeInv, TableTypes
      <4>3. Flush(db[j], batch[j], Repaired(batch[j], stamp)).locked_at = None
        BY <4>1, <4>2, FlushedRow DEF Dirty
      <4> QED BY <1>2, <3>1, <4>3 DEF RepairCommit
    <3>2. CASE j \notin RepairWrites
      BY <1>2, <3>2 DEF RepairCommit, LockInv, EligibleUnlocked
    <3> QED BY <3>1, <3>2
  <2>5. RepairListUnlocked'
    BY <2>2 DEF RepairListUnlocked
  <2> QED BY <2>3, <2>4, <2>5 DEF LockInv
<1> QED BY <1>1, <1>2

LEMMA ClaimLocks ==
  ASSUME TypeInv, LockInv, ClaimDueJobs \/ \E j \in JobIds : TakeJob(j)
  PROVE  LockInv'
<1>0. Worker \in Tasks /\ Handlers \subseteq Tasks /\ Worker \notin Handlers
  BY StoryJobsAssumption DEF Tasks
<1>1. CASE ClaimDueJobs
  <2>1. UNCHANGED copy /\ pc' = [pc EXCEPT ![Worker] = "batch"]
    BY <1>1 DEF ClaimDueJobs, Goto
  <2>2. pc'[Worker] = "batch" /\ \A h \in Handlers : UNCHANGED <<pc[h], copy[h]>>
    BY <1>0, <2>1 DEF TypeInv, TaskTypes
  <2>3. ASSUME NEW j \in DueBatch
        PROVE  /\ db'[j] = Claimed(db[j], now) /\ batch'[j] = db'[j]
               /\ db'[j].status = "processing" /\ db'[j].locked_at # None
    <3>1. j \in JobIds /\ db[j] \in Row
      BY DEF DueBatch, Due, TypeInv, TableTypes
    <3>2. now \in Int /\ now # None
      BY NoneAssumption DEF TypeInv, TableTypes
    <3>3. db'[j] = Claimed(db[j], now) /\ batch'[j] = Claimed(db[j], now)
      BY <1>1, <3>1 DEF ClaimDueJobs
    <3> QED BY <3>1, <3>2, <3>3, ClaimedRow
  <2>4. \A j \in JobIds : j \notin DueBatch => db'[j] = db[j] /\ batch'[j] = None
    BY <1>1 DEF ClaimDueJobs
  <2>5. CopiesLocked' /\ DeleteCopiesUnlocked'
    BY <2>2, <2>3, <2>4, WorkerStepLocks DEF WorkerCopiesLocked, InDispatch, Dispatching
  <2>6. EligibleUnlocked' /\ RepairListUnlocked'
    BY <2>2, <2>3, <2>4 DEF LockInv, EligibleUnlocked, RepairListUnlocked
  <2> QED BY <2>5, <2>6 DEF LockInv
<1>2. ASSUME NEW j \in JobIds, TakeJob(j) PROVE LockInv'
  <2>1. /\ UNCHANGED db
        /\ pc[Worker] = "batch" /\ batch[j] # None
        /\ pc' = [pc EXCEPT ![Worker] = "ensure"]
        /\ copy' = [copy EXCEPT ![Worker] = batch[j]]
        /\ batch' = [batch EXCEPT ![j] = None]
    BY <1>2 DEF TakeJob, Load, Goto
  <2>2. /\ pc'[Worker] = "ensure" /\ copy'[Worker] = batch[j] /\ batch'[j] = None
        /\ \A i \in JobIds : i # j => batch'[i] = batch[i]
        /\ \A h \in Handlers : UNCHANGED <<pc[h], copy[h]>>
    BY <1>0, <2>1 DEF TypeInv, TaskTypes, TableTypes
  <2>3. \A i \in JobIds : batch[i] # None => batch[i].status = "processing" /\ batch[i].locked_at # None
    BY <2>1 DEF LockInv, CopiesLocked
  <2>4. CopiesLocked' /\ DeleteCopiesUnlocked'
    BY <2>1, <2>2, <2>3, WorkerStepLocks DEF WorkerCopiesLocked, InDispatch, Dispatching
  <2>5. EligibleUnlocked' /\ RepairListUnlocked'
    BY <2>1, <2>2 DEF LockInv, EligibleUnlocked, RepairListUnlocked
  <2> QED BY <2>4, <2>5 DEF LockInv
<1> QED BY <1>1, <1>2

LEMMA WorkerMarkLocks ==
  ASSUME TypeInv, LockInv, WorkerMark
  PROVE  LockInv'
<1>0. Worker \in Tasks /\ Handlers \subseteq Tasks /\ Worker \notin Handlers
  BY StoryJobsAssumption DEF Tasks
<1> DEFINE row == copy[Worker]
           marked == IF outcome[Worker] = "sent" THEN Sent(row, now)
                     ELSE PublishFailed(row, outcome[Worker], now)
           new == Flush(db[job[Worker]], row, marked)
<1>1. InDispatch(Worker)
  BY DEF WorkerMark, InDispatch, Dispatching
<1>2. /\ job[Worker] \in JobIds /\ row \in Row /\ db[job[Worker]] \in Row
      /\ row.locked_at # None
  BY <1>0, <1>1 DEF WorkerMark, LockInv, CopiesLocked, TypeInv, TaskTypes, InHand, InDispatch, TableTypes
<1>3. new.locked_at = None
  <2>1. marked \in Row /\ marked.locked_at = None
    <3>1. now \in Int /\ outcome[Worker] \in Outcomes
      BY <1>0 DEF TypeInv, TaskTypes, TableTypes
    <3> QED BY <1>2, <3>1, SentRow, PublishFailedRow DEF SameJob
  <2> HIDE DEF marked, row
  <2> QED BY <1>2, <2>1, FlushedRow DEF Dirty
<1>4. /\ UNCHANGED batch
      /\ db' = [db EXCEPT ![job[Worker]] = new]
      /\ copy' = [copy EXCEPT ![Worker] = None]
      /\ \E label \in {"idle", "batch"} : pc' = [pc EXCEPT ![Worker] = label]
  BY DEF WorkerMark, Release, Goto
<1> HIDE DEF new, row
<1>5. pc'[Worker] \in {"idle", "batch"} /\ \A h \in Handlers : UNCHANGED <<pc[h], copy[h]>>
  BY <1>0, <1>4 DEF TypeInv, TaskTypes
<1>6. CopiesLocked' /\ DeleteCopiesUnlocked'
  <2>1. \A j \in JobIds : batch[j] # None => batch[j].status = "processing" /\ batch[j].locked_at # None
    BY <1>1 DEF LockInv, CopiesLocked
  <2> QED BY <1>4, <1>5, <2>1, WorkerStepLocks DEF WorkerCopiesLocked, InDispatch, Dispatching
<1>7. PICK i \in JobIds : i = job[Worker]
  BY <1>2
<1>8. db'[i].locked_at = None /\ \A j \in JobIds : j # i => db'[j] = db[j]
  BY <1>3, <1>4, <1>7 DEF TypeInv, TableTypes
<1>9. EligibleUnlocked' /\ RepairListUnlocked'
  BY <1>5, <1>8 DEF LockInv, EligibleUnlocked, RepairListUnlocked
<1> QED BY <1>6, <1>9 DEF LockInv

LEMMA LockInvStep ==
  ASSUME TypeInv, ClaimInv, LockInv, [Next]_vars
  PROVE  LockInv'
<1>0. Worker \in Tasks /\ Handlers \subseteq Tasks
  BY DEF Tasks
<1>1. CASE Tick \/ UNCHANGED vars
  <2>1. UNCHANGED <<db, pc, copy, batch>>
    BY <1>1 DEF Tick, vars, taskVars
  <2> QED BY <2>1 DEF LockInv, CopiesLocked, EligibleUnlocked, RepairListUnlocked, DeleteCopiesUnlocked, InDispatch
<1>2. ASSUME NEW j \in JobIds, NEW c \in Commands, CreateJob(j, c) PROVE LockInv'
  <2>1. /\ UNCHANGED <<pc, copy, batch>>
        /\ db'[j].locked_at = None
        /\ \A i \in JobIds : i # j => db'[i] = db[i]
    BY <1>2 DEF CreateJob, taskVars, TypeInv, TableTypes
  <2>2. CopiesLocked' /\ DeleteCopiesUnlocked'
    BY <2>1 DEF LockInv, CopiesLocked, DeleteCopiesUnlocked, InDispatch
  <2>3. EligibleUnlocked' /\ RepairListUnlocked'
    BY <2>1 DEF LockInv, EligibleUnlocked, RepairListUnlocked
  <2> QED BY <2>2, <2>3 DEF LockInv
<1>3. CASE Crash
  <2>1. UNCHANGED db /\ \A a \in Tasks : pc'[a] = "idle"
    BY <1>3 DEF Crash
  <2> QED BY <1>0, <2>1 DEF LockInv, CopiesLocked, EligibleUnlocked, RepairListUnlocked, DeleteCopiesUnlocked,
                            InDispatch, Dispatching
<1>4. CASE WorkerFlushFails \/ CycleTimeout
  BY <1>4, EndCycleLocks DEF WorkerFlushFails, CycleTimeout
<1> QED
  BY <1>1, <1>2, <1>3, <1>4, HandlerLocks, DispatchLocks, RepairLocks, ClaimLocks, WorkerMarkLocks DEF Next

LEMMA IInvStep == IInv /\ [Next]_vars => IInv'
BY TypeInvStep, ClaimInvStep, LockInvStep DEF IInv, ClaimInv

-----------------------------------------------------------------------------
(* The theorems.                                                           *)

\* The inductive invariant: types, claims and locks hold together in every state
\* that create, delete, manual send, the worker and the repair lead to.
THEOREM Invariance == Spec => []IInv
<1>1. Init => IInv
  BY IInvInit
<1>2. IInv /\ [Next]_vars => IInv'
  BY IInvStep
<1> QED BY <1>1, <1>2, PTL DEF Spec

\* Every variable keeps its type: no marking, flush, repair or retry plan
\* leaves a row that the table could not hold.
THEOREM TypeCorrect == Spec => []TypeOK
<1>1. IInv => TypeOK
  BY TypeInvParts DEF IInv
<1> QED BY <1>1, Invariance, PTL

\* No row is dispatched by two tasks at once, for any number of handlers and
\* jobs, any batch size and any lock time-to-live (claim_due_jobs,
\* claim_for_dispatch).
THEOREM ExclusiveDispatch == Spec => []DispatchExclusive
<1>1. IInv => DispatchExclusive
  BY ExclusiveFromInv
<1> QED BY <1>1, Invariance, PTL

\* A row the worker has claimed stays PROCESSING, unless it is cancelled or
\* deleted, until the worker marks it, through deletes, manual sends, repairs
\* and crashes.
THEOREM ClaimsStand == Spec => []ClaimStands
<1>1. IInv => ClaimStands
  BY DEF IInv, ClaimInv
<1> QED BY <1>1, Invariance, PTL

\* No eligible row carries a lock, so neither claim ever waits for the
\* time-to-live of a lock left behind, or takes one over.
THEOREM NoStaleLock == Spec => []EligibleUnlocked
<1>1. IInv => EligibleUnlocked
  BY DEF IInv, LockInv
<1> QED BY <1>1, Invariance, PTL
=============================================================================
