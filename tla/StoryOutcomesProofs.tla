------------------------- MODULE StoryOutcomesProofs -------------------------
(***************************************************************************)
(* What becomes of a story, for any handlers, schedules, delays and        *)
(* bounds: a job shown as sent was published, a retry keeps to its day, a  *)
(* weekly job rolls forward, a cycle marks what it has claimed, and a      *)
(* second publication has a cause; and StoryJobs implements JobLifecycle.  *)
(* The invariants add to those of StoryJobsProofs how the copies of the    *)
(* sessions relate to the rows, and which generations Telegram has.        *)
(***************************************************************************)
EXTENDS StoryJobsProofs

-----------------------------------------------------------------------------
(* Whose step it is.                                                       *)

HandlerStep(h) ==
    \/ \E j \in JobIds : DeleteRead(h, j) \/ ManualRead(h, j)
    \/ DeleteCancel(h) \/ DeletePurge(h) \/ ManualClaim(h) \/ HandlerRefused(h) \/ ManualMark(h)

WorkerStep ==
    \/ RepairRead \/ RepairCommit \/ ClaimDueJobs
    \/ \E j \in JobIds : TakeJob(j)
    \/ WorkerMark \/ WorkerFlushFails \/ CycleTimeout

\* A task as other tasks' steps leave it
Stays(a) == UNCHANGED <<pc[a], job[a], copy[a], outcome[a]>>

LEMMA Tables ==
  /\ Handlers \subseteq Tasks
  /\ Worker \in Tasks
  /\ Worker \notin Handlers
  /\ None \notin Tasks
BY StoryJobsAssumption DEF Tasks

LEMMA ReleaseLeaves ==
  ASSUME TaskTypes, NEW b \in Tasks, NEW label, Release(b, label)
  PROVE  /\ pc'[b] = label
         /\ outcome'[b] = "none"
         /\ \A a \in Tasks : a # b => Stays(a)
BY DEF TaskTypes, Release, Goto, Stays

LEMMA HandlerLeaves ==
  ASSUME TaskTypes, NEW h \in Handlers, HandlerStep(h)
  PROVE  \A a \in Tasks : a # h => Stays(a)
<1>0. h \in Tasks
  BY Tables
<1>1. CASE \E j \in JobIds : DeleteRead(h, j) \/ ManualRead(h, j)
  BY <1>0, <1>1 DEF TaskTypes, DeleteRead, ManualRead, Load, Goto, Stays
<1>2. CASE DeleteCancel(h) \/ DeletePurge(h) \/ HandlerRefused(h) \/ ManualMark(h)
  <2>1. Release(h, "idle")
    BY <1>2 DEF DeleteCancel, DeletePurge, HandlerRefused, ManualMark
  <2> QED BY <1>0, <2>1, ReleaseLeaves
<1>3. CASE ManualClaim(h)
  BY <1>0, <1>3 DEF TaskTypes, ManualClaim, Goto, Stays
<1> QED BY <1>1, <1>2, <1>3 DEF HandlerStep

LEMMA DispatchLeaves ==
  ASSUME TaskTypes, NEW b \in Tasks, Dispatch(b)
  PROVE  /\ UNCHANGED <<db, created, batch, stamp, job, copy>>
         /\ InDispatch(b)
         /\ InDispatch(b)'
         /\ \A a \in Tasks : a # b => Stays(a)
         /\ pc[b] # "mark"
         /\ outcome'[b] = "sent" => outcome[b] = "sent" \/ (PublishOk(b) /\ pc'[b] = "mark")
<1>1. UNCHANGED <<db, created, batch, stamp, job, copy>> /\ InDispatch(b) /\ pc[b] # "mark"
  BY DEF Dispatch, EnsureRoleReady, EnsureMedia, AcquireRole, PublishOk, PublishUnheard, PublishFails,
         MediaInvalid, RebuildMedia, MediaFails, Ended, InDispatch, Dispatching, Publishing
<1>2. \/ /\ UNCHANGED outcome
         /\ \E label \in Dispatching : Goto(b, label)
      \/ \E o \in Outcomes \ {"sent"} : Ended(b, o)
      \/ PublishOk(b)
  BY DEF Dispatch, EnsureRoleReady, EnsureMedia, AcquireRole, PublishOk, PublishUnheard, PublishFails,
         MediaInvalid, RebuildMedia, MediaFails, Dispatching, Outcomes, Failures
<1>3. InDispatch(b)' /\ \A a \in Tasks : a # b => Stays(a)
  BY <1>1, <1>2 DEF PublishOk, Ended, Goto, TaskTypes, InDispatch, Dispatching, Stays
<1> QED BY <1>1, <1>2, <1>3 DEF PublishOk, Ended, Goto, TaskTypes

LEMMA WorkerLeaves ==
  ASSUME TaskTypes, WorkerStep
  PROVE  /\ \A h \in Handlers : Stays(h)
         /\ outcome'[Worker] = "sent" => outcome[Worker] = "sent" /\ UNCHANGED <<pc[Worker], job[Worker], copy[Worker]>>
<1>0. Worker \in Tasks /\ \A h \in Handlers : h \in Tasks /\ h # Worker
  BY Tables
<1>1. CASE RepairRead \/ RepairCommit \/ ClaimDueJobs
  <2>1. /\ UNCHANGED <<job, copy, outcome>>
        /\ pc[Worker] \in {"idle", "repair"}
        /\ \E label : Goto(Worker, label)
    BY <1>1 DEF RepairRead, RepairCommit, ClaimDueJobs
  <2> QED BY <1>0, <2>1 DEF TaskTypes, InHand, InDispatch, Dispatching, Goto, Stays
<1>2. ASSUME NEW j \in JobIds, TakeJob(j)
      PROVE  (\A h \in Handlers : Stays(h)) /\ outcome'[Worker] # "sent"
  BY <1>0, <1>2 DEF TaskTypes, InHand, InDispatch, Dispatching, TakeJob, Load, Goto, Stays
<1>3. CASE WorkerMark \/ WorkerFlushFails \/ CycleTimeout
  <2>1. \E label : Release(Worker, label)
    BY <1>3 DEF WorkerMark, WorkerFlushFails, CycleTimeout, EndCycle
  <2> QED BY <1>0, <2>1, ReleaseLeaves
<1> QED BY <1>1, <1>2, <1>3 DEF WorkerStep

\* Every step is one of a task, of nobody, or the end of all of them.
LEMMA StepOf ==
  ASSUME [Next]_vars
  PROVE  \/ Tick \/ UNCHANGED vars
         \/ \E j \in JobIds, c \in Commands : CreateJob(j, c)
         \/ \E h \in Handlers : HandlerStep(h)
         \/ \E a \in Tasks : Dispatch(a)
         \/ WorkerStep
         \/ Crash
BY DEF Next, HandlerStep, WorkerStep

-----------------------------------------------------------------------------
(* The copy of a manual send.                                              *)

\* A manual send works on the row of the table, as it claimed it, or on a copy
\* that was stale then.
ManualCopies ==
    \A h \in Handlers : InDispatch(h) =>
        \/ copy[h] = Claimed(db[job[h]], copy[h].locked_at)
        \/ {db[job[h]].gen, copy[h].gen} \subseteq overwritten

LEMMA HistoryGrows ==
  ASSUME [Next]_vars
  PROVE  overwritten \subseteq overwritten' /\ unheard \subseteq unheard' /\ posts \subseteq posts'
<1> DEFINE Grows == overwritten \subseteq overwritten' /\ unheard \subseteq unheard' /\ posts \subseteq posts'
<1>1. CASE Tick \/ UNCHANGED vars \/ (\E j \in JobIds, c \in Commands : CreateJob(j, c)) \/ Crash
  BY <1>1 DEF Tick, CreateJob, Crash, MaybePosted, Posted, vars, historyVars
<1>2. ASSUME NEW h \in Handlers, HandlerStep(h) PROVE Grows
  BY <1>2 DEF HandlerStep, DeleteRead, ManualRead, DeleteCancel, DeletePurge, ManualClaim, HandlerRefused,
              ManualMark, historyVars
<1>3. ASSUME NEW a \in Tasks, Dispatch(a) PROVE Grows
  BY <1>3 DEF Dispatch, EnsureRoleReady, EnsureMedia, AcquireRole, PublishOk, PublishUnheard, PublishFails,
              MediaInvalid, RebuildMedia, Posted, historyVars
<1>4. CASE WorkerStep
  BY <1>4 DEF WorkerStep, RepairRead, RepairCommit, ClaimDueJobs, TakeJob, WorkerMark, WorkerFlushFails,
              CycleTimeout, MaybePosted, Posted, historyVars
<1> QED BY <1>1, <1>2, <1>3, <1>4, StepOf

\* While a manual send has the write lock nobody else writes.
LEMMA OnlyItsMark ==
  ASSUME IInv, [Next]_vars, NEW h \in Handlers, InDispatch(h)
  PROVE  UNCHANGED db \/ ManualMark(h)
<1>0. writer = h /\ h # None /\ h # Worker
  BY Tables DEF IInv, ClaimInv, ManualHolds
<1>1. CASE Tick \/ UNCHANGED vars \/ Crash
  BY <1>1 DEF Tick, Crash, vars
<1>2. ~(\E j \in JobIds, c \in Commands : CreateJob(j, c))
  BY <1>0 DEF CreateJob
<1>3. ASSUME NEW g \in Handlers, HandlerStep(g) PROVE UNCHANGED db \/ ManualMark(h)
  <2>1. ManualMark(g) => g = h
    BY <1>0 DEF ManualMark, IInv, ClaimInv, ManualHolds, InDispatch, Dispatching
  <2> QED BY <1>0, <1>3, <2>1 DEF HandlerStep, DeleteRead, ManualRead, DeleteCancel, DeletePurge, ManualClaim,
                                 HandlerRefused
<1>4. ASSUME NEW a \in Tasks, Dispatch(a) PROVE UNCHANGED db
  BY <1>4, DispatchLeaves DEF IInv, TypeInv
<1>5. CASE WorkerStep
  <2>1. CASE RepairCommit
    <3>1. RepairWrites = {}
      BY <1>0, <2>1 DEF RepairCommit
    <3> QED BY <2>1, <3>1 DEF RepairCommit, IInv, TypeInv, TableTypes
  <2>2. ~ClaimDueJobs /\ ~WorkerMark
    BY <1>0 DEF ClaimDueJobs, WorkerMark, CanWrite
  <2> QED BY <1>5, <2>1, <2>2 DEF WorkerStep, RepairRead, TakeJob, WorkerFlushFails, CycleTimeout, EndCycle
<1> QED BY <1>1, <1>2, <1>3, <1>4, <1>5, StepOf

\* How a manual send comes to dispatch: it did, or it has just claimed.
LEMMA ManualOrigin ==
  ASSUME IInv, [Next]_vars, NEW h \in Handlers, InDispatch(h)'
  PROVE  \/ InDispatch(h) /\ UNCHANGED <<db, job[h], copy[h]>>
         \/ ManualClaim(h)
<1>0. h \in Tasks /\ h # Worker /\ TaskTypes
  BY Tables DEF IInv, TypeInv
<1>1. CASE Stays(h)
  <2>1. InDispatch(h)
    BY <1>1 DEF Stays, InDispatch
  <2>2. ~ManualMark(h)
    BY <1>0, <1>1 DEF ManualMark, Release, Goto, Stays, TaskTypes
  <2> QED BY <1>1, <2>1, <2>2, OnlyItsMark DEF Stays
<1>2. CASE HandlerStep(h)
  BY <1>0, <1>2 DEF HandlerStep, DeleteRead, ManualRead, DeleteCancel, DeletePurge, HandlerRefused, ManualMark,
                    Release, Load, Goto, TaskTypes, InDispatch, Dispatching
<1>3. CASE Dispatch(h)
  BY <1>0, <1>3, DispatchLeaves
<1>4. CASE Crash
  BY <1>0, <1>4 DEF Crash, InDispatch, Dispatching
<1>5. CASE Tick \/ UNCHANGED vars \/ (\E j \in JobIds, c \in Commands : CreateJob(j, c))
  BY <1>1, <1>5 DEF Tick, CreateJob, vars, taskVars, Stays
<1> QED BY <1>0, <1>1, <1>2, <1>3, <1>4, <1>5, StepOf, HandlerLeaves, DispatchLeaves, WorkerLeaves

LEMMA ManualCopiesInit == Init => ManualCopies
BY Tables DEF Init, ManualCopies, InDispatch, Dispatching

LEMMA ManualCopiesStep ==
  ASSUME IInv, ManualCopies, [Next]_vars
  PROVE  ManualCopies'
<1> SUFFICES ASSUME NEW h \in Handlers, InDispatch(h)'
             PROVE  \/ copy'[h] = Claimed(db'[job'[h]], copy'[h].locked_at)
                    \/ {db'[job'[h]].gen, copy'[h].gen} \subseteq overwritten'
  BY DEF ManualCopies
<1>1. CASE InDispatch(h) /\ UNCHANGED <<db, job[h], copy[h]>>
  BY <1>1, HistoryGrows DEF ManualCopies
<1>2. CASE ManualClaim(h)
  <2>1. /\ UNCHANGED <<db, job>>
        /\ copy' = [copy EXCEPT ![h] = Claimed(@, now)]
        /\ overwritten' = overwritten \cup Stale(db[job[h]], copy[h])
        /\ copy[h] \in Row
    BY <1>2, Tables DEF ManualClaim, IInv, TypeInv, TaskTypes, InHand
  <2>2. copy'[h] = Claimed(copy[h], now) /\ copy'[h].gen = copy[h].gen /\ copy'[h].locked_at = now
    BY <2>1, Tables, ClaimedRow DEF IInv, TypeInv, TaskTypes, TableTypes, SameJob
  <2> QED BY <2>1, <2>2 DEF Stale
<1> QED BY <1>1, <1>2, ManualOrigin

-----------------------------------------------------------------------------
(* What a step makes of a row, when no stale copy is involved.             *)

\* A copy of the row's job, of the same last publication
Alike(row, stored) ==
    /\ SameJob(stored, row)
    /\ row.last_sent_date = stored.last_sent_date

Creates(j) ==
    /\ db[j] = None
    /\ db'[j].gen = created + 1
    /\ db'[j].status = "pending"
    /\ db'[j].last_error = "none"
    /\ db'[j].last_sent_date = None
    /\ writer = None

Takes(j) ==
    /\ Alike(db'[j], db[j])
    /\ \/ db'[j].status = "cancelled"
       \/ db'[j].status = "processing" /\ Due(j) /\ db'[j] = Claimed(db[j], now)

MarksSent(j) ==
    \E a \in Tasks :
        /\ InDispatch(a)
        /\ outcome[a] = "sent"
        /\ Alike(copy[a], db[j])
        /\ db'[j] = Sent(copy[a], now)

MarksFailed(j) ==
    \E a \in Tasks :
        /\ InDispatch(a)
        /\ outcome[a] # "sent"
        /\ Alike(copy[a], db[j])
        /\ \/ \E error \in Errors : db'[j] = Failed(copy[a], error, now)
           \/ db'[j] = PublishFailed(copy[a], outcome[a], now)

Repairs(j) ==
    /\ pc[Worker] = "repair"
    /\ writer = None
    /\ db[j] = batch[j]
    /\ db[j].status = "failed"
    /\ db'[j] = Repaired(db[j], stamp)

RowStep(j) ==
    \/ db'[j] = db[j]
    \/ Creates(j)
    \/ /\ db[j] # None
       /\ Takes(j) \/ MarksSent(j) \/ MarksFailed(j) \/ Repairs(j)

\* A flush of a copy that is the row writes what was made of it.
LEMMA FlushOfCopy ==
  ASSUME NEW row \in Row, NEW new, SameJob(row, new)
  PROVE  Flush(row, row, new) = new
<1>1. \A x, y : Dirty(x, y, x) = y
  BY DEF Dirty
<1>2. Flush(row, row, new) =
        [row EXCEPT !.status = new.status, !.next_run_at = new.next_run_at,
                    !.retry_count = new.retry_count,
                    !.retry_window_started_at = new.retry_window_started_at,
                    !.last_error = new.last_error, !.last_sent_date = new.last_sent_date,
                    !.locked_at = new.locked_at]
  BY <1>1 DEF Flush
<1>3. row \in Row /\ new \in Row /\ new.gen = row.gen /\ new.command = row.command
  BY DEF SameJob
<1> QED BY <1>2, <1>3 DEF Row

LEMMA ClaimedAlike ==
  ASSUME NEW row \in Row, NEW t \in Int \cup {None}
  PROVE  Alike(Claimed(row, t), row)
BY ClaimedRow DEF Alike, Row, Claimed

LEMMA CancelledAlike ==
  ASSUME NEW row \in Row
  PROVE  Alike(Cancelled(row), row)
BY CancelledRow DEF Alike, Row, Cancelled

LEMMA HandlerRowStep ==
  ASSUME IInv, ManualCopies, NEW h \in Handlers, HandlerStep(h),
         NEW j \in JobIds, db'[j] # None, db'[j].gen \notin overwritten'
  PROVE  RowStep(j)
<1>0. /\ h \in Tasks /\ TaskTypes /\ db \in [JobIds -> Row \cup {None}] /\ now \in Int
      /\ outcome[h] \in Outcomes
  BY Tables DEF IInv, TypeInv, TaskTypes, TableTypes
<1>1. CASE DeleteCancel(h)
  <2>1. /\ job[h] \in JobIds /\ copy[h] \in Row /\ db[job[h]] \in Row /\ db[job[h]] # None
        /\ db' = [db EXCEPT ![job[h]] = Flush(@, copy[h], Cancelled(copy[h]))]
        /\ overwritten' = overwritten \cup Stale(db[job[h]], copy[h])
    BY <1>0, <1>1 DEF DeleteCancel, TaskTypes, InHand
  <2>2. CASE j = job[h]
    <3>1. db'[j].gen = db[j].gen
      BY <1>0, <2>1, <2>2, CancelledRow, FlushedRow DEF SameJob
    <3>2. db[j] = copy[h]
      BY <2>1, <2>2, <3>1 DEF Stale
    <3>3. db'[j] = Cancelled(db[j])
      BY <1>0, <2>1, <2>2, <3>2, CancelledRow, FlushOfCopy
    <3> QED BY <2>1, <2>2, <3>3, CancelledRow, CancelledAlike DEF RowStep, Takes
  <2>3. CASE j # job[h]
    BY <1>0, <2>1, <2>3 DEF RowStep
  <2> QED BY <2>2, <2>3
<1>2. CASE ManualMark(h)
  <2>1. InDispatch(h)
    BY <1>2 DEF ManualMark, InDispatch, Dispatching
  <2> DEFINE i == job[h]
             marked == IF outcome[h] = "sent" THEN Sent(copy[h], now)
                       ELSE Failed(copy[h], ErrorText(outcome[h]), now)
             before == Claimed(db[i], copy[h].locked_at)
  <2>2. /\ i \in JobIds /\ copy[h] \in Row /\ db[i] \in Row /\ db[i] # None
        /\ db' = [db EXCEPT ![i] = Flush(before, copy[h], marked)]
        /\ UNCHANGED overwritten
    BY <1>0, <1>2, <2>1 DEF ManualMark, historyVars, TaskTypes, InHand, InDispatch, IInv, ClaimInv, ManualHolds
  <2>3. CASE j = i
    <3>1. before \in Row /\ before.gen = db[i].gen /\ Alike(before, db[i])
      BY <2>2, ClaimedRow, ClaimedAlike, RowFields DEF SameJob
    <3>2. SameJob(copy[h], marked) /\ ErrorText(outcome[h]) \in Errors
      <4>1. ErrorText(outcome[h]) \in Errors
        BY DEF ErrorText, Errors
      <4> QED BY <1>0, <2>2, <4>1, SentRow, FailedRow
    <3> HIDE DEF before, marked
    <3>3. db'[j].gen = db[j].gen
      BY <1>0, <2>2, <2>3, <3>1, <3>2, FlushedRow DEF SameJob
    <3>4. copy[h] = before
      BY <2>1, <2>2, <2>3, <3>3 DEF ManualCopies, before
    <3>5. db'[j] = marked
      BY <1>0, <2>2, <2>3, <3>2, <3>4, FlushOfCopy
    <3>6. Alike(copy[h], db[j])
      BY <2>3, <3>1, <3>4
    <3> QED BY <1>0, <2>1, <2>2, <2>3, <3>2, <3>5, <3>6 DEF RowStep, MarksSent, MarksFailed, marked
  <2>4. CASE j # i
    BY <1>0, <2>2, <2>4 DEF RowStep
  <2> QED BY <2>3, <2>4
<1>3. CASE DeletePurge(h)
  <2>1. job[h] \in JobIds /\ db' = [db EXCEPT ![job[h]] = None]
    BY <1>0, <1>3 DEF DeletePurge, TaskTypes, InHand
  <2> QED BY <1>0, <2>1 DEF RowStep
<1>4. CASE \/ \E i \in JobIds : DeleteRead(h, i) \/ ManualRead(h, i)
           \/ ManualClaim(h) \/ HandlerRefused(h)
  BY <1>4 DEF RowStep, DeleteRead, ManualRead, ManualClaim, HandlerRefused
<1> QED BY <1>1, <1>2, <1>3, <1>4 DEF HandlerStep

LEMMA RepairRowStep ==
  ASSUME IInv, RepairCommit, NEW j \in JobIds, db'[j] # None, db'[j].gen \notin overwritten'
  PROVE  RowStep(j)
<1>1. /\ db' = [i \in JobIds |-> IF i \in RepairWrites
                               THEN Flush(db[i], batch[i], Repaired(batch[i], stamp))
                               ELSE db[i]]
      /\ overwritten' = overwritten \cup UNION {Stale(db[i], batch[i]) : i \in RepairWrites}
      /\ pc[Worker] = "repair"
  BY DEF RepairCommit
<1>2. CASE j \notin RepairWrites
  BY <1>1, <1>2 DEF RowStep
<1>3. CASE j \in RepairWrites
  <2>1. /\ db[j] \in Row /\ db[j] # None /\ batch[j] \in Row /\ batch[j].status = "failed"
        /\ writer = None /\ stamp \in Int
    BY <1>3 DEF RepairCommit, RepairWrites, IInv, TypeInv, TableTypes, LockInv, RepairListUnlocked
  <2>2. SameJob(batch[j], Repaired(batch[j], stamp))
    BY <2>1, RepairedRow
  <2>3. db'[j] = Flush(db[j], batch[j], Repaired(batch[j], stamp))
    BY <1>1, <1>3
  <2>4. db'[j].gen = db[j].gen
    BY <2>1, <2>2, <2>3, FlushedRow DEF SameJob
  <2>5. Stale(db[j], batch[j]) \subseteq overwritten'
    BY <1>1, <1>3
  <2>6. db[j] = batch[j]
    BY <2>4, <2>5 DEF Stale
  <2>7. db'[j] = Repaired(db[j], stamp)
    BY <2>1, <2>2, <2>3, <2>6, FlushOfCopy
  <2> QED BY <1>1, <2>1, <2>6, <2>7 DEF RowStep, Repairs
<1> QED BY <1>2, <1>3

LEMMA WorkerMarkRowStep ==
  ASSUME IInv, WorkerMark, NEW j \in JobIds, db'[j] # None, db'[j].gen \notin overwritten'
  PROVE  RowStep(j)
<1> DEFINE i == job[Worker]
           row == copy[Worker]
           marked == IF outcome[Worker] = "sent" THEN Sent(row, now)
                     ELSE PublishFailed(row, outcome[Worker], now)
<1>1. InDispatch(Worker)
  BY DEF WorkerMark, InDispatch, Dispatching
<1>2. /\ i \in JobIds /\ row \in Row /\ db[i] \in Row /\ db[i] # None
      /\ db' = [db EXCEPT ![i] = Flush(@, row, marked)]
      /\ overwritten' = overwritten \cup Stale(db[i], row)
      /\ now \in Int /\ outcome[Worker] \in Outcomes /\ db \in [JobIds -> Row \cup {None}]
  BY <1>1, Tables DEF WorkerMark, IInv, TypeInv, TaskTypes, TableTypes, InHand, InDispatch
<1>3. SameJob(row, marked)
  BY <1>2, SentRow, PublishFailedRow
<1> HIDE DEF marked
<1>4. CASE j = i
  <2>1. db'[j].gen = db[j].gen
    <3>1. db'[j] = Flush(db[j], row, marked)
      BY <1>2, <1>4
    <3> QED BY <1>2, <1>3, <1>4, <3>1, FlushedRow DEF SameJob
  <2>2. db[j] = row
    BY <1>2, <1>4, <2>1 DEF Stale
  <2>3. db'[j] = marked
    BY <1>2, <1>3, <1>4, <2>2, FlushOfCopy
  <2>4. Alike(row, db[j])
    BY <1>2, <2>2 DEF Alike, SameJob
  <2> QED BY <1>1, <1>2, <1>4, <2>3, <2>4, Tables DEF RowStep, MarksSent, MarksFailed, marked
<1>5. CASE j # i
  BY <1>2, <1>5 DEF RowStep
<1> QED BY <1>4, <1>5

LEMMA RowSteps ==
  ASSUME IInv, ManualCopies, [Next]_vars, NEW j \in JobIds, db'[j] # None, db'[j].gen \notin overwritten'
  PROVE  RowStep(j)
<1>1. CASE Tick \/ UNCHANGED vars \/ Crash
  BY <1>1 DEF Tick, Crash, vars, RowStep
<1>2. ASSUME NEW i \in JobIds, NEW c \in Commands, CreateJob(i, c) PROVE RowStep(j)
  <2>1. CASE i = j
    BY <1>2, <2>1 DEF CreateJob, IInv, TypeInv, TableTypes, RowStep, Creates, JobIds
  <2>2. CASE i # j
    BY <1>2, <2>2 DEF CreateJob, IInv, TypeInv, TableTypes, RowStep
  <2> QED BY <2>1, <2>2
<1>3. ASSUME NEW a \in Tasks, Dispatch(a) PROVE RowStep(j)
  BY <1>3, DispatchLeaves DEF IInv, TypeInv, RowStep
<1>4. CASE ClaimDueJobs
  <2>1. CASE j \in DueBatch
    <3>1. db[j] \in Row /\ db[j] # None /\ Due(j) /\ db'[j] = Claimed(db[j], now)
      BY <1>4, <2>1 DEF ClaimDueJobs, DueBatch, Due, IInv, TypeInv, TableTypes
    <3>2. Alike(Claimed(db[j], now), db[j]) /\ Claimed(db[j], now).status = "processing"
      BY <3>1, ClaimedRow, ClaimedAlike DEF IInv, TypeInv, TableTypes
    <3> QED BY <3>1, <3>2 DEF RowStep, Takes
  <2>2. CASE j \notin DueBatch
    BY <1>4, <2>2 DEF ClaimDueJobs, RowStep
  <2> QED BY <2>1, <2>2
<1>5. CASE RepairRead \/ (\E i \in JobIds : TakeJob(i)) \/ WorkerFlushFails \/ CycleTimeout
  BY <1>5 DEF RepairRead, TakeJob, WorkerFlushFails, CycleTimeout, EndCycle, RowStep
<1> QED
  BY <1>1, <1>2, <1>3, <1>4, <1>5, StepOf, HandlerRowStep, RepairRowStep, WorkerMarkRowStep DEF WorkerStep

-----------------------------------------------------------------------------
(* What the marks say.                                                     *)

LEMMA SentFields ==
  ASSUME NEW row \in Row, NEW t \in Int
  PROVE  /\ Sent(row, t).status = IF row.command.schedule_type = "once" THEN "sent" ELSE "pending"
         /\ Sent(row, t).last_error = "none"
         /\ Sent(row, t).last_sent_date = local_schedule_date(t)
         /\ row.command.schedule_type # "once" =>
              Sent(row, t).next_run_at = compute_next_run_at(row.command, t + 1, local_schedule_date(t))
BY DEF Row, Sent, Cleared

LEMMA FailedFields ==
  ASSUME NEW row \in Row, NEW error \in Errors, NEW t \in Int
  PROVE  /\ Failed(row, error, t).status = "failed"
         /\ Failed(row, error, t).last_sent_date = row.last_sent_date
         /\ row.command.schedule_type # "once" =>
              Failed(row, error, t).next_run_at = compute_next_run_at(row.command, t + 1, row.last_sent_date)
BY DEF Row, Failed, Cleared

\* A failure of the worker is final or leads to a retry.
LEMMA PublishFailedForms ==
  ASSUME NEW row \in Row, NEW o \in Outcomes, NEW t \in Int
  PROVE  LET plan == plan_transient_retry(row, t, RetryAfter(o))
             new  == PublishFailed(row, o, t)
         IN  \/ \E error \in Errors : new = Failed(row, error, t)
             \/ /\ plan.should_retry
                /\ new.status = "pending"
                /\ new.next_run_at = plan.next_run_at
                /\ new.retry_count > 0
                /\ new.last_sent_date = row.last_sent_date
<1> DEFINE plan == plan_transient_retry(row, t, RetryAfter(o))
<1>1. ErrorText(o) \in Errors /\ "terminal" \in Errors
  BY DEF ErrorText, Errors
<1>4. plan.retry_count > 0
  BY RowFields DEF plan_transient_retry
<1> HIDE DEF plan
<1>2. /\ Retried(row, plan).status = "pending"
      /\ Retried(row, plan).next_run_at = plan.next_run_at
      /\ Retried(row, plan).retry_count = plan.retry_count
      /\ Retried(row, plan).last_sent_date = row.last_sent_date
  BY DEF Row, Retried
<1>3. \/ \E error \in Errors : PublishFailed(row, o, t) = Failed(row, error, t)
      \/ plan.should_retry /\ PublishFailed(row, o, t) = Retried(row, plan)
  BY <1>1 DEF PublishFailed, plan
<1> QED BY <1>2, <1>3, <1>4 DEF plan

\* The repair requeues a row with a text of its own, or fails it again.
LEMMA RepairedForms ==
  ASSUME NEW row \in Row, NEW t \in Int
  PROVE  LET new == Repaired(row, t)
         IN  \/ new = Failed(row, "terminal", t)
             \/ new.status = "pending" /\ new.last_error = "recovered" /\ new.last_sent_date = row.last_sent_date
<1> DEFINE plan == plan_transient_retry(row, t, PublishRetryBaseDelay)
           requeued == [Cleared(row) EXCEPT !.status = "pending", !.last_error = "recovered",
                                            !.next_run_at = plan.next_run_at]
<1>1. Repaired(row, t) \in {requeued, Failed(row, "terminal", t)}
  BY DEF Repaired
<1> HIDE DEF plan
<1>2. requeued.status = "pending" /\ requeued.last_error = "recovered" /\ requeued.last_sent_date = row.last_sent_date
  BY DEF Row, Cleared
<1> HIDE DEF requeued
<1> QED BY <1>1, <1>2

-----------------------------------------------------------------------------
(* A job shown as sent was published.                                      *)

\* Telegram has a story of this generation.
Out(gen) == \E p \in posts : p[1] = gen

\* A task that is about to mark a success has published.
SentIsOut == \A a \in Tasks : outcome[a] = "sent" => pc[a] = "mark" /\ Out(copy[a].gen)

LEMMA SentOrigin ==
  ASSUME IInv, SentIsOut, [Next]_vars, NEW a \in Tasks, outcome'[a] = "sent"
  PROVE  \/ outcome[a] = "sent" /\ UNCHANGED <<pc[a], job[a], copy[a]>>
         \/ PublishOk(a) /\ pc'[a] = "mark"
<1>0. TaskTypes
  BY DEF IInv, TypeInv
<1>1. CASE Stays(a)
  BY <1>1 DEF Stays
<1>2. CASE a \in Handlers /\ HandlerStep(a)
  <2>1. CASE ManualMark(a) \/ DeleteCancel(a) \/ DeletePurge(a) \/ HandlerRefused(a)
    <3>1. Release(a, "idle")
      BY <2>1 DEF ManualMark, DeleteCancel, DeletePurge, HandlerRefused
    <3> QED BY <1>0, <3>1, ReleaseLeaves
  <2>2. CASE (\E j \in JobIds : DeleteRead(a, j) \/ ManualRead(a, j)) \/ ManualClaim(a)
    BY <2>2 DEF DeleteRead, ManualRead, Load, ManualClaim, SentIsOut
  <2> QED BY <1>2, <2>1, <2>2 DEF HandlerStep
<1>3. CASE Dispatch(a)
  BY <1>0, <1>3, DispatchLeaves DEF SentIsOut
<1>4. CASE a = Worker /\ WorkerStep
  BY <1>0, <1>4, WorkerLeaves
<1>5. CASE Crash
  BY <1>5 DEF Crash
<1>6. CASE Tick \/ UNCHANGED vars \/ (\E j \in JobIds, c \in Commands : CreateJob(j, c))
  BY <1>1, <1>6 DEF Tick, CreateJob, vars, taskVars, Stays
<1>7. a \in Handlers \/ a = Worker
  BY DEF Tasks
<1> QED BY <1>0, <1>1, <1>2, <1>3, <1>4, <1>5, <1>6, <1>7, StepOf, HandlerLeaves, DispatchLeaves, WorkerLeaves

LEMMA SentIsOutStep ==
  ASSUME IInv, SentIsOut, [Next]_vars
  PROVE  SentIsOut'
<1> SUFFICES ASSUME NEW a \in Tasks, outcome'[a] = "sent"
             PROVE  pc'[a] = "mark" /\ \E p \in posts' : p[1] = copy'[a].gen
  BY DEF SentIsOut, Out
<1>1. CASE outcome[a] = "sent" /\ UNCHANGED <<pc[a], job[a], copy[a]>>
  BY <1>1, HistoryGrows DEF SentIsOut, Out
<1>2. CASE PublishOk(a) /\ pc'[a] = "mark"
  <2>1. <<copy[a].gen, local_schedule_date(now)>> \in posts' /\ UNCHANGED copy
    BY <1>2 DEF PublishOk, Posted, Ended
  <2> QED BY <1>2, <2>1
<1> QED BY <1>1, <1>2, SentOrigin

LEMMA SentWasPublishedStep ==
  ASSUME IInv, ManualCopies, SentIsOut, SentWasPublished, [Next]_vars
  PROVE  SentWasPublished'
<1> SUFFICES ASSUME NEW j \in JobIds, db'[j] # None, db'[j].status = "sent", db'[j].gen \notin overwritten'
             PROVE  \E p \in posts' : p[1] = db'[j].gen
  BY DEF SentWasPublished
<1>0. /\ \A a \in Tasks : InDispatch(a) => copy[a] \in Row
      /\ outcome \in [Tasks -> Outcomes] /\ now \in Int /\ stamp \in Int
      /\ db \in [JobIds -> Row \cup {None}]
  BY DEF IInv, TypeInv, TaskTypes, TableTypes, InHand, InDispatch
<1>1. CASE db'[j] = db[j]
  BY <1>1, HistoryGrows DEF SentWasPublished
<1>2. CASE MarksSent(j)
  <2>1. PICK a \in Tasks : /\ InDispatch(a) /\ outcome[a] = "sent" /\ Alike(copy[a], db[j])
                           /\ db'[j] = Sent(copy[a], now)
    BY <1>2 DEF MarksSent
  <2>2. db'[j].gen = copy[a].gen
    BY <1>0, <2>1, SentRow DEF SameJob
  <2> QED BY <2>1, <2>2, HistoryGrows DEF SentIsOut, Out
<1>3. ~Creates(j) /\ ~Takes(j)
  BY DEF Creates, Takes
<1>4. ~MarksFailed(j)
  BY <1>0, FailedRow, PublishFailedRow DEF MarksFailed
<1>5. db[j] # None => ~Repairs(j)
  BY <1>0, RepairedRow DEF Repairs
<1> QED BY <1>1, <1>2, <1>3, <1>4, <1>5, RowSteps DEF RowStep

-----------------------------------------------------------------------------
(* Retries keep to the day.                                                *)

LEMMA RetryPlanDay ==
  ASSUME NEW row \in Row, row.command.schedule_type = "once", NEW t \in Int, NEW retryAfter \in Nat \cup {None},
         plan_transient_retry(row, t, retryAfter).should_retry
  PROVE  local_schedule_date(plan_transient_retry(row, t, retryAfter).next_run_at) <= row.command.scheduled_date
<1>1. row.command.scheduled_date \in Int /\ row.command.scheduled_date # None
  BY RowFields, StoryJobsAssumption, NoneAssumption DEF OnceCommand, WeeklyCommand
<1>2. t + RetryDelay(row.retry_count, retryAfter) \in Int
  BY RowFields, RetryDelayBounds
<1>3. local_schedule_date(t + RetryDelay(row.retry_count, retryAfter)) \in Int
  BY <1>2, ClockTypes
<1> DEFINE next == t + RetryDelay(row.retry_count, retryAfter)
           day == row.command.scheduled_date
           refused == day # None /\ (local_schedule_date(t) > day \/ local_schedule_date(next) > day)
<1>4. automatic_delivery_local_date(row) = day
  BY DEF automatic_delivery_local_date
<1>5. \E count, window :
        plan_transient_retry(row, t, retryAfter) =
          [should_retry |-> ~refused, retry_count |-> count, window_started_at |-> window,
           next_run_at |-> IF refused THEN None ELSE next]
  <2> HIDE DEF day
  <2> QED BY <1>4, Zenon DEF plan_transient_retry
<1>6. ~refused => local_schedule_date(next) <= day
  BY <1>1, <1>3
<1>7. refused \in BOOLEAN
  OBVIOUS
<1> HIDE DEF refused, next
<1>8. ~refused
  <2> SUFFICES ASSUME refused PROVE FALSE
    OBVIOUS
  <2>1. (~refused) = FALSE
    BY <1>7
  <2>2. \E count, window, next_run_at :
          plan_transient_retry(row, t, retryAfter) =
            [should_retry |-> FALSE, retry_count |-> count, window_started_at |-> window,
             next_run_at |-> next_run_at]
    BY <1>5, <2>1, Zenon
  <2>3. plan_transient_retry(row, t, retryAfter).should_retry = FALSE
    BY <2>2
  <2> QED BY <2>3
<1>9. plan_transient_retry(row, t, retryAfter).next_run_at = next
  BY <1>5, <1>8
<1> QED BY <1>6, <1>8, <1>9

LEMMA RetryWithinDayStep ==
  ASSUME IInv, ManualCopies, RetryWithinDay, [Next]_vars
  PROVE  RetryWithinDay'
<1> SUFFICES ASSUME NEW j \in JobIds, db'[j] # None, db'[j].command.schedule_type = "once",
                    db'[j].status = "pending", db'[j].last_error = "transient", db'[j].gen \notin overwritten'
             PROVE  local_schedule_date(db'[j].next_run_at) <= db'[j].command.scheduled_date
  BY DEF RetryWithinDay
<1>0. /\ \A a \in Tasks : InDispatch(a) => copy[a] \in Row
      /\ outcome \in [Tasks -> Outcomes] /\ now \in Int /\ stamp \in Int
      /\ db \in [JobIds -> Row \cup {None}]
  BY DEF IInv, TypeInv, TaskTypes, TableTypes, InHand, InDispatch
<1>1. CASE db'[j] = db[j]
  BY <1>1, HistoryGrows DEF RetryWithinDay
<1>2. CASE MarksFailed(j)
  <2>1. PICK a \in Tasks :
          /\ InDispatch(a)
          /\ \/ \E error \in Errors : db'[j] = Failed(copy[a], error, now)
             \/ db'[j] = PublishFailed(copy[a], outcome[a], now)
    BY <1>2 DEF MarksFailed
  <2> DEFINE plan == plan_transient_retry(copy[a], now, RetryAfter(outcome[a]))
  <2>2. copy[a] \in Row /\ outcome[a] \in Outcomes
    BY <1>0, <2>1
  <2>3. db'[j] = PublishFailed(copy[a], outcome[a], now)
    BY <1>0, <2>1, <2>2, FailedRow
  <2>4. plan.should_retry /\ db'[j].next_run_at = plan.next_run_at
    <3> HIDE DEF plan
    <3>1. \A error \in Errors : db'[j] # Failed(copy[a], error, now)
      BY <1>0, <2>2, FailedRow
    <3> QED BY <1>0, <2>2, <2>3, <3>1, PublishFailedForms DEF plan
  <2>5. db'[j].command = copy[a].command
    BY <1>0, <2>2, <2>3, PublishFailedRow DEF SameJob
  <2>6. RetryAfter(outcome[a]) \in Nat \cup {None}
    BY StoryJobsAssumption DEF RetryAfter
  <2> QED BY <1>0, <2>2, <2>4, <2>5, <2>6, RetryPlanDay
<1>3. ~MarksSent(j)
  <2> SUFFICES ASSUME NEW a \in Tasks, InDispatch(a), db'[j] = Sent(copy[a], now) PROVE FALSE
    BY DEF MarksSent
  <2> QED BY <1>0, SentFields
<1>4. ~Creates(j) /\ ~Takes(j)
  BY DEF Creates, Takes
<1>5. db[j] # None => ~Repairs(j)
  BY <1>0, RepairedForms, FailedRow DEF Repairs, Errors
<1> QED BY <1>1, <1>2, <1>3, <1>4, <1>5, RowSteps DEF RowStep

-----------------------------------------------------------------------------
(* Weekly jobs roll forward, where no clock change crosses midnight.        *)

\* The day of the last publication, when there was one, is not after t.
SentBy(row, t) == row.last_sent_date # None => row.last_sent_date <= local_schedule_date(t)

\* No job was last published in the future, neither now nor when the repair read it.
LastSentPast ==
    /\ \A j \in JobIds : db[j] # None /\ db[j].gen \notin overwritten => SentBy(db[j], now)
    /\ pc[Worker] = "repair" =>
         \A j \in JobIds : batch[j] # None /\ batch[j].gen \notin overwritten => SentBy(batch[j], stamp)

LEMMA LaterSentBy ==
  ASSUME OrdinaryZone, NEW row \in Row, NEW t \in Int, NEW u \in Int, t <= u, SentBy(row, t)
  PROVE  SentBy(row, u)
<1>1. local_schedule_date(t) <= local_schedule_date(u) /\ local_schedule_date(t) \in Int /\ local_schedule_date(u) \in Int
  BY DatesGrow, ClockTypes
<1>2. row.last_sent_date \in Int \cup {None}
  BY RowFields
<1> QED BY <1>1, <1>2 DEF SentBy

LEMMA TimeGrows ==
  ASSUME IInv, [Next]_vars
  PROVE  now \in Int /\ now' \in Int /\ now <= now'
<1>1. now \in Int
  BY DEF IInv, TypeInv, TableTypes
<1>2. CASE Tick
  BY <1>1, <1>2 DEF Tick
<1>3. CASE UNCHANGED vars \/ (\E j \in JobIds, c \in Commands : CreateJob(j, c)) \/ Crash
  BY <1>1, <1>3 DEF CreateJob, Crash, vars
<1>4. ASSUME NEW h \in Handlers, HandlerStep(h) PROVE UNCHANGED now
  BY <1>4 DEF HandlerStep, DeleteRead, ManualRead, DeleteCancel, DeletePurge, ManualClaim, HandlerRefused,
              ManualMark
<1>5. ASSUME NEW a \in Tasks, Dispatch(a) PROVE UNCHANGED now
  BY <1>5 DEF Dispatch, EnsureRoleReady, EnsureMedia, AcquireRole, PublishOk, PublishUnheard, PublishFails,
              MediaInvalid, RebuildMedia
<1>6. CASE WorkerStep
  BY <1>1, <1>6 DEF WorkerStep, RepairRead, RepairCommit, ClaimDueJobs, TakeJob, WorkerMark, WorkerFlushFails,
                    CycleTimeout, EndCycle
<1> QED BY <1>1, <1>2, <1>3, <1>4, <1>5, <1>6, StepOf

\* What the repair has in its batch it read, at the time of its stamp.
LEMMA RepairOrigin ==
  ASSUME IInv, [Next]_vars, pc'[Worker] = "repair"
  PROVE  \/ pc[Worker] = "repair" /\ UNCHANGED <<batch, stamp>>
         \/ RepairRead
<1>0. Worker \in Tasks /\ TaskTypes /\ \A h \in Handlers : h # Worker
  BY Tables DEF IInv, TypeInv
<1>1. CASE Tick \/ UNCHANGED vars \/ (\E j \in JobIds, c \in Commands : CreateJob(j, c))
  BY <1>1 DEF Tick, CreateJob, vars, taskVars
<1>2. ASSUME NEW h \in Handlers, HandlerStep(h) PROVE pc[Worker] = "repair" /\ UNCHANGED <<batch, stamp>>
  <2>1. pc'[Worker] = pc[Worker]
    BY <1>0, <1>2, HandlerLeaves DEF Stays
  <2> QED BY <1>2, <2>1 DEF HandlerStep, DeleteRead, ManualRead, DeleteCancel, DeletePurge, ManualClaim,
                            HandlerRefused, ManualMark
<1>3. ASSUME NEW a \in Tasks, Dispatch(a) PROVE pc[Worker] = "repair" /\ UNCHANGED <<batch, stamp>>
  BY <1>0, <1>3, DispatchLeaves DEF Stays, InDispatch, Dispatching
<1>4. CASE WorkerStep
  <2>1. CASE RepairCommit \/ ClaimDueJobs \/ (\E j \in JobIds : TakeJob(j))
    BY <1>0, <2>1 DEF RepairCommit, ClaimDueJobs, TakeJob, Load, Goto, TaskTypes
  <2>2. CASE WorkerMark \/ WorkerFlushFails \/ CycleTimeout
    <3>1. Release(Worker, "idle") \/ Release(Worker, "batch")
      BY <2>2 DEF WorkerMark, WorkerFlushFails, CycleTimeout, EndCycle
    <3> QED BY <1>0, <3>1, ReleaseLeaves
  <2> QED BY <1>4, <2>1, <2>2 DEF WorkerStep
<1>5. CASE Crash
  BY <1>0, <1>5 DEF Crash
<1> QED BY <1>1, <1>2, <1>3, <1>4, <1>5, StepOf

\* A row that was there keeps its job; the day of its last publication stays, or
\* is today.
LEMMA LastSentMoves ==
  ASSUME IInv, NEW j \in JobIds, RowStep(j), ~Creates(j), db'[j] # None
  PROVE  /\ db[j] # None
         /\ db'[j].gen = db[j].gen
         /\ db'[j].last_sent_date \in {db[j].last_sent_date, local_schedule_date(now)}
<1>0. /\ \A a \in Tasks : InDispatch(a) => copy[a] \in Row
      /\ outcome \in [Tasks -> Outcomes] /\ stamp \in Int /\ now \in Int
      /\ db \in [JobIds -> Row \cup {None}]
  BY DEF IInv, TypeInv, TaskTypes, TableTypes, InHand, InDispatch
<1> DEFINE Moves == /\ db'[j].gen = db[j].gen
                    /\ db'[j].last_sent_date \in {db[j].last_sent_date, local_schedule_date(now)}
<1>1. CASE db'[j] = db[j]
  BY <1>1
<1>2. ASSUME db[j] # None, Takes(j) PROVE Moves
  BY <1>2 DEF Takes, Alike, SameJob
<1>3. ASSUME db[j] # None, MarksSent(j) PROVE Moves
  <2>1. PICK a \in Tasks : copy[a] \in Row /\ Alike(copy[a], db[j]) /\ db'[j] = Sent(copy[a], now)
    BY <1>0, <1>3 DEF MarksSent
  <2> QED BY <1>0, <2>1, SentFields, SentRow DEF Alike, SameJob
<1>4. ASSUME db[j] # None, MarksFailed(j) PROVE Moves
  <2>1. PICK a \in Tasks :
          /\ copy[a] \in Row /\ Alike(copy[a], db[j]) /\ outcome[a] \in Outcomes
          /\ \/ \E error \in Errors : db'[j] = Failed(copy[a], error, now)
             \/ db'[j] = PublishFailed(copy[a], outcome[a], now)
    BY <1>0, <1>4 DEF MarksFailed
  <2>2. \A error \in Errors :
          /\ Failed(copy[a], error, now).last_sent_date = copy[a].last_sent_date
          /\ Failed(copy[a], error, now).gen = copy[a].gen
    BY <1>0, <2>1, FailedFields, FailedRow DEF SameJob
  <2>3. /\ PublishFailed(copy[a], outcome[a], now).last_sent_date = copy[a].last_sent_date
        /\ PublishFailed(copy[a], outcome[a], now).gen = copy[a].gen
    BY <1>0, <2>1, <2>2, PublishFailedForms, PublishFailedRow DEF SameJob
  <2> QED BY <2>1, <2>2, <2>3 DEF Alike, SameJob
<1>5. ASSUME db[j] # None, Repairs(j) PROVE Moves
  BY <1>0, <1>5, FailedFields, RepairedForms, RepairedRow DEF Repairs, SameJob, Errors
<1> QED BY <1>1, <1>2, <1>3, <1>4, <1>5 DEF RowStep

LEMMA LastSentPastStep ==
  ASSUME OrdinaryZone, IInv, ManualCopies, LastSentPast, [Next]_vars
  PROVE  LastSentPast'
<1>0. /\ \A a \in Tasks : InDispatch(a) => copy[a] \in Row
      /\ outcome \in [Tasks -> Outcomes] /\ stamp \in Int
      /\ db \in [JobIds -> Row \cup {None}] /\ batch \in [JobIds -> Row \cup {None}]
  BY DEF IInv, TypeInv, TaskTypes, TableTypes, InHand, InDispatch
<1>1. now \in Int /\ now' \in Int /\ now <= now'
  BY TimeGrows
<1>2. ASSUME NEW j \in JobIds, db'[j] # None, db'[j].gen \notin overwritten'
      PROVE  SentBy(db'[j], now')
  <2> DEFINE last == db'[j].last_sent_date
             today == local_schedule_date(now)
  <2>0. today <= local_schedule_date(now') /\ today \in Int /\ local_schedule_date(now') \in Int
    BY <1>1, DatesGrow, ClockTypes
  <2>1. SUFFICES ASSUME last # None
                 PROVE  last \in Int /\ last <= today
    BY <2>0 DEF SentBy
  <2>2. ~Creates(j) /\ RowStep(j)
    BY <1>2, <2>1, RowSteps DEF Creates
  <2>3. db[j] # None /\ db'[j].gen = db[j].gen /\ last \in {db[j].last_sent_date, today}
    BY <1>2, <2>2, LastSentMoves
  <2>4. SentBy(db[j], now) /\ db[j].last_sent_date \in Int \cup {None}
    BY <1>0, <1>2, <2>3, HistoryGrows, RowFields DEF LastSentPast
  <2> QED BY <2>0, <2>1, <2>3, <2>4 DEF SentBy
<1>3. ASSUME pc'[Worker] = "repair", NEW j \in JobIds, batch'[j] # None, batch'[j].gen \notin overwritten'
      PROVE  SentBy(batch'[j], stamp')
  <2>1. CASE pc[Worker] = "repair" /\ UNCHANGED <<batch, stamp>>
    BY <1>3, <2>1, HistoryGrows DEF LastSentPast, SentBy
  <2>2. CASE RepairRead
    <3>1. batch'[j] = db[j] /\ stamp' = now
      BY <1>3, <2>2 DEF RepairRead
    <3> QED BY <1>3, <3>1, HistoryGrows DEF LastSentPast, SentBy
  <2> QED BY <1>3, <2>1, <2>2, RepairOrigin
<1> QED BY <1>2, <1>3 DEF LastSentPast, SentBy

\* What is computed just after t for a weekly job last published by then is on a
\* later day than that publication.
LEMMA NextRolls ==
  ASSUME OrdinaryZone, NEW c \in Commands, c.schedule_type = "weekly", NEW t \in Int,
         NEW last \in Int \cup {None}, last # None => last <= local_schedule_date(t)
  PROVE  LET next == compute_next_run_at(c, t + 1, last)
         IN  /\ next \in Int
             /\ Weekday(local_schedule_date(next)) \in c.weekdays
             /\ local_schedule_date(next) # last
             /\ last # None => local_schedule_date(next) > last
<1> DEFINE time == c.scheduled_time
           weekdays == c.weekdays
           next == NextWeekly(time, weekdays, t + 1, last)
<1>1. WeeklyCommand(c)
  BY StoryJobsAssumption DEF OnceCommand
<1>2. time \in 0 .. SecondsPerDay - 1 /\ weekdays \in SUBSET (0 .. DaysPerWeek - 1) /\ weekdays # {}
  BY <1>1 DEF WeeklyCommand
<1>3. local_schedule_date(t) \in Int /\ local_schedule_date(t + 1) \in Int
      /\ local_schedule_date(t) <= local_schedule_date(t + 1)
  BY ClockTypes, DatesGrow
<1>4. last \in Int => last <= local_schedule_date(t + 1)
  BY <1>3, NoneAssumption
<1> HIDE DEF time, weekdays
<1>5. /\ next \in Int
      /\ local_schedule_date(next) >= local_schedule_date(t + 1)
      /\ Weekday(local_schedule_date(next)) \in weekdays
      /\ local_schedule_date(next) # last
  BY <1>2, <1>4, WeeklyDay
<1> HIDE DEF next
<1>6. local_schedule_date(next) \in Int
  BY <1>5, ClockTypes
<1>7. last # None => local_schedule_date(next) > last
  BY <1>3, <1>4, <1>5, <1>6
<1> QED BY <1>5, <1>7 DEF compute_next_run_at, next, time, weekdays

\* A weekly job that fails at t rolls to a selected day after the last publication.
LEMMA FailedRolls ==
  ASSUME OrdinaryZone, NEW row \in Row, row.command.schedule_type = "weekly", NEW error \in Errors,
         NEW t \in Int, SentBy(row, t)
  PROVE  LET new == Failed(row, error, t)
         IN  /\ new.next_run_at # None
             /\ Weekday(local_schedule_date(new.next_run_at)) \in new.command.weekdays
             /\ local_schedule_date(new.next_run_at) # new.last_sent_date
             /\ new.last_sent_date # None => local_schedule_date(new.next_run_at) > new.last_sent_date
<1> DEFINE last == row.last_sent_date
           next == compute_next_run_at(row.command, t + 1, last)
<1>1. row.command \in Commands /\ last \in Int \cup {None} /\ (last # None => last <= local_schedule_date(t))
  BY RowFields DEF SentBy
<1>2. /\ Failed(row, error, t).next_run_at = next
      /\ Failed(row, error, t).last_sent_date = last
      /\ Failed(row, error, t).command = row.command
  BY FailedFields, FailedRow DEF SameJob
<1> HIDE DEF last
<1>3. /\ next \in Int
      /\ Weekday(local_schedule_date(next)) \in row.command.weekdays
      /\ local_schedule_date(next) # last
      /\ last # None => local_schedule_date(next) > last
  BY <1>1, NextRolls
<1> HIDE DEF next
<1> QED BY <1>2, <1>3, NoneAssumption

LEMMA WeeklyRollsForwardStep ==
  ASSUME OrdinaryZone, IInv, ManualCopies, LastSentPast, WeeklyRollsForward, [Next]_vars
  PROVE  WeeklyRollsForward'
<1> SUFFICES ASSUME NEW j \in JobIds, db'[j] # None, db'[j].command.schedule_type = "weekly",
                    db'[j].status = "failed", db'[j].gen \notin overwritten'
             PROVE  /\ db'[j].next_run_at # None
                    /\ Weekday(local_schedule_date(db'[j].next_run_at)) \in db'[j].command.weekdays
                    /\ local_schedule_date(db'[j].next_run_at) # db'[j].last_sent_date
  BY DEF WeeklyRollsForward
<1>0. /\ \A a \in Tasks : InDispatch(a) => copy[a] \in Row
      /\ outcome \in [Tasks -> Outcomes] /\ stamp \in Int /\ now \in Int
      /\ db \in [JobIds -> Row \cup {None}]
  BY DEF IInv, TypeInv, TaskTypes, TableTypes, InHand, InDispatch
<1>1. CASE db'[j] = db[j]
  BY <1>1, HistoryGrows DEF WeeklyRollsForward
<1>2. CASE db[j] # None /\ MarksFailed(j)
  <2>1. PICK a \in Tasks :
          /\ copy[a] \in Row /\ Alike(copy[a], db[j]) /\ outcome[a] \in Outcomes
          /\ \/ \E error \in Errors : db'[j] = Failed(copy[a], error, now)
             \/ db'[j] = PublishFailed(copy[a], outcome[a], now)
    BY <1>0, <1>2 DEF MarksFailed
  <2>2. PICK error \in Errors : db'[j] = Failed(copy[a], error, now)
    BY <1>0, <2>1, PublishFailedForms
  <2>3. db'[j].gen = copy[a].gen /\ db'[j].command = copy[a].command
    BY <1>0, <2>1, <2>2, FailedRow DEF SameJob
  <2>4. SentBy(copy[a], now)
    BY <1>2, <2>1, <2>3, HistoryGrows DEF LastSentPast, SentBy, Alike, SameJob
  <2> QED BY <1>0, <2>1, <2>2, <2>3, <2>4, FailedRolls
<1>3. CASE db[j] # None /\ Repairs(j)
  <2>1. db[j] \in Row /\ db'[j] = Failed(db[j], "terminal", stamp) /\ "terminal" \in Errors
    BY <1>0, <1>3, RepairedForms DEF Repairs, Errors
  <2>2. db'[j].gen = db[j].gen /\ db'[j].command = db[j].command
    BY <1>0, <2>1, FailedRow DEF SameJob
  <2>3. SentBy(db[j], stamp)
    BY <1>3, <2>2, HistoryGrows DEF LastSentPast, Repairs
  <2> QED BY <1>0, <2>1, <2>2, <2>3, FailedRolls
<1>4. ~Creates(j) /\ ~Takes(j)
  BY DEF Creates, Takes
<1>5. ~MarksSent(j)
  BY <1>0, SentRow DEF MarksSent
<1> QED BY <1>1, <1>2, <1>3, <1>4, <1>5, RowSteps DEF RowStep

-----------------------------------------------------------------------------
(* Generations.                                                            *)

\* The row of an id, and what the worker has claimed under that id
Shown(j) == {db[j]} \cup WorkerHolds(j)

\* Two ids have two jobs, in the table and in the worker's hands.
GenerationsApart ==
    \A i, j \in JobIds : i # j =>
        \A r \in Shown(i), s \in Shown(j) : r # None /\ s # None => r.gen # s.gen

\* Every story that is out is of a row that was created (or of a stale copy).
PostsKnown == \A p \in posts : p[1] <= created \/ p[1] \in overwritten

LEMMA RowsKeepGenerations ==
  ASSUME IInv, [Next]_vars, ~\E i \in JobIds, c \in Commands : CreateJob(i, c),
         NEW j \in JobIds, db'[j] # None
  PROVE  db[j] # None /\ db'[j].gen = db[j].gen
<1>0. /\ db \in [JobIds -> Row \cup {None}] /\ batch \in [JobIds -> Row \cup {None}]
      /\ now \in Int /\ stamp \in Int /\ TaskTypes /\ Worker \in Tasks
  BY Tables DEF IInv, TypeInv, TableTypes
<1>1. CASE Tick \/ UNCHANGED vars \/ Crash
  BY <1>1 DEF Tick, Crash, vars
<1>2. ASSUME NEW h \in Handlers, DeleteCancel(h) PROVE db[j] # None /\ db'[j].gen = db[j].gen
  <2>1. /\ job[h] \in JobIds /\ copy[h] \in Row /\ db[job[h]] \in Row /\ db[job[h]] # None
        /\ db' = [db EXCEPT ![job[h]] = Flush(@, copy[h], Cancelled(copy[h]))]
    BY <1>0, <1>2, Tables DEF DeleteCancel, TaskTypes, InHand
  <2>2. Flush(db[job[h]], copy[h], Cancelled(copy[h])).gen = db[job[h]].gen
    BY <2>1, CancelledRow, FlushedRow DEF SameJob
  <2> QED BY <1>0, <2>1, <2>2
<1>3. ASSUME NEW h \in Handlers, ManualMark(h) PROVE db[j] # None /\ db'[j].gen = db[j].gen
  <2> DEFINE before == Claimed(db[job[h]], copy[h].locked_at)
             marked == IF outcome[h] = "sent" THEN Sent(copy[h], now)
                       ELSE Failed(copy[h], ErrorText(outcome[h]), now)
  <2>1. InDispatch(h)
    BY <1>3 DEF ManualMark, InDispatch, Dispatching
  <2>2. /\ job[h] \in JobIds /\ copy[h] \in Row /\ db[job[h]] \in Row /\ db[job[h]] # None
        /\ db' = [db EXCEPT ![job[h]] = Flush(before, copy[h], marked)]
    BY <1>0, <1>3, <2>1, Tables DEF ManualMark, TaskTypes, InHand, InDispatch, IInv, ClaimInv, ManualHolds
  <2>3. before \in Row /\ before.gen = db[job[h]].gen
    BY <2>2, ClaimedRow, RowFields DEF SameJob
  <2>4. marked \in Row
    <3>1. ErrorText(outcome[h]) \in Errors
      BY DEF ErrorText, Errors
    <3> QED BY <1>0, <2>2, <3>1, SentRow, FailedRow DEF SameJob
  <2> HIDE DEF before, marked
  <2>5. Flush(before, copy[h], marked).gen = db[job[h]].gen
    BY <2>2, <2>3, <2>4, FlushedRow DEF SameJob
  <2> QED BY <1>0, <2>2, <2>5
<1>4. ASSUME NEW h \in Handlers, DeletePurge(h) PROVE db[j] # None /\ db'[j].gen = db[j].gen
  BY <1>0, <1>4, Tables DEF DeletePurge, TaskTypes, InHand
<1>5. ASSUME NEW a \in Tasks, Dispatch(a) PROVE UNCHANGED db
  BY <1>0, <1>5, DispatchLeaves
<1>6. CASE RepairCommit
  <2>1. CASE j \in RepairWrites
    <3>1. batch[j] \in Row /\ db[j] \in Row /\ db[j] # None
      BY <1>0, <1>6, <2>1 DEF RepairCommit, RepairWrites
    <3>2. Flush(db[j], batch[j], Repaired(batch[j], stamp)).gen = db[j].gen
      BY <1>0, <3>1, RepairedRow, FlushedRow DEF SameJob
    <3> QED BY <1>6, <2>1, <3>1, <3>2 DEF RepairCommit
  <2>2. CASE j \notin RepairWrites
    BY <1>6, <2>2 DEF RepairCommit
  <2> QED BY <2>1, <2>2
<1>7. CASE ClaimDueJobs
  <2>1. CASE j \in DueBatch
    <3>1. db[j] \in Row /\ db[j] # None /\ db'[j] = Claimed(db[j], now)
      BY <1>0, <1>7, <2>1 DEF ClaimDueJobs, DueBatch, Due
    <3> QED BY <1>0, <3>1, ClaimedRow DEF SameJob
  <2>2. CASE j \notin DueBatch
    BY <1>7, <2>2 DEF ClaimDueJobs
  <2> QED BY <2>1, <2>2
<1>8. CASE WorkerMark
  <2> DEFINE row == copy[Worker]
             marked == IF outcome[Worker] = "sent" THEN Sent(row, now)
                       ELSE PublishFailed(row, outcome[Worker], now)
  <2>1. /\ job[Worker] \in JobIds /\ row \in Row /\ db[job[Worker]] \in Row /\ db[job[Worker]] # None
        /\ db' = [db EXCEPT ![job[Worker]] = Flush(@, row, marked)]
        /\ outcome[Worker] \in Outcomes
    BY <1>0, <1>8 DEF WorkerMark, TaskTypes, InHand, Dispatching
  <2>2. marked \in Row
    BY <1>0, <2>1, SentRow, PublishFailedRow DEF SameJob
  <2> HIDE DEF marked
  <2>3. Flush(db[job[Worker]], row, marked).gen = db[job[Worker]].gen
    BY <2>1, <2>2, FlushedRow DEF SameJob
  <2> QED BY <1>0, <2>1, <2>3
<1>9. CASE \/ RepairRead \/ (\E i \in JobIds : TakeJob(i)) \/ WorkerFlushFails \/ CycleTimeout
           \/ \E h \in Handlers : \/ \E i \in JobIds : DeleteRead(h, i) \/ ManualRead(h, i)
                                  \/ ManualClaim(h) \/ HandlerRefused(h)
  BY <1>9 DEF RepairRead, TakeJob, WorkerFlushFails, CycleTimeout, EndCycle, DeleteRead, ManualRead, ManualClaim,
              HandlerRefused
<1> QED BY <1>1, <1>2, <1>3, <1>4, <1>5, <1>6, <1>7, <1>8, <1>9, StepOf DEF HandlerStep, WorkerStep

\* What the worker holds it has held, or it has just claimed the row.
LEMMA HoldsOrigin ==
  ASSUME IInv, [Next]_vars, NEW j \in JobIds, NEW row \in WorkerHolds(j)', row # None
  PROVE  \/ row \in WorkerHolds(j)
         \/ ClaimDueJobs /\ db[j] # None /\ row = Claimed(db[j], now) /\ db[j].status \in {"pending", "failed"}
<1>0. Worker \in Tasks /\ TaskTypes /\ \A h \in Handlers : h # Worker
  BY Tables DEF IInv, TypeInv
<1>1. CASE WorkerStays
  BY <1>1 DEF WorkerStays, WorkerHolds, InDispatch
<1>2. CASE Tick \/ UNCHANGED vars \/ (\E i \in JobIds, c \in Commands : CreateJob(i, c))
  BY <1>1, <1>2 DEF Tick, CreateJob, vars, taskVars, WorkerStays
<1>3. ASSUME NEW h \in Handlers, HandlerStep(h) PROVE WorkerStays
  <2>1. Stays(Worker)
    BY <1>0, <1>3, HandlerLeaves
  <2>2. UNCHANGED batch
    BY <1>3 DEF HandlerStep, DeleteRead, ManualRead, DeleteCancel, DeletePurge, ManualClaim, HandlerRefused,
                ManualMark
  <2> QED BY <2>1, <2>2 DEF Stays, WorkerStays
<1>4. ASSUME NEW a \in Tasks, Dispatch(a) PROVE row \in WorkerHolds(j)
  <2>1. CASE a # Worker
    <3>1. Stays(Worker) /\ UNCHANGED batch
      BY <1>0, <1>4, <2>1, DispatchLeaves
    <3> QED BY <3>1 DEF Stays, WorkerHolds, InDispatch
  <2>2. CASE a = Worker
    <3>1. InDispatch(Worker) /\ UNCHANGED <<batch, job, copy>>
      BY <1>0, <1>4, <2>2, DispatchLeaves
    <3> QED BY <3>1 DEF WorkerHolds
  <2> QED BY <2>1, <2>2
<1>5. CASE ClaimDueJobs
  <2>1. pc'[Worker] = "batch" /\ batch'[j] = IF j \in DueBatch THEN Claimed(db[j], now) ELSE None
    BY <1>0, <1>5 DEF ClaimDueJobs, Goto, TaskTypes
  <2>2. row = batch'[j]
    BY <2>1 DEF WorkerHolds, InDispatch, Dispatching
  <2> QED BY <1>5, <2>1, <2>2 DEF DueBatch, Due, Claimable
<1>6. ASSUME NEW i \in JobIds, TakeJob(i) PROVE row \in WorkerHolds(j)
  <2>1. /\ pc[Worker] = "batch" /\ pc'[Worker] = "ensure" /\ job'[Worker] = i /\ copy'[Worker] = batch[i]
        /\ batch' = [batch EXCEPT ![i] = None] /\ batch \in [JobIds -> Row \cup {None}]
    BY <1>0, <1>6 DEF TakeJob, Load, Goto, TaskTypes, IInv, TypeInv, TableTypes
  <2> QED BY <2>1 DEF WorkerHolds, InDispatch, Dispatching
<1>7. CASE WorkerMark
  <2>1. /\ InDispatch(Worker) /\ UNCHANGED batch
        /\ pc'[Worker] \in {"idle", "batch"}
    BY <1>0, <1>7, ReleaseLeaves DEF WorkerMark, InDispatch, Dispatching
  <2> QED BY <2>1 DEF WorkerHolds, InDispatch, Dispatching
<1>8. CASE RepairRead \/ RepairCommit
  <2>1. pc'[Worker] \in {"repair", "idle"}
    BY <1>0, <1>8 DEF RepairRead, RepairCommit, Goto, TaskTypes
  <2> QED BY <2>1 DEF WorkerHolds, InDispatch, Dispatching
<1>9. CASE WorkerFlushFails \/ CycleTimeout \/ Crash
  <2>1. pc'[Worker] = "idle"
    BY <1>0, <1>9, ReleaseLeaves DEF WorkerFlushFails, CycleTimeout, EndCycle, Crash
  <2> QED BY <2>1 DEF WorkerHolds, InDispatch, Dispatching
<1> QED BY <1>1, <1>2, <1>3, <1>4, <1>5, <1>6, <1>7, <1>8, <1>9, StepOf DEF WorkerStep

LEMMA GenerationsInit == Init => GenerationsApart /\ PostsKnown
BY Tables DEF Init, GenerationsApart, PostsKnown, Shown, WorkerHolds, InDispatch, Dispatching

LEMMA GenerationsApartStep ==
  ASSUME IInv, GenerationsApart, [Next]_vars
  PROVE  GenerationsApart'
<1>0. /\ KnownGenerations /\ created \in Nat
      /\ \A j \in JobIds : \A row \in WorkerHolds(j) : row # None => row \in Row
      /\ db \in [JobIds -> Row \cup {None}] /\ now \in Int
  BY Tables DEF IInv, ClaimInv, TypeInv, TableTypes, TaskTypes, InHand, InDispatch, WorkerHolds
<1>1. CASE \E i \in JobIds, c \in Commands : CreateJob(i, c)
  <2>0. PICK i \in JobIds : \E c \in Commands : CreateJob(i, c)
    BY <1>1
  <2> DEFINE new == db'[i]
  <2>1. db' = [db EXCEPT ![i] = new] /\ new.gen = created + 1
    BY <1>0, <2>0 DEF CreateJob
  <2>2. \A j \in JobIds : WorkerHolds(j)' = WorkerHolds(j)
    BY <1>1 DEF CreateJob, taskVars, WorkerHolds, InDispatch
  <2> HIDE DEF WorkerHolds
  <2>3. \A j \in JobIds : \A row \in Shown(j)' :
          row # None => \/ row.gen = created + 1 /\ j = i
                        \/ row.gen <= created /\ row \in Shown(j)
                        \/ row.gen <= created /\ j = i
    BY <1>0, <2>1, <2>2 DEF Shown, KnownGenerations
  <2>4. \A j \in JobIds : \A row \in Shown(j)' : row # None => row \in Shown(j) \/ row = new
    BY <1>0, <2>1, <2>2 DEF Shown
  <2>5. \A j \in JobIds : \A row \in Shown(j) : row # None => row.gen \in Int /\ row.gen <= created
    BY <1>0, RowFields DEF Shown, KnownGenerations
  <2>6. \A j \in JobIds : \A row \in Shown(j)' : j # i => row \in Shown(j)
    BY <1>0, <2>1, <2>2 DEF Shown
  <2> SUFFICES ASSUME NEW j \in JobIds, NEW k \in JobIds, j # k,
                      NEW r \in Shown(j)', NEW s \in Shown(k)', r # None, s # None
               PROVE  r.gen # s.gen
    BY DEF GenerationsApart
  <2> HIDE DEF Shown
  <2>7. (r \in Shown(j) \/ (r = new /\ j = i)) /\ (s \in Shown(k) \/ (s = new /\ k = i))
    BY <2>4, <2>6
  <2> QED BY <1>0, <2>1, <2>5, <2>7 DEF GenerationsApart
<1>2. CASE ~\E i \in JobIds, c \in Commands : CreateJob(i, c)
  <2>1. ASSUME NEW j \in JobIds, NEW row \in Shown(j)', row # None
        PROVE  \E old \in Shown(j) : old # None /\ old.gen = row.gen
    <3>1. CASE row = db'[j]
      BY <1>2, <2>1, <3>1, RowsKeepGenerations DEF Shown
    <3>2. CASE row \in WorkerHolds(j)'
      <4>1. CASE row \in WorkerHolds(j)
        BY <2>1, <4>1 DEF Shown
      <4>2. CASE db[j] # None /\ row = Claimed(db[j], now)
        <5>1. db[j] \in Row /\ row.gen = db[j].gen
          BY <1>0, <4>2, ClaimedRow DEF SameJob
        <5> QED BY <4>2, <5>1 DEF Shown
      <4> QED BY <2>1, <3>2, <4>1, <4>2, HoldsOrigin
    <3> QED BY <2>1, <3>1, <3>2 DEF Shown
  <2> SUFFICES ASSUME NEW j \in JobIds, NEW k \in JobIds, j # k,
                      NEW r \in Shown(j)', NEW s \in Shown(k)', r # None, s # None
               PROVE  r.gen # s.gen
    BY DEF GenerationsApart
  <2>2. PICK x \in Shown(j) : x # None /\ x.gen = r.gen
    BY <2>1
  <2>3. PICK y \in Shown(k) : y # None /\ y.gen = s.gen
    BY <2>1
  <2> HIDE DEF Shown
  <2> QED BY <2>2, <2>3 DEF GenerationsApart
<1> QED BY <1>1, <1>2

-----------------------------------------------------------------------------
(* Which stories a step may put out.                                       *)

\* A story goes out for a task that is publishing, and is then heard of or not.
LEMMA OutOrigin ==
  ASSUME [Next]_vars, NEW p \in posts', p \notin posts
  PROVE  \E a \in Tasks : /\ Publishing(a)
                          /\ p[1] = copy[a].gen
                          /\ p[2] = local_schedule_date(now)
                          /\ PublishOk(a) \/ copy[a].gen \in unheard'
<1> DEFINE From(a) == /\ Publishing(a)
                      /\ p[1] = copy[a].gen
                      /\ p[2] = local_schedule_date(now)
                      /\ PublishOk(a) \/ copy[a].gen \in unheard'
<1>1. ~UNCHANGED posts
  OBVIOUS
<1>2. ASSUME NEW a \in Tasks, Dispatch(a) PROVE From(a)
  BY <1>1, <1>2 DEF Dispatch, EnsureRoleReady, EnsureMedia, AcquireRole, PublishOk, PublishUnheard, PublishFails,
                    MediaInvalid, RebuildMedia, Posted, historyVars
<1>3. ASSUME NEW S \in SUBSET Tasks, MaybePosted(S) PROVE \E a \in Tasks : From(a)
  <2>1. PICK a \in S : Publishing(a) /\ Posted(a) /\ copy[a].gen \in unheard'
    BY <1>1, <1>3 DEF MaybePosted
  <2>2. p[1] = copy[a].gen /\ p[2] = local_schedule_date(now)
    BY <2>1 DEF Posted
  <2> QED BY <2>1, <2>2
<1>4. CASE Tick \/ UNCHANGED vars \/ (\E j \in JobIds, c \in Commands : CreateJob(j, c))
  BY <1>1, <1>4 DEF Tick, CreateJob, vars, historyVars
<1>5. ASSUME NEW h \in Handlers, HandlerStep(h) PROVE FALSE
  BY <1>1, <1>5 DEF HandlerStep, DeleteRead, ManualRead, DeleteCancel, DeletePurge, ManualClaim, HandlerRefused,
                    ManualMark, historyVars
<1>6. CASE WorkerStep
  <2>1. CycleTimeout
    BY <1>1, <1>6 DEF WorkerStep, RepairRead, RepairCommit, ClaimDueJobs, TakeJob, WorkerMark, WorkerFlushFails,
                      historyVars
  <2> QED BY <1>3, <2>1, Tables DEF CycleTimeout
<1>7. CASE Crash
  BY <1>3, <1>7 DEF Crash
<1> QED BY <1>2, <1>4, <1>5, <1>6, <1>7, StepOf

LEMMA ManualCopyGen ==
  ASSUME IInv, ManualCopies, NEW h \in Handlers, InDispatch(h),
         ~({db[job[h]].gen, copy[h].gen} \subseteq overwritten)
  PROVE  db[job[h]].gen = copy[h].gen
<1>1. h \in Tasks /\ copy[h] \in Row /\ db[job[h]] \in Row
  BY Tables DEF IInv, TypeInv, TaskTypes, TableTypes, InHand, InDispatch, ClaimInv, ManualHolds
<1> DEFINE t == copy[h].locked_at
<1>2. copy[h] = Claimed(db[job[h]], t) /\ t \in Int \cup {None}
  BY <1>1, RowFields DEF ManualCopies
<1> HIDE DEF t
<1>3. Claimed(db[job[h]], t).gen = db[job[h]].gen
  BY <1>1, <1>2, ClaimedRow DEF SameJob
<1> QED BY <1>2, <1>3

\* What a task has under dispatch is the row of its id, unless it is stale.
LEMMA CopyShown ==
  ASSUME IInv, ManualCopies, NEW a \in Tasks, InDispatch(a), copy[a].gen \notin overwritten
  PROVE  \E row \in Shown(job[a]) : row # None /\ row.gen = copy[a].gen
<1>0. /\ job[a] \in JobIds /\ copy[a] \in Row
      /\ db \in [JobIds -> Row \cup {None}]
  BY Tables DEF IInv, TypeInv, TaskTypes, TableTypes, InHand, InDispatch
<1>1. CASE a = Worker
  <2>1. copy[a] \in WorkerHolds(job[a]) /\ copy[a] # None
    BY <1>0, <1>1, RowAssumption DEF WorkerHolds
  <2> QED BY <1>0, <2>1 DEF Shown
<1>2. CASE a \in Handlers
  <2>1. db[job[a]] # None
    BY <1>2 DEF IInv, ClaimInv, ManualHolds
  <2> QED BY <1>2, <2>1, ManualCopyGen DEF Shown
<1> QED BY <1>1, <1>2 DEF Tasks

LEMMA PostsKnownStep ==
  ASSUME IInv, ManualCopies, PostsKnown, [Next]_vars
  PROVE  PostsKnown'
<1>1. created \in Int /\ created' \in Int /\ created <= created'
  <2>1. created \in Nat /\ created' \in Nat
    BY IInvStep DEF IInv, TypeInv, TableTypes
  <2>2. CASE \E j \in JobIds, c \in Commands : CreateJob(j, c)
    BY <2>1, <2>2 DEF CreateJob
  <2>3. CASE UNCHANGED created
    BY <2>1, <2>3
  <2>4. ASSUME NEW h \in Handlers, HandlerStep(h) PROVE UNCHANGED created
    BY <2>4 DEF HandlerStep, DeleteRead, ManualRead, DeleteCancel, DeletePurge, ManualClaim, HandlerRefused,
                ManualMark
  <2>5. ASSUME NEW a \in Tasks, Dispatch(a) PROVE UNCHANGED created
    BY <2>5, DispatchLeaves DEF IInv, TypeInv
  <2>6. CASE WorkerStep
    BY <2>3, <2>6 DEF WorkerStep, RepairRead, RepairCommit, ClaimDueJobs, TakeJob, WorkerMark, WorkerFlushFails,
                      CycleTimeout, EndCycle
  <2>7. CASE Tick \/ UNCHANGED vars \/ Crash
    BY <2>3, <2>7 DEF Tick, vars, Crash
  <2> QED BY <2>2, <2>3, <2>4, <2>5, <2>6, <2>7, StepOf
<1>2. ASSUME NEW p \in posts', p \notin posts, p[1] \notin overwritten'
      PROVE  p[1] <= created
  <2>1. PICK a \in Tasks : Publishing(a) /\ p[1] = copy[a].gen
    BY <1>2, OutOrigin
  <2>2. InDispatch(a) /\ copy[a].gen \notin overwritten
    BY <1>2, <2>1, HistoryGrows DEF Publishing, InDispatch, Dispatching
  <2>3. PICK row \in Shown(job[a]) : row # None /\ row.gen = copy[a].gen
    BY <2>2, CopyShown
  <2>4. job[a] \in JobIds
    BY <2>2 DEF IInv, TypeInv, TaskTypes, InHand, InDispatch
  <2> HIDE DEF WorkerHolds
  <2>5. row.gen <= created
    BY <2>3, <2>4 DEF Shown, IInv, ClaimInv, KnownGenerations
  <2> QED BY <2>1, <2>3, <2>5
<1>3. ASSUME NEW p \in posts' PROVE p[1] \in Int
  <2>1. posts' \subseteq Generations \X Int
    BY IInvStep DEF IInv, TypeInv, HistoryTypes
  <2> QED BY <1>3, <2>1 DEF Generations
<1> QED BY <1>1, <1>2, <1>3, HistoryGrows DEF PostsKnown

-----------------------------------------------------------------------------
(* One-time stories that are not out yet.                                  *)

\* The story of a one-time job is not out, or its publication went unheard or
\* its row was overwritten.
Unsent(row) ==
    row.command.schedule_type = "once" /\ row.gen \notin unheard \cup overwritten => ~Out(row.gen)

\* Task a has the job of id j in hand and has published it.
Marking(a, j) == job[a] = j /\ outcome[a] = "sent"

\* What may still be published is not out: under dispatch, claimed, or in the table.
UnsentInv ==
    /\ \A h \in Handlers : InDispatch(h) /\ outcome[h] # "sent" => Unsent(copy[h])
    /\ \A j \in JobIds : \A row \in WorkerHolds(j) : row # None => Unsent(row) \/ Marking(Worker, j)
    /\ \A j \in JobIds : db[j] # None /\ db[j].status \in {"pending", "failed"}
                          => Unsent(db[j]) \/ \E h \in Handlers : InDispatch(h) /\ Marking(h, j)

LEMMA UnsentInit == Init => UnsentInv
BY Tables DEF Init, UnsentInv, WorkerHolds, InDispatch, Dispatching

LEMMA UnsentInHand ==
  ASSUME IInv, UnsentInv, NEW a \in Tasks, InDispatch(a), outcome[a] # "sent"
  PROVE  Unsent(copy[a])
<1>1. CASE a \in Handlers
  BY <1>1 DEF UnsentInv
<1>2. CASE a = Worker
  <2>1. copy[a] \in WorkerHolds(job[a]) /\ job[a] \in JobIds /\ copy[a] # None
    BY <1>2, RowAssumption DEF WorkerHolds, IInv, TypeInv, TaskTypes, InHand, InDispatch
  <2>2. ~Marking(Worker, job[a])
    BY <1>2 DEF Marking
  <2> QED BY <1>2, <2>1, <2>2 DEF UnsentInv
<1> QED BY <1>1, <1>2 DEF Tasks

\* Where a task goes that has published.
LEMMA SentFate ==
  ASSUME IInv, SentIsOut, [Next]_vars, NEW a \in Tasks, outcome[a] = "sent"
  PROVE  \/ Stays(a)
         \/ a \in Handlers /\ ManualMark(a)
         \/ a = Worker /\ (pc'[a] = "idle" \/ (pc'[a] = "batch" /\ UNCHANGED batch))
         \/ Crash
<1>0. TaskTypes /\ pc[a] = "mark"
  BY DEF IInv, TypeInv, SentIsOut
<1>1. CASE Tick \/ UNCHANGED vars \/ (\E i \in JobIds, c \in Commands : CreateJob(i, c))
  BY <1>1 DEF Tick, CreateJob, vars, taskVars, Stays
<1>2. ASSUME a \in Handlers, HandlerStep(a) PROVE ManualMark(a)
  BY <1>0, <1>2 DEF HandlerStep, DeleteRead, ManualRead, DeleteCancel, DeletePurge, ManualClaim, HandlerRefused
<1>3. ~Dispatch(a)
  BY <1>0, DispatchLeaves
<1>4. ASSUME a = Worker, WorkerStep
      PROVE  pc'[a] = "idle" \/ (pc'[a] = "batch" /\ UNCHANGED batch)
  <2>1. WorkerMark \/ WorkerFlushFails \/ CycleTimeout
    BY <1>0, <1>4 DEF WorkerStep, RepairRead, RepairCommit, ClaimDueJobs, TakeJob
  <2>2. \/ Release(a, "idle")
        \/ Release(a, "batch") /\ UNCHANGED batch
    BY <1>4, <2>1 DEF WorkerMark, WorkerFlushFails, CycleTimeout, EndCycle
  <2> QED BY <1>0, <2>2, ReleaseLeaves
<1> QED BY <1>0, <1>1, <1>2, <1>3, <1>4, StepOf, HandlerLeaves, DispatchLeaves, WorkerLeaves, Tables DEF Tasks

\* A job that is not out stays so in any step but its publication.
LEMMA UnsentKept ==
  ASSUME [Next]_vars, ~\E a \in Tasks : PublishOk(a), NEW row, Unsent(row)
  PROVE  row.command.schedule_type = "once" /\ row.gen \notin unheard' \cup overwritten'
         => ~\E p \in posts' : p[1] = row.gen
<1> SUFFICES ASSUME row.command.schedule_type = "once", row.gen \notin unheard' \cup overwritten',
                    NEW p \in posts', p[1] = row.gen
             PROVE  FALSE
  OBVIOUS
<1>1. row.gen \notin unheard \cup overwritten
  BY HistoryGrows
<1>2. p \notin posts
  BY <1>1 DEF Unsent, Out
<1> QED BY <1>2, OutOrigin

\* The flush of a manual send makes its mark of the row, unless its copy is stale.
LEMMA ManualMarkRow ==
  ASSUME IInv, ManualCopies, NEW h \in Handlers, ManualMark(h), db[job[h]].gen \notin overwritten
  PROVE  LET marked == IF outcome[h] = "sent" THEN Sent(copy[h], now)
                       ELSE Failed(copy[h], ErrorText(outcome[h]), now)
         IN  db'[job[h]] = marked /\ SameJob(copy[h], marked)
<1> DEFINE i == job[h]
           marked == IF outcome[h] = "sent" THEN Sent(copy[h], now)
                     ELSE Failed(copy[h], ErrorText(outcome[h]), now)
           before == Claimed(db[i], copy[h].locked_at)
<1>1. InDispatch(h)
  BY DEF ManualMark, InDispatch, Dispatching
<1>2. /\ i \in JobIds /\ copy[h] \in Row /\ db \in [JobIds -> Row \cup {None}]
      /\ db' = [db EXCEPT ![i] = Flush(before, copy[h], marked)]
      /\ now \in Int
  BY <1>1, Tables DEF ManualMark, IInv, TypeInv, TaskTypes, TableTypes, InHand, InDispatch
<1>3. copy[h] = before
  BY <1>1 DEF ManualCopies
<1>4. SameJob(copy[h], marked)
  <2>1. ErrorText(outcome[h]) \in Errors
    BY DEF ErrorText, Errors
  <2> QED BY <1>2, <2>1, SentRow, FailedRow
<1> HIDE DEF before, marked
<1>5. db'[i] = marked
  BY <1>2, <1>3, <1>4, FlushOfCopy
<1> QED BY <1>4, <1>5 DEF marked

\* After a step that publishes nothing (or nothing that is heard of)
LEMMA UnsentHandlers ==
  ASSUME IInv, ManualCopies, SentIsOut, UnsentInv, [Next]_vars, ~\E a \in Tasks : PublishOk(a),
         NEW h \in Handlers, InDispatch(h)', outcome'[h] # "sent"
  PROVE  Unsent(copy[h])'
<1>0. h \in Tasks /\ h # Worker /\ TaskTypes
  BY Tables DEF IInv, TypeInv
<1>1. CASE InDispatch(h) /\ UNCHANGED <<db, job[h], copy[h]>>
  <2>1. outcome[h] # "sent"
    <3> SUFFICES ASSUME outcome[h] = "sent" PROVE FALSE
      OBVIOUS
    <3>1. ~Stays(h)
      BY DEF Stays
    <3>2. ~ManualMark(h)
      BY <1>0, ReleaseLeaves DEF ManualMark, InDispatch, Dispatching
    <3>3. ~Crash
      BY <1>0 DEF Crash, InDispatch, Dispatching
    <3> QED BY <1>0, <3>1, <3>2, <3>3, SentFate
  <2>2. Unsent(copy[h])
    BY <1>1, <2>1 DEF UnsentInv
  <2> QED BY <1>1, <2>2, UnsentKept DEF Unsent, Out
<1>2. CASE ManualClaim(h)
  <2>1. /\ pc[h] = "claim" /\ writer = None /\ db[job[h]] # None /\ Claimable(db[job[h]])
        /\ copy' = [copy EXCEPT ![h] = Claimed(copy[h], now)]
        /\ overwritten' = overwritten \cup Stale(db[job[h]], copy[h])
    BY <1>2 DEF ManualClaim
  <2>2. job[h] \in JobIds /\ copy[h] \in Row /\ now \in Int
    BY <1>0, <2>1 DEF TaskTypes, InHand, IInv, TypeInv, TableTypes
  <2>3. SameJob(copy[h], copy'[h])
    BY <1>0, <2>1, <2>2, ClaimedRow DEF TaskTypes
  <2>4. CASE db[job[h]] # copy[h]
    BY <2>1, <2>3, <2>4 DEF Stale, SameJob, Unsent
  <2>5. CASE db[job[h]] = copy[h]
    <3>1. ~\E g \in Handlers : InDispatch(g)
      BY <2>1, Tables DEF IInv, ClaimInv, ManualHolds
    <3>2. Unsent(copy[h])
      BY <2>1, <2>2, <2>5, <3>1 DEF UnsentInv, Claimable
    <3> QED BY <2>3, <3>2, UnsentKept DEF Unsent, Out, SameJob
  <2> QED BY <2>4, <2>5
<1> QED BY <1>1, <1>2, ManualOrigin

LEMMA UnsentWorker ==
  ASSUME IInv, SentIsOut, UnsentInv, [Next]_vars, ~\E a \in Tasks : PublishOk(a),
         NEW j \in JobIds, NEW row \in WorkerHolds(j)', row # None
  PROVE  Unsent(row)' \/ Marking(Worker, j)'
<1>0. Worker \in Tasks /\ Worker \notin Handlers /\ TaskTypes
  BY Tables DEF IInv, TypeInv
<1>1. CASE row \in WorkerHolds(j) /\ Unsent(row)
  BY <1>1, UnsentKept DEF Unsent, Out
<1>2. CASE row \in WorkerHolds(j) /\ Marking(Worker, j)
  <2>1. CASE Stays(Worker)
    BY <1>2, <2>1 DEF Stays, Marking
  <2>2. CASE pc'[Worker] = "idle" \/ Crash
    <3>1. pc'[Worker] = "idle"
      BY <1>0, <2>2 DEF Crash
    <3> QED BY <3>1 DEF WorkerHolds, InDispatch, Dispatching
  <2>3. CASE pc'[Worker] = "batch" /\ UNCHANGED batch
    <3>1. InDispatch(Worker)
      BY <1>0, <1>2 DEF Marking, TaskTypes, InHand
    <3>2. batch[j] = None
      BY <1>2, <3>1 DEF Marking, IInv, ClaimInv, OneInHand
    <3>3. row = batch[j]
      BY <2>3 DEF WorkerHolds, InDispatch, Dispatching
    <3> QED BY <3>2, <3>3
  <2> QED BY <1>0, <1>2, <2>1, <2>2, <2>3, SentFate DEF Marking
<1>3. CASE ClaimDueJobs /\ db[j] # None /\ row = Claimed(db[j], now) /\ db[j].status \in {"pending", "failed"}
  <2>1. ~\E g \in Handlers : InDispatch(g)
    BY <1>3, Tables DEF ClaimDueJobs, IInv, ClaimInv, ManualHolds
  <2>2. Unsent(db[j])
    BY <1>3, <2>1 DEF UnsentInv
  <2>3. SameJob(db[j], row)
    <3>1. db[j] \in Row /\ now \in Int
      BY <1>3 DEF IInv, TypeInv, TableTypes
    <3> QED BY <1>3, <3>1, ClaimedRow
  <2> QED BY <2>2, <2>3, UnsentKept DEF Unsent, Out, SameJob
<1>4. row \in WorkerHolds(j) => Unsent(row) \/ Marking(Worker, j)
  BY DEF UnsentInv
<1> QED BY <1>1, <1>2, <1>3, <1>4, HoldsOrigin

LEMMA UnsentRows ==
  ASSUME IInv, ManualCopies, SentIsOut, PostsKnown, UnsentInv, [Next]_vars,
         ~\E a \in Tasks : PublishOk(a),
         NEW j \in JobIds, db'[j] # None, db'[j].status \in {"pending", "failed"}
  PROVE  Unsent(db[j])' \/ \E h \in Handlers : InDispatch(h)' /\ Marking(h, j)'
<1>0. /\ \A a \in Tasks : InDispatch(a) => copy[a] \in Row
      /\ outcome \in [Tasks -> Outcomes] /\ now \in Int /\ stamp \in Int
      /\ db \in [JobIds -> Row \cup {None}] /\ TaskTypes /\ created \in Nat
  BY DEF IInv, TypeInv, TaskTypes, TableTypes, InHand, InDispatch
<1> SUFFICES ASSUME db'[j].command.schedule_type = "once", db'[j].gen \notin unheard' \cup overwritten'
             PROVE  \/ ~\E p \in posts' : p[1] = db'[j].gen
                    \/ \E h \in Handlers : InDispatch(h)' /\ Marking(h, j)'
  BY DEF Unsent, Out
<1> DEFINE Goal == \/ ~\E p \in posts' : p[1] = db'[j].gen
                   \/ \E h \in Handlers : InDispatch(h)' /\ Marking(h, j)'
<1>1. ASSUME NEW row, Unsent(row), row.gen = db'[j].gen, row.command = db'[j].command
      PROVE  Goal
  BY <1>1, UnsentKept
<1>2. CASE db'[j] = db[j]
  <2>1. CASE Unsent(db[j])
    BY <1>1, <1>2, <2>1
  <2>2. ASSUME NEW h \in Handlers, InDispatch(h), Marking(h, j)
        PROVE  Goal
    <3>0. h \in Tasks /\ h # Worker
      BY Tables
    <3>1. CASE Stays(h)
      BY <2>2, <3>1 DEF Stays, Marking, InDispatch
    <3>2. CASE ManualMark(h)
      <4>1. db'[j] = Sent(copy[h], now) /\ SameJob(copy[h], db'[j])
        BY <1>2, <2>2, <3>2, HistoryGrows, ManualMarkRow DEF Marking
      <4>2. copy[h] \in Row
        BY <1>0, <2>2, <3>0
      <4> QED BY <1>0, <4>1, <4>2, SentFields DEF SameJob
    <3>3. CASE Crash
      <4>1. copy[h].gen \in unheard'
        BY <2>2, <3>0, <3>3 DEF Crash, MaybePosted, Unrecorded, Marking
      <4>2. db[j].gen \notin overwritten
        BY <1>2, HistoryGrows
      <4>3. copy[h].gen = db[j].gen
        BY <2>2, <4>2, ManualCopyGen DEF Marking
      <4> QED BY <1>2, <4>1, <4>3
    <3> QED BY <2>2, <3>0, <3>1, <3>2, <3>3, SentFate DEF Marking
  <2> QED BY <1>2, <2>1, <2>2 DEF UnsentInv
<1>3. CASE Creates(j)
  <2>1. \A p \in posts : p[1] = created + 1 => p[1] \in overwritten
    BY <1>0 DEF PostsKnown
  <2>2. Unsent(db'[j])
    BY <1>3, <2>1 DEF Unsent, Out, Creates
  <2> QED BY <1>1, <2>2
<1>4. CASE MarksSent(j)
  <2>1. PICK a \in Tasks : InDispatch(a) /\ db'[j] = Sent(copy[a], now)
    BY <1>4 DEF MarksSent
  <2>2. db'[j].command = copy[a].command
    BY <1>0, <2>1, SentRow DEF SameJob
  <2> QED BY <1>0, <2>1, <2>2, SentFields
<1>5. CASE MarksFailed(j)
  <2>1. PICK a \in Tasks :
          /\ InDispatch(a)
          /\ outcome[a] # "sent"
          /\ \/ \E error \in Errors : db'[j] = Failed(copy[a], error, now)
             \/ db'[j] = PublishFailed(copy[a], outcome[a], now)
    BY <1>5 DEF MarksFailed
  <2>2. SameJob(copy[a], db'[j])
    BY <1>0, <2>1, FailedRow, PublishFailedRow
  <2>3. Unsent(copy[a])
    BY <2>1, UnsentInHand
  <2> QED BY <1>1, <2>2, <2>3 DEF SameJob
<1>6. CASE db[j] # None /\ Repairs(j)
  <2>1. SameJob(db[j], db'[j])
    BY <1>0, <1>6, RepairedRow DEF Repairs
  <2>2. ~\E h \in Handlers : InDispatch(h)
    BY <1>6, Tables DEF Repairs, IInv, ClaimInv, ManualHolds
  <2>3. Unsent(db[j])
    BY <1>6, <2>2 DEF Repairs, UnsentInv
  <2> QED BY <1>1, <2>1, <2>3 DEF SameJob
<1>7. ~Takes(j)
  BY DEF Takes
<1> QED BY <1>2, <1>3, <1>4, <1>5, <1>6, <1>7, RowSteps DEF RowStep

\* Two tasks never have the same job under dispatch, nor a task and the batch.
LEMMA HandsApart ==
  ASSUME IInv, ManualCopies, GenerationsApart, NEW a \in Tasks, InDispatch(a),
         copy[a].gen \notin overwritten
  PROVE  /\ \A h \in Handlers : InDispatch(h) /\ copy[h].gen = copy[a].gen => h = a
         /\ \A j \in JobIds : \A row \in WorkerHolds(j) :
              row # None /\ row.gen = copy[a].gen => a = Worker /\ j = job[a]
         /\ \A j \in JobIds : db[j] # None /\ db[j].gen = copy[a].gen => j = job[a]
<1>0. job[a] \in JobIds
  BY DEF IInv, TypeInv, TaskTypes, InHand, InDispatch
<1>1. PICK mine \in Shown(job[a]) : mine # None /\ mine.gen = copy[a].gen
  BY CopyShown
<1>2. ASSUME NEW j \in JobIds, NEW row \in Shown(j), row # None, row.gen = copy[a].gen
      PROVE  j = job[a]
  BY <1>0, <1>1, <1>2 DEF GenerationsApart
<1>3. ASSUME NEW j \in JobIds, NEW row \in WorkerHolds(j), row # None, row.gen = copy[a].gen
      PROVE  a = Worker /\ j = job[a]
  <2>1. j = job[a]
    BY <1>2, <1>3 DEF Shown
  <2>2. ASSUME a \in Handlers PROVE FALSE
    <3>1. db[j].gen # row.gen
      BY <1>3, <2>1, <2>2, ExclusiveFromInv DEF DispatchExclusive
    <3>2. db[j].gen = copy[a].gen
      BY <2>1, <2>2, ManualCopyGen
    <3> QED BY <1>3, <3>1, <3>2
  <2> QED BY <2>1, <2>2 DEF Tasks
<1>4. ASSUME NEW h \in Handlers, InDispatch(h), copy[h].gen = copy[a].gen
      PROVE  h = a
  <2>1. CASE a \in Handlers
    BY <1>4, <2>1, ExclusiveFromInv DEF DispatchExclusive
  <2>2. CASE a = Worker
    <3>1. h \in Tasks /\ job[h] \in JobIds
      BY <1>4, Tables DEF IInv, TypeInv, TaskTypes, InHand, InDispatch
    <3>2. db[job[h]].gen = copy[h].gen /\ db[job[h]] # None
      BY <1>4, ManualCopyGen DEF IInv, ClaimInv, ManualHolds
    <3>3. job[h] = job[a]
      BY <1>2, <1>4, <3>1, <3>2 DEF Shown
    <3>4. copy[a] \in WorkerHolds(job[a]) /\ copy[a] # None
      BY <2>2, RowAssumption DEF WorkerHolds, IInv, TypeInv, TaskTypes, InHand, InDispatch
    <3> QED BY <1>4, <3>2, <3>3, <3>4, ExclusiveFromInv DEF DispatchExclusive
  <2> QED BY <2>1, <2>2 DEF Tasks
<1> HIDE DEF WorkerHolds
<1> QED BY <1>2, <1>3, <1>4 DEF Shown

LEMMA UnsentPublished ==
  ASSUME IInv, ManualCopies, SentIsOut, GenerationsApart, UnsentInv,
         NEW a \in Tasks, PublishOk(a)
  PROVE  UnsentInv'
<1> DEFINE g == copy[a].gen
<1>0. TaskTypes /\ InDispatch(a)
  BY DEF IInv, TypeInv, PublishOk, Publishing, InDispatch, Dispatching
<1>1. /\ UNCHANGED <<db, job, copy, batch, unheard, overwritten>>
      /\ posts' = posts \cup {<<g, local_schedule_date(now)>>}
      /\ pc' = [pc EXCEPT ![a] = "mark"]
      /\ outcome' = [outcome EXCEPT ![a] = "sent"]
  BY DEF PublishOk, Posted, Ended, Goto
<1>2. /\ pc'[a] = "mark" /\ outcome'[a] = "sent"
      /\ \A b \in Tasks : b # a => pc'[b] = pc[b] /\ outcome'[b] = outcome[b]
  BY <1>0, <1>1 DEF TaskTypes
<1>3. \A b \in Tasks : InDispatch(b)' <=> InDispatch(b)
  BY <1>0, <1>2 DEF InDispatch, Dispatching
<1>4. \A j \in JobIds : WorkerHolds(j)' = WorkerHolds(j)
  <2>1. pc'[Worker] = "batch" <=> pc[Worker] = "batch"
    BY <1>0, <1>2, Tables DEF InDispatch, Dispatching
  <2> QED BY <1>1, <1>3, <2>1, Tables DEF WorkerHolds
<1>5. ASSUME NEW row, Unsent(row), row.gen # g \/ g \in unheard \cup overwritten
      PROVE  Unsent(row)'
  <2> SUFFICES ASSUME row.command.schedule_type = "once", row.gen \notin unheard \cup overwritten,
                      NEW p \in posts', p[1] = row.gen
               PROVE  FALSE
    BY <1>1 DEF Unsent, Out
  <2>1. p \in posts
    BY <1>1, <1>5
  <2> QED BY <1>5, <2>1 DEF Unsent, Out
<1>6. ASSUME NEW h \in Handlers, InDispatch(h)', outcome'[h] # "sent"
      PROVE  Unsent(copy[h])'
  <2>1. h # a /\ h \in Tasks /\ InDispatch(h) /\ outcome[h] # "sent"
    BY <1>2, <1>3, <1>6, Tables
  <2>2. copy[h].gen # g \/ g \in overwritten
    BY <1>0, <2>1, HandsApart
  <2>3. Unsent(copy[h])
    BY <2>1 DEF UnsentInv
  <2> QED BY <1>1, <1>5, <2>2, <2>3
<1>7. ASSUME NEW j \in JobIds, NEW row \in WorkerHolds(j)', row # None
      PROVE  Unsent(row)' \/ Marking(Worker, j)'
  <2>1. row \in WorkerHolds(j)
    BY <1>4, <1>7
  <2>2. CASE Marking(Worker, j)
    BY <1>1, <1>2, <2>2, Tables DEF Marking
  <2>3. CASE Unsent(row)
    <3>1. CASE row.gen # g \/ g \in overwritten
      BY <1>5, <2>3, <3>1
    <3>2. CASE row.gen = g /\ g \notin overwritten
      <4>1. a = Worker /\ j = job[a]
        BY <1>0, <1>7, <2>1, <3>2, HandsApart
      <4> QED BY <1>1, <1>2, <4>1 DEF Marking
    <3> QED BY <3>1, <3>2
  <2> QED BY <1>7, <2>1, <2>2, <2>3 DEF UnsentInv
<1>8. ASSUME NEW j \in JobIds, db'[j] # None, db'[j].status \in {"pending", "failed"}
      PROVE  Unsent(db[j])' \/ \E h \in Handlers : InDispatch(h)' /\ Marking(h, j)'
  <2>0. db'[j] = db[j]
    BY <1>1
  <2>1. ASSUME NEW h \in Handlers, InDispatch(h), Marking(h, j)
        PROVE  InDispatch(h)' /\ Marking(h, j)'
    BY <1>1, <1>2, <1>3, <2>1, Tables DEF Marking
  <2>2. CASE Unsent(db[j])
    <3>1. CASE db[j].gen # g \/ g \in overwritten
      <4>1. PICK row : row = db[j]
        OBVIOUS
      <4>2. Unsent(row)'
        BY <1>5, <2>2, <3>1, <4>1
      <4> QED BY <2>0, <4>1, <4>2 DEF Unsent, Out
    <3>2. CASE db[j].gen = g /\ g \notin overwritten
      <4>1. j = job[a]
        BY <1>0, <1>8, <2>0, <3>2, HandsApart
      <4>2. a \in Handlers
        <5> SUFFICES ASSUME a = Worker PROVE FALSE
          BY DEF Tasks
        <5>1. copy[a] \in WorkerHolds(j) /\ copy[a] # None
          BY <1>0, <4>1, RowAssumption DEF WorkerHolds, TaskTypes, InHand, InDispatch
        <5> QED BY <1>8, <2>0, <3>2, <5>1 DEF IInv, ClaimInv, ClaimStands
      <4> QED BY <1>0, <1>1, <1>2, <1>3, <4>1, <4>2, Tables DEF Marking
    <3> QED BY <3>1, <3>2
  <2> QED BY <1>8, <2>0, <2>1, <2>2 DEF UnsentInv
<1> QED
  <2>1. \A h \in Handlers : (InDispatch(h) /\ outcome[h] # "sent" => Unsent(copy[h]))'
    BY <1>1, <1>6 DEF Unsent, Out
  <2> QED BY <1>7, <1>8, <2>1 DEF UnsentInv

LEMMA UnsentStep ==
  ASSUME IInv, ManualCopies, SentIsOut, GenerationsApart, PostsKnown, UnsentInv, [Next]_vars
  PROVE  UnsentInv'
<1>1. CASE \E a \in Tasks : PublishOk(a)
  BY <1>1, UnsentPublished
<1>2. CASE ~\E a \in Tasks : PublishOk(a)
  <2>1. \A h \in Handlers : (InDispatch(h) /\ outcome[h] # "sent" => Unsent(copy[h]))'
    BY <1>2, UnsentHandlers
  <2>2. \A j \in JobIds : (\A row \in WorkerHolds(j) : row # None => Unsent(row) \/ Marking(Worker, j))'
    BY <1>2, UnsentWorker
  <2>3. \A j \in JobIds : (db[j] # None /\ db[j].status \in {"pending", "failed"}
          => Unsent(db[j]) \/ \E h \in Handlers : InDispatch(h) /\ Marking(h, j))'
    BY <1>2, UnsentRows
  <2> QED BY <2>1, <2>2, <2>3 DEF UnsentInv
<1> QED BY <1>1, <1>2

\* A second publication is of a task that is publishing.
LEMMA DuplicateOrigin ==
  ASSUME [Next]_vars, NEW d \in duplicates', d \notin duplicates, d[1] = "once"
  PROVE  \E a \in Tasks : /\ Publishing(a)
                          /\ d[2] = copy[a].gen
                          /\ copy[a].command.schedule_type = "once"
                          /\ Out(copy[a].gen)
                          /\ PublishOk(a) \/ copy[a].gen \in unheard'
<1> DEFINE Again(a) == /\ d[2] = copy[a].gen
                       /\ copy[a].command.schedule_type = "once"
                       /\ Out(copy[a].gen)
           From(a) == Publishing(a) /\ Again(a) /\ (PublishOk(a) \/ copy[a].gen \in unheard')
<1>1. ~UNCHANGED duplicates
  OBVIOUS
<1>2. ASSUME NEW a \in Tasks, Posted(a) PROVE Again(a)
  <2>1. d = <<copy[a].command.schedule_type, copy[a].gen>>
    BY <1>2 DEF Posted
  <2>2. copy[a].command.schedule_type = "once"
    BY <2>1
  <2> QED BY <1>2, <2>1, <2>2 DEF Posted, Out
<1> HIDE DEF Again
<1>3. ASSUME NEW a \in Tasks, Dispatch(a) PROVE From(a)
  <2>1. PublishOk(a) \/ PublishUnheard(a)
    BY <1>1, <1>3 DEF Dispatch, EnsureRoleReady, EnsureMedia, AcquireRole, PublishFails, MediaInvalid,
                      RebuildMedia, historyVars
  <2>2. Publishing(a) /\ Posted(a) /\ (PublishOk(a) \/ copy[a].gen \in unheard')
    BY <2>1 DEF PublishOk, PublishUnheard
  <2> QED BY <1>2, <2>2
<1>4. ASSUME NEW S \in SUBSET Tasks, MaybePosted(S) PROVE \E a \in Tasks : From(a)
  <2>1. PICK a \in S : Publishing(a) /\ Posted(a) /\ copy[a].gen \in unheard'
    BY <1>1, <1>4 DEF MaybePosted
  <2> QED BY <1>2, <2>1
<1>5. CASE Tick \/ UNCHANGED vars \/ (\E j \in JobIds, c \in Commands : CreateJob(j, c))
  BY <1>1, <1>5 DEF Tick, CreateJob, vars, historyVars
<1>6. ASSUME NEW h \in Handlers, HandlerStep(h) PROVE FALSE
  BY <1>1, <1>6 DEF HandlerStep, DeleteRead, ManualRead, DeleteCancel, DeletePurge, ManualClaim, HandlerRefused,
                    ManualMark, historyVars
<1>7. CASE WorkerStep
  <2>1. CycleTimeout
    BY <1>1, <1>7 DEF WorkerStep, RepairRead, RepairCommit, ClaimDueJobs, TakeJob, WorkerMark, WorkerFlushFails,
                      historyVars
  <2>2. MaybePosted({Worker}) /\ {Worker} \in SUBSET Tasks
    BY <2>1, Tables DEF CycleTimeout
  <2> HIDE DEF From
  <2>3. \E a \in Tasks : From(a)
    BY <1>4, <2>2
  <2> QED BY <2>3 DEF From, Again
<1>8. CASE Crash
  <2>1. MaybePosted(Tasks)
    BY <1>8 DEF Crash
  <2> HIDE DEF From
  <2>2. \E a \in Tasks : From(a)
    BY <1>4, <2>1
  <2> QED BY <2>2 DEF From, Again
<1> QED BY <1>3, <1>5, <1>6, <1>7, <1>8, StepOf DEF Again

LEMMA DuplicateExplainedStep ==
  ASSUME IInv, SentIsOut, UnsentInv, DuplicateExplained, [Next]_vars
  PROVE  DuplicateExplained'
<1> SUFFICES ASSUME NEW d \in duplicates', d[1] = "once"
             PROVE  d[2] \in unheard' \cup overwritten'
  BY DEF DuplicateExplained
<1>1. CASE d \in duplicates
  BY <1>1, HistoryGrows DEF DuplicateExplained
<1>2. CASE d \notin duplicates
  <2>1. PICK a \in Tasks : /\ Publishing(a)
                           /\ d[2] = copy[a].gen
                           /\ copy[a].command.schedule_type = "once"
                           /\ Out(copy[a].gen)
                           /\ PublishOk(a) \/ copy[a].gen \in unheard'
    BY <1>2, DuplicateOrigin
  <2>2. InDispatch(a) /\ outcome[a] # "sent"
    BY <2>1 DEF Publishing, InDispatch, Dispatching, SentIsOut
  <2>3. Unsent(copy[a])
    BY <2>2, UnsentInHand
  <2> QED BY <2>1, <2>3, HistoryGrows DEF Unsent
<1> QED BY <1>1, <1>2

-----------------------------------------------------------------------------
(* A cycle marks what it has claimed.                                      *)

\* The worker alone, so far without an interruption
Undisturbed == Handlers = {} /\ interrupts = 0

\* Then a row in PROCESSING is in the worker's hands, and what it has in hand
\* is still in the table.
CycleInv ==
    Undisturbed => \A j \in JobIds :
        /\ db[j] # None /\ db[j].status = "processing" => \E row \in WorkerHolds(j) : row # None
        /\ \A row \in WorkerHolds(j) : row # None => db[j] # None

LEMMA CycleInvInit == Init => CycleInv
BY Tables DEF Init, CycleInv, WorkerHolds, InDispatch, Dispatching

LEMMA CycleInvMarksAll == CycleInv => CycleMarksAll
BY DEF CycleInv, CycleMarksAll, Undisturbed, WorkerHolds, InDispatch, Dispatching

LEMMA CycleInvStep ==
  ASSUME IInv, CycleInv, [Next]_vars
  PROVE  CycleInv'
<1> SUFFICES ASSUME Undisturbed'
             PROVE  \A j \in JobIds :
                       /\ db'[j] # None /\ db'[j].status = "processing" => \E row \in WorkerHolds(j)' : row # None
                       /\ \A row \in WorkerHolds(j)' : row # None => db'[j] # None
  BY DEF CycleInv
<1>0. /\ TaskTypes /\ now \in Int /\ stamp \in Int /\ interrupts \in Nat
      /\ db \in [JobIds -> Row \cup {None}] /\ batch \in [JobIds -> Row \cup {None}]
      /\ writer \in {None, Worker} /\ Tasks = {Worker}
  BY DEF IInv, TypeInv, TableTypes, Undisturbed, Tasks
<1>1. ~Crash /\ ~CycleTimeout
  BY <1>0 DEF Crash, CycleTimeout, Undisturbed
<1>2. ~\E h \in Handlers : HandlerStep(h)
  BY DEF Undisturbed
<1>3. Undisturbed
  <2>1. interrupts' = interrupts
    <3>1. CASE Tick \/ UNCHANGED vars \/ (\E i \in JobIds, c \in Commands : CreateJob(i, c))
      BY <3>1 DEF Tick, CreateJob, vars
    <3>2. ASSUME NEW a \in Tasks, Dispatch(a) PROVE interrupts' = interrupts
      BY <3>2 DEF Dispatch, EnsureRoleReady, EnsureMedia, AcquireRole, PublishOk, PublishUnheard, PublishFails,
                  MediaInvalid, RebuildMedia
    <3>3. CASE WorkerStep
      BY <1>1, <3>3 DEF WorkerStep, RepairRead, RepairCommit, ClaimDueJobs, TakeJob, WorkerMark, WorkerFlushFails
    <3> QED BY <1>1, <1>2, <3>1, <3>2, <3>3, StepOf
  <2> QED BY <2>1 DEF Undisturbed
<1>4. \A j \in JobIds :
        /\ db[j] # None /\ db[j].status = "processing" => \E row \in WorkerHolds(j) : row # None
        /\ \A row \in WorkerHolds(j) : row # None => db[j] # None
  BY <1>3 DEF CycleInv
<1>5. CASE UNCHANGED db /\ \A j \in JobIds : WorkerHolds(j)' = WorkerHolds(j)
  BY <1>4, <1>5
<1>6. CASE Tick \/ UNCHANGED vars
  BY <1>5, <1>6 DEF Tick, vars, taskVars, WorkerHolds, InDispatch
<1>7. ASSUME NEW i \in JobIds, NEW c \in Commands, CreateJob(i, c)
      PROVE  \A j \in JobIds :
               /\ db'[j] # None /\ db'[j].status = "processing" => \E row \in WorkerHolds(j)' : row # None
               /\ \A row \in WorkerHolds(j)' : row # None => db'[j] # None
  <2>1. \A j \in JobIds : WorkerHolds(j)' = WorkerHolds(j)
    BY <1>7 DEF CreateJob, taskVars, WorkerHolds, InDispatch
  <2>2. /\ \A j \in JobIds : j # i => db'[j] = db[j]
        /\ db[i] = None /\ db'[i].status = "pending"
    BY <1>0, <1>7 DEF CreateJob, JobIds
  <2> HIDE DEF WorkerHolds
  <2> QED BY <1>4, <2>1, <2>2
<1>8. CASE Dispatch(Worker)
  <2>1. UNCHANGED <<db, batch, job, copy>> /\ InDispatch(Worker) /\ InDispatch(Worker)'
    BY <1>0, <1>8, DispatchLeaves
  <2> QED BY <1>5, <2>1 DEF WorkerHolds
<1>9. CASE RepairRead
  <2>1. UNCHANGED db /\ pc[Worker] = "idle" /\ pc'[Worker] = "repair"
    BY <1>0, <1>9 DEF RepairRead, Goto, TaskTypes
  <2> QED BY <1>4, <2>1 DEF WorkerHolds, InDispatch, Dispatching
<1>10. CASE RepairCommit
  <2>1. pc[Worker] = "repair" /\ pc'[Worker] = "idle"
    BY <1>0, <1>10 DEF RepairCommit, Goto, TaskTypes
  <2>2. \A j \in JobIds : db[j] # None => db[j].status # "processing"
    BY <1>4, <2>1 DEF WorkerHolds, InDispatch, Dispatching
  <2>3. ASSUME NEW j \in JobIds, db'[j] # None PROVE db'[j].status # "processing"
    <3>1. CASE j \notin RepairWrites
      BY <1>10, <2>2, <2>3, <3>1 DEF RepairCommit
    <3>2. CASE j \in RepairWrites
      <4>1. /\ db[j] \in Row /\ db[j] # None /\ batch[j] \in Row
            /\ db'[j] = Flush(db[j], batch[j], Repaired(batch[j], stamp))
        BY <1>0, <1>10, <3>2 DEF RepairCommit, RepairWrites
      <4>2. Repaired(batch[j], stamp) \in Row /\ Repaired(batch[j], stamp).status \in {"failed", "pending"}
        BY <1>0, <4>1, RepairedRow DEF SameJob
      <4> QED BY <2>2, <4>1, <4>2, FlushedRow DEF Dirty
    <3> QED BY <3>1, <3>2
  <2> QED BY <2>1, <2>3 DEF WorkerHolds, InDispatch, Dispatching
<1>11. CASE ClaimDueJobs
  <2>1. /\ pc[Worker] = "idle" /\ pc'[Worker] = "batch"
        /\ db' = [j \in JobIds |-> IF j \in DueBatch THEN Claimed(db[j], now) ELSE db[j]]
        /\ batch' = [j \in JobIds |-> IF j \in DueBatch THEN Claimed(db[j], now) ELSE None]
    BY <1>0, <1>11 DEF ClaimDueJobs, Goto, TaskTypes
  <2>2. \A j \in JobIds : db[j] # None => db[j].status # "processing"
    BY <1>4, <2>1 DEF WorkerHolds, InDispatch, Dispatching
  <2>3. \A j \in DueBatch : Claimed(db[j], now) # None
    BY <1>0, ClaimedRow, RowAssumption DEF DueBatch, Due, SameJob
  <2>4. \A j \in JobIds : WorkerHolds(j)' = {batch'[j]}
    BY <2>1 DEF WorkerHolds, InDispatch, Dispatching
  <2> HIDE DEF WorkerHolds
  <2> QED BY <2>1, <2>2, <2>3, <2>4
<1>12. ASSUME NEW i \in JobIds, TakeJob(i)
       PROVE  \A j \in JobIds :
               /\ db'[j] # None /\ db'[j].status = "processing" => \E row \in WorkerHolds(j)' : row # None
               /\ \A row \in WorkerHolds(j)' : row # None => db'[j] # None
  <2>1. /\ pc[Worker] = "batch" /\ pc'[Worker] = "ensure" /\ job'[Worker] = i /\ copy'[Worker] = batch[i]
        /\ batch' = [batch EXCEPT ![i] = None] /\ UNCHANGED db /\ batch[i] # None
    BY <1>0, <1>12 DEF TakeJob, Load, Goto, TaskTypes
  <2>2. \A j \in JobIds : WorkerHolds(j) = {batch[j]}
    BY <2>1 DEF WorkerHolds, InDispatch, Dispatching
  <2>3. \A j \in JobIds : WorkerHolds(j)' = IF j = i THEN {None, batch[i]} ELSE {batch[j]}
    BY <1>0, <2>1 DEF WorkerHolds, InDispatch, Dispatching
  <2> HIDE DEF WorkerHolds
  <2> QED BY <1>4, <2>1, <2>2, <2>3
<1>13. CASE WorkerMark
  <2> DEFINE i == job[Worker]
             row == copy[Worker]
             marked == IF outcome[Worker] = "sent" THEN Sent(row, now)
                       ELSE PublishFailed(row, outcome[Worker], now)
             new == Flush(db[i], row, marked)
  <2>1. /\ InDispatch(Worker) /\ i \in JobIds /\ row \in Row /\ db[i] \in Row /\ db[i] # None
        /\ db' = [db EXCEPT ![i] = new] /\ UNCHANGED batch /\ outcome[Worker] \in Outcomes
        /\ Release(Worker, IF batch = NoBatch THEN "idle" ELSE "batch")
    BY <1>0, <1>13 DEF WorkerMark, InDispatch, Dispatching, TaskTypes, InHand
  <2>2. marked \in Row /\ marked.status # "processing" /\ row.status = "processing"
    BY <1>0, <2>1, SentRow, PublishFailedRow DEF SameJob, IInv, LockInv, CopiesLocked
  <2> HIDE DEF marked
  <2>3. new \in Row /\ new # None /\ new.status # "processing"
    BY <2>1, <2>2, FlushedRow, RowAssumption DEF SameJob, Dirty
  <2>4. /\ \A j \in JobIds : j # i => db'[j] = db[j]
        /\ db'[i] = new
    BY <1>0, <2>1
  <2> HIDE DEF new
  <2>5. \A j \in JobIds : j # i => WorkerHolds(j) = {batch[j]}
    BY <2>1 DEF WorkerHolds
  <2>6. \/ batch = NoBatch /\ \A j \in JobIds : WorkerHolds(j)' = {}
        \/ \A j \in JobIds : WorkerHolds(j)' = {batch[j]}
    BY <1>0, <2>1, ReleaseLeaves DEF WorkerHolds, InDispatch, Dispatching
  <2>7. batch = NoBatch => \A j \in JobIds : batch[j] = None
    BY DEF NoBatch
  <2> HIDE DEF WorkerHolds
  <2> QED BY <1>4, <2>3, <2>4, <2>5, <2>6, <2>7
<1>14. CASE WorkerFlushFails
  <2>1. pc[Worker] = "repair"
    <3> SUFFICES ASSUME InDispatch(Worker), db[job[Worker]] = None PROVE FALSE
      BY <1>0, <1>14 DEF WorkerFlushFails, CanWrite, InDispatch, Dispatching
    <3>1. job[Worker] \in JobIds /\ copy[Worker] \in WorkerHolds(job[Worker]) /\ copy[Worker] # None
      BY <1>0, RowAssumption DEF WorkerHolds, TaskTypes, InHand, InDispatch
    <3> QED BY <1>4, <3>1
  <2>2. UNCHANGED db /\ pc'[Worker] = "idle"
    BY <1>0, <1>14, ReleaseLeaves DEF WorkerFlushFails, EndCycle
  <2> QED BY <1>4, <2>1, <2>2 DEF WorkerHolds, InDispatch, Dispatching
<1> QED
  BY <1>0, <1>1, <1>2, <1>6, <1>7, <1>8, <1>9, <1>10, <1>11, <1>12, <1>13, <1>14, StepOf DEF WorkerStep

-----------------------------------------------------------------------------
(* The theorems.                                                           *)

\* What the proofs add to IInv, whatever the zone
OutcomeInv == ManualCopies /\ SentIsOut /\ GenerationsApart /\ PostsKnown /\ UnsentInv /\ CycleInv

\* The strengthened invariant holds in every state.
THEOREM OutcomeInvariance == Spec => []OutcomeInv
<1>1. Init => OutcomeInv
  <2>1. Init => SentIsOut
    BY DEF Init, SentIsOut
  <2> QED BY <2>1, ManualCopiesInit, GenerationsInit, UnsentInit, CycleInvInit DEF OutcomeInv
<1>2. IInv /\ OutcomeInv /\ [Next]_vars => OutcomeInv'
  BY ManualCopiesStep, SentIsOutStep, GenerationsApartStep, PostsKnownStep, UnsentStep, CycleInvStep
  DEF OutcomeInv
<1> QED BY <1>1, <1>2, Invariance, PTL DEF Spec

\* A job shown as sent was published, whatever the interleaving of the worker
\* with manual sends, deletes and interruptions (mark_sent), unless a stale
\* copy was flushed over its row.
THEOREM SentMeansPublished == Spec => []SentWasPublished
<1>1. Init => SentWasPublished
  BY DEF Init, SentWasPublished
<1>2. IInv /\ OutcomeInv /\ SentWasPublished /\ [Next]_vars => SentWasPublished'
  BY SentWasPublishedStep DEF OutcomeInv
<1> QED BY <1>1, <1>2, Invariance, OutcomeInvariance, PTL DEF Spec

\* The automatic retry of a one-time job stays within its local day, for every
\* base and maximal delay, flood wait and offset of the zone
\* (plan_transient_retry).
THEOREM RetriesKeepDay == Spec => []RetryWithinDay
<1>1. Init => RetryWithinDay
  BY DEF Init, RetryWithinDay
<1>2. IInv /\ OutcomeInv /\ RetryWithinDay /\ [Next]_vars => RetryWithinDay'
  BY RetryWithinDayStep DEF OutcomeInv
<1> QED BY <1>1, <1>2, Invariance, OutcomeInvariance, PTL DEF Spec

\* A failed weekly job rolls forward to a selected weekday that is not the day
\* of its last publication (mark_failed), in any zone whose clocks do not change
\* across midnight.
THEOREM FailedWeekliesRoll ==
  ASSUME OrdinaryZone
  PROVE  Spec => []WeeklyRollsForward
<1>1. Init => LastSentPast /\ WeeklyRollsForward
  BY Tables DEF Init, LastSentPast, WeeklyRollsForward
<1>2. IInv /\ OutcomeInv /\ LastSentPast /\ WeeklyRollsForward /\ [Next]_vars
      => LastSentPast' /\ WeeklyRollsForward'
  BY LastSentPastStep, WeeklyRollsForwardStep DEF OutcomeInv
<1> QED BY <1>1, <1>2, Invariance, OutcomeInvariance, PTL DEF Spec

\* A one-time story is published again only when a publication went unheard or
\* its row was overwritten, for any number of handlers and of interruptions
\* (claim_due_jobs, claim_for_dispatch, repair_recoverable_failed_jobs).
THEOREM DuplicatesHaveCauses == Spec => []DuplicateExplained
<1>1. Init => DuplicateExplained
  BY DEF Init, DuplicateExplained
<1>2. IInv /\ OutcomeInv /\ DuplicateExplained /\ [Next]_vars => DuplicateExplained'
  BY DuplicateExplainedStep DEF OutcomeInv
<1> QED BY <1>1, <1>2, Invariance, OutcomeInvariance, PTL DEF Spec

\* A cycle that nobody disturbs leaves no row of its batch in PROCESSING,
\* however its attempts end (the loop of run_once).
THEOREM CyclesMarkAll == Spec => []CycleMarksAll
<1>1. OutcomeInv => CycleMarksAll
  BY CycleInvMarksAll DEF OutcomeInv
<1> QED BY <1>1, OutcomeInvariance, PTL

-----------------------------------------------------------------------------
(* The worker's copies.                                                    *)

\* What the worker has claimed is the row of the table, or stale.
WorkerCopies ==
    \A j \in JobIds : \A row \in WorkerHolds(j) : row # None /\ row.gen \notin overwritten => db[j] = row

LEMMA WorkerCopiesInit == Init => WorkerCopies
BY Tables DEF Init, WorkerCopies, WorkerHolds, InDispatch, Dispatching

LEMMA HeldTypes ==
  ASSUME IInv, NEW j \in JobIds, NEW row \in WorkerHolds(j), row # None
  PROVE  row \in Row /\ row.status = "processing"
<1>1. (pc[Worker] = "batch" \/ InDispatch(Worker)) /\ row \in {batch[j], copy[Worker]}
      /\ (row # batch[j] => InDispatch(Worker))
  BY DEF WorkerHolds
<1> QED BY <1>1, Tables DEF IInv, TypeInv, TaskTypes, TableTypes, InHand, InDispatch, LockInv, CopiesLocked

\* Nobody but the worker's mark changes a row that the worker has claimed.
LEMMA ClaimedRowKept ==
  ASSUME IInv, [Next]_vars, NEW j \in JobIds, db[j] \in WorkerHolds(j), db[j] # None,
         db[j].gen \notin overwritten', ~(WorkerMark /\ job[Worker] = j)
  PROVE  db'[j] = db[j]
<1>0. /\ db \in [JobIds -> Row \cup {None}] /\ TaskTypes /\ db[j].status = "processing"
      /\ pc[Worker] = "batch" \/ InDispatch(Worker)
  <2>1. pc[Worker] = "batch" \/ InDispatch(Worker)
    BY DEF WorkerHolds
  <2> QED BY <2>1, HeldTypes DEF IInv, TypeInv, TableTypes
<1>1. CASE Tick \/ UNCHANGED vars \/ Crash
  BY <1>1 DEF Tick, vars, Crash
<1>2. ASSUME NEW i \in JobIds, NEW c \in Commands, CreateJob(i, c) PROVE db'[j] = db[j]
  BY <1>0, <1>2 DEF CreateJob, JobIds
<1>3. ASSUME NEW h \in Handlers, HandlerStep(h) PROVE db'[j] = db[j]
  <2>0. h \in Tasks
    BY Tables
  <2>1. CASE DeleteCancel(h) \/ DeletePurge(h)
    <3>1. copy[h].status # "processing" /\ job[h] \in JobIds
      BY <1>0, <2>0, <2>1 DEF DeleteCancel, DeletePurge, TaskTypes, InHand
    <3>2. job[h] = j => Stale(db[j], copy[h]) \subseteq overwritten'
      BY <2>1 DEF DeleteCancel, DeletePurge
    <3>3. job[h] # j
      BY <1>0, <3>1, <3>2 DEF Stale
    <3> QED BY <1>0, <2>1, <3>3 DEF DeleteCancel, DeletePurge
  <2>2. CASE ManualMark(h)
    <3>1. job[h] # j
      BY <1>0, <2>2 DEF ManualMark, InDispatch, Dispatching, IInv, ClaimInv, ManualHolds
    <3> QED BY <1>0, <2>2, <3>1 DEF ManualMark
  <2> QED BY <1>3, <2>1, <2>2 DEF HandlerStep, DeleteRead, ManualRead, ManualClaim, HandlerRefused
<1>4. ASSUME NEW a \in Tasks, Dispatch(a) PROVE db'[j] = db[j]
  BY <1>0, <1>4, DispatchLeaves
<1>5. CASE WorkerStep
  <2>1. ~RepairCommit /\ ~ClaimDueJobs
    BY <1>0 DEF RepairCommit, ClaimDueJobs, InDispatch, Dispatching
  <2>2. CASE WorkerMark
    BY <1>0, <2>2 DEF WorkerMark
  <2> QED BY <1>5, <2>1, <2>2 DEF WorkerStep, RepairRead, TakeJob, WorkerFlushFails, CycleTimeout, EndCycle
<1> QED BY <1>1, <1>2, <1>3, <1>4, <1>5, StepOf

LEMMA WorkerCopiesStep ==
  ASSUME IInv, WorkerCopies, [Next]_vars
  PROVE  WorkerCopies'
<1> SUFFICES ASSUME NEW j \in JobIds, NEW row \in WorkerHolds(j)', row # None, row.gen \notin overwritten'
             PROVE  db'[j] = row
  BY DEF WorkerCopies
<1>0. Worker \in Tasks /\ TaskTypes
  BY Tables DEF IInv, TypeInv
<1>1. CASE row \in WorkerHolds(j)
  <2>1. db[j] = row
    BY <1>1, HistoryGrows DEF WorkerCopies
  <2>2. ~(WorkerMark /\ job[Worker] = j)
    <3> SUFFICES ASSUME WorkerMark, job[Worker] = j PROVE FALSE
      OBVIOUS
    <3>1. pc'[Worker] \in {"idle", "batch"} /\ UNCHANGED batch /\ InDispatch(Worker)
      BY <1>0, ReleaseLeaves DEF WorkerMark, InDispatch, Dispatching
    <3>2. row = batch[j]
      BY <3>1 DEF WorkerHolds, InDispatch, Dispatching
    <3> QED BY <3>1, <3>2 DEF IInv, ClaimInv, OneInHand
  <2> QED BY <1>1, <2>1, <2>2, ClaimedRowKept
<1>2. CASE ClaimDueJobs
  <2>1. /\ pc'[Worker] = "batch"
        /\ db' = [i \in JobIds |-> IF i \in DueBatch THEN Claimed(db[i], now) ELSE db[i]]
        /\ batch' = [i \in JobIds |-> IF i \in DueBatch THEN Claimed(db[i], now) ELSE None]
    BY <1>0, <1>2 DEF ClaimDueJobs, Goto, TaskTypes
  <2>2. row = batch'[j]
    BY <2>1 DEF WorkerHolds, InDispatch, Dispatching
  <2> QED BY <2>1, <2>2
<1> QED BY <1>1, <1>2, HoldsOrigin

-----------------------------------------------------------------------------
(* A weekly story goes out once on a local day.                            *)

\* Every story that is out went out by now.
PostsPast == \A p \in posts : p[2] <= local_schedule_date(now)

\* The last publication that the row knows of is that of the date or a later one.
KnowsOf(row, date) == row.last_sent_date # None /\ date <= row.last_sent_date

\* Task a has published the row of id j and is about to mark it.
AboutToMark(a, j) == InDispatch(a) /\ Marking(a, j) /\ copy[a].gen = db[j].gen

\* A publication that was heard of is in its row, or on its way there.
PostsRecorded ==
    \A j \in JobIds : db[j] # None /\ db[j].gen \notin unheard \cup overwritten =>
        \A p \in posts : p[1] = db[j].gen =>
            KnowsOf(db[j], p[2]) \/ \E a \in Tasks : AboutToMark(a, j)

\* The row of a weekly job that awaits or has a scheduled attempt, no retry and
\* no attempt of the repair
Scheduled(row) ==
    /\ row.command.schedule_type = "weekly"
    /\ row.status \in {"pending", "failed", "processing"}
    /\ row.retry_count = 0
    /\ row.last_error # "recovered"

\* The scheduled attempt of a weekly job is on a later day than its last publication.
RunsLater(row) ==
    Scheduled(row) /\ row.last_sent_date # None =>
        /\ row.next_run_at # None
        /\ local_schedule_date(row.next_run_at) > row.last_sent_date

ScheduledLater == \A j \in JobIds : db[j] # None /\ db[j].gen \notin overwritten => RunsLater(db[j])

\* What was claimed was due.
ClaimedDue ==
    \A j \in JobIds : db[j] # None /\ db[j].gen \notin overwritten /\ db[j].status = "processing"
        => db[j].next_run_at # None /\ db[j].next_run_at <= now

DayInv == LastSentPast /\ PostsPast /\ PostsRecorded /\ ScheduledLater /\ ClaimedDue

LEMMA PostsPastStep ==
  ASSUME OrdinaryZone, IInv, PostsPast, [Next]_vars
  PROVE  PostsPast'
<1> SUFFICES ASSUME NEW p \in posts' PROVE p[2] <= local_schedule_date(now')
  BY DEF PostsPast, local_schedule_date, localize_utc_naive, UtcOffset
<1>1. now \in Int /\ now' \in Int /\ now <= now'
  BY TimeGrows
<1>2. /\ local_schedule_date(now) <= local_schedule_date(now')
      /\ local_schedule_date(now) \in Int /\ local_schedule_date(now') \in Int
  BY <1>1, DatesGrow, ClockTypes
<1>3. p \in posts => p[2] \in Int
  BY DEF IInv, TypeInv, HistoryTypes
<1>4. CASE p \in posts
  BY <1>2, <1>3, <1>4 DEF PostsPast
<1>5. CASE p \notin posts
  BY <1>2, <1>5, OutOrigin
<1> QED BY <1>4, <1>5

\* What becomes of a publication that is about to be marked: the task goes on
\* with it, the row has it, or it goes unheard.
LEMMA MarkingFate ==
  ASSUME IInv, ManualCopies, SentIsOut, [Next]_vars, NEW j \in JobIds, NEW a \in Tasks,
         db[j] # None, AboutToMark(a, j), db[j].gen \notin unheard' \cup overwritten'
  PROVE  \/ Stays(a)
         \/ db'[j].last_sent_date = local_schedule_date(now)
<1>0. /\ TaskTypes /\ copy[a] \in Row /\ job[a] = j /\ outcome[a] = "sent" /\ InDispatch(a)
      /\ now \in Int /\ db \in [JobIds -> Row \cup {None}] /\ copy[a].gen = db[j].gen
  BY DEF AboutToMark, Marking, IInv, TypeInv, TaskTypes, TableTypes, InHand, InDispatch
<1>1. CASE a \in Handlers /\ ManualMark(a)
  <2>1. db'[j] = Sent(copy[a], now)
    BY <1>0, <1>1, HistoryGrows, ManualMarkRow
  <2> QED BY <1>0, <2>1, SentFields
<1>2. CASE Crash
  BY <1>0, <1>2 DEF Crash, MaybePosted, Unrecorded
<1>3. CASE a = Worker /\ (pc'[a] = "idle" \/ pc'[a] = "batch")
  <2>0. pc[Worker] = "mark"
    BY <1>0, <1>3 DEF SentIsOut
  <2>1. CASE WorkerMark
    <3>1. /\ db' = [db EXCEPT ![j] = Flush(@, copy[a], Sent(copy[a], now))]
          /\ Stale(db[j], copy[a]) \subseteq overwritten'
      BY <1>0, <1>3, <2>1 DEF WorkerMark
    <3>2. db[j] = copy[a]
      BY <1>0, <3>1 DEF Stale
    <3>3. SameJob(copy[a], Sent(copy[a], now))
      BY <1>0, SentRow
    <3>4. db'[j] = Sent(copy[a], now)
      BY <1>0, <3>1, <3>2, <3>3, FlushOfCopy
    <3> QED BY <1>0, <3>4, SentFields
  <2>2. CASE WorkerFlushFails \/ CycleTimeout
    BY <1>0, <1>3, <2>2 DEF WorkerFlushFails, CycleTimeout, MaybePosted, Unrecorded
  <2>3. CASE RepairRead \/ RepairCommit \/ ClaimDueJobs \/ (\E i \in JobIds : TakeJob(i))
    BY <2>0, <2>3 DEF RepairRead, RepairCommit, ClaimDueJobs, TakeJob
  <2>4. CASE ~WorkerStep /\ ~Crash
    <3>1. Stays(Worker)
      <4>1. ~Dispatch(Worker)
        BY <1>0, <2>0, DispatchLeaves, Tables
      <4>2. CASE Tick \/ UNCHANGED vars \/ (\E i \in JobIds, c \in Commands : CreateJob(i, c))
        BY <4>2 DEF Tick, CreateJob, vars, taskVars, Stays
      <4> QED BY <1>0, <2>4, <4>1, <4>2, StepOf, HandlerLeaves, DispatchLeaves, Tables
    <3> QED BY <1>3, <3>1
  <2> QED BY <1>2, <2>1, <2>2, <2>3, <2>4 DEF WorkerStep
<1> QED BY <1>0, <1>1, <1>2, <1>3, SentFate

LEMMA PostsRecordedStep ==
  ASSUME OrdinaryZone, IInv, OutcomeInv, PostsPast, PostsRecorded, [Next]_vars
  PROVE  PostsRecorded'
<1> USE DEF OutcomeInv
<1> SUFFICES ASSUME NEW j \in JobIds, db'[j] # None, db'[j].gen \notin unheard' \cup overwritten',
                    NEW p \in posts', p[1] = db'[j].gen
             PROVE  KnowsOf(db'[j], p[2]) \/ \E a \in Tasks : AboutToMark(a, j)'
  BY DEF PostsRecorded, KnowsOf
<1>0. now \in Int /\ local_schedule_date(now) \in Int /\ db \in [JobIds -> Row \cup {None}] /\ created \in Int
      /\ TaskTypes
  BY ClockTypes DEF IInv, TypeInv, TableTypes
<1>1. CASE p \notin posts
  <2>1. PICK a \in Tasks : Publishing(a) /\ p[1] = copy[a].gen /\ PublishOk(a)
    BY <1>1, OutOrigin
  <2>2. /\ InDispatch(a) /\ UNCHANGED <<db, job, copy>>
        /\ pc'[a] = "mark" /\ outcome'[a] = "sent"
    BY <1>0, <2>1 DEF PublishOk, Ended, Goto, TaskTypes, InDispatch, Dispatching, Publishing
  <2>3. job[a] = j
    BY <2>1, <2>2, HistoryGrows, HandsApart
  <2>4. AboutToMark(a, j)'
    BY <2>1, <2>2, <2>3 DEF AboutToMark, Marking, InDispatch, Dispatching
  <2> QED BY <2>4
<1>2. CASE p \in posts
  <2>1. RowStep(j) /\ ~Creates(j)
    <3>1. RowStep(j)
      BY RowSteps
    <3>2. p[1] \in Int /\ p[1] <= created
      BY <1>2, HistoryGrows DEF PostsKnown, IInv, TypeInv, HistoryTypes, Generations
    <3> QED BY <1>0, <3>1, <3>2 DEF Creates
  <2>2. /\ db[j] # None /\ db'[j].gen = db[j].gen
        /\ db'[j].last_sent_date \in {db[j].last_sent_date, local_schedule_date(now)}
    BY <2>1, LastSentMoves
  <2>3. p[2] \in Int /\ p[2] <= local_schedule_date(now)
    BY <1>2 DEF PostsPast, IInv, TypeInv, HistoryTypes
  <2>4. CASE db'[j].last_sent_date = local_schedule_date(now)
    BY <1>0, <2>3, <2>4, NoneAssumption DEF KnowsOf
  <2>5. CASE KnowsOf(db[j], p[2]) /\ db'[j].last_sent_date = db[j].last_sent_date
    BY <2>5 DEF KnowsOf
  <2>6. ASSUME NEW a \in Tasks, AboutToMark(a, j), Stays(a)
        PROVE  AboutToMark(a, j)'
    BY <2>2, <2>6 DEF AboutToMark, Marking, Stays, InDispatch
  <2>7. ASSUME NEW a \in Tasks, AboutToMark(a, j)
        PROVE  Stays(a) \/ db'[j].last_sent_date = local_schedule_date(now)
    BY <2>2, <2>7, MarkingFate
  <2> QED BY <1>2, <2>2, <2>4, <2>5, <2>6, <2>7, HistoryGrows DEF PostsRecorded
<1> QED BY <1>1, <1>2

LEMMA ScheduledLaterStep ==
  ASSUME OrdinaryZone, IInv, ManualCopies, LastSentPast, ScheduledLater, [Next]_vars
  PROVE  ScheduledLater'
<1> SUFFICES ASSUME NEW j \in JobIds, db'[j] # None, db'[j].gen \notin overwritten',
                    Scheduled(db'[j]), db'[j].last_sent_date # None
             PROVE  /\ db'[j].next_run_at # None
                    /\ local_schedule_date(db'[j].next_run_at) > db'[j].last_sent_date
  BY DEF ScheduledLater, RunsLater, Scheduled, local_schedule_date, localize_utc_naive, UtcOffset
<1>0. /\ \A a \in Tasks : InDispatch(a) => copy[a] \in Row
      /\ outcome \in [Tasks -> Outcomes] /\ stamp \in Int /\ now \in Int
      /\ db \in [JobIds -> Row \cup {None}]
  BY DEF IInv, TypeInv, TaskTypes, TableTypes, InHand, InDispatch
<1>1. RowStep(j) /\ ~Creates(j)
  BY RowSteps DEF Creates
<1>2. db[j] # None /\ db'[j].gen = db[j].gen /\ db[j].gen \notin overwritten
  BY <1>1, LastSentMoves, HistoryGrows
<1>3. CASE db'[j] = db[j]
  BY <1>2, <1>3 DEF ScheduledLater, RunsLater
<1>4. CASE Takes(j)
  <2>1. Due(j) /\ db'[j] = Claimed(db[j], now) /\ db[j] \in Row
    BY <1>0, <1>2, <1>4 DEF Takes, Scheduled
  <2>2. /\ db'[j].command = db[j].command /\ db'[j].retry_count = db[j].retry_count
        /\ db'[j].last_error = db[j].last_error /\ db'[j].next_run_at = db[j].next_run_at
        /\ db'[j].last_sent_date = db[j].last_sent_date
    BY <2>1 DEF Claimed, Row
  <2> QED BY <1>2, <2>1, <2>2 DEF ScheduledLater, RunsLater, Scheduled, Due, Claimable
<1>5. CASE MarksSent(j)
  <2>1. PICK a \in Tasks : copy[a] \in Row /\ db'[j] = Sent(copy[a], now)
    BY <1>0, <1>5 DEF MarksSent
  <2>2. copy[a].command \in Commands /\ copy[a].command.schedule_type = "weekly"
    BY <1>0, <2>1, SentRow, RowFields DEF SameJob, Scheduled
  <2>3. local_schedule_date(now) \in Int
    BY <1>0, ClockTypes
  <2> DEFINE new == Sent(copy[a], now)
  <2>5. /\ new.next_run_at = compute_next_run_at(copy[a].command, now + 1, local_schedule_date(now))
        /\ new.last_sent_date = local_schedule_date(now)
    BY <1>0, <2>1, <2>2, SentFields
  <2>4. \A last \in Int \cup {None} : (last # None => last <= local_schedule_date(now)) =>
          LET next == compute_next_run_at(copy[a].command, now + 1, last)
          IN  next \in Int /\ (last # None => local_schedule_date(next) > last)
    BY <1>0, <2>2, NextRolls
  <2> HIDE DEF new
  <2> QED BY <2>1, <2>3, <2>4, <2>5, NoneAssumption DEF new
<1>6. CASE MarksFailed(j)
  <2>1. PICK a \in Tasks :
          /\ copy[a] \in Row /\ Alike(copy[a], db[j]) /\ outcome[a] \in Outcomes
          /\ \/ \E error \in Errors : db'[j] = Failed(copy[a], error, now)
             \/ db'[j] = PublishFailed(copy[a], outcome[a], now)
    BY <1>0, <1>6 DEF MarksFailed
  <2>2. PICK error \in Errors : db'[j] = Failed(copy[a], error, now)
    BY <1>0, <2>1, PublishFailedForms DEF Scheduled
  <2>3. copy[a].command.schedule_type = "weekly"
    BY <1>0, <2>1, <2>2, FailedRow DEF SameJob, Scheduled
  <2>4. SentBy(copy[a], now)
    BY <1>2, <2>1 DEF LastSentPast, SentBy, Alike
  <2> QED BY <1>0, <2>1, <2>2, <2>3, <2>4, FailedRolls
<1>7. CASE Repairs(j)
  <2>1. db[j] \in Row /\ db'[j] = Failed(db[j], "terminal", stamp) /\ "terminal" \in Errors
    BY <1>0, <1>2, <1>7, RepairedForms DEF Repairs, Errors, Scheduled
  <2>2. db[j].command.schedule_type = "weekly"
    BY <1>0, <2>1, FailedRow DEF SameJob, Scheduled
  <2>3. SentBy(db[j], stamp)
    BY <1>2, <1>7 DEF LastSentPast, Repairs
  <2> QED BY <1>0, <2>1, <2>2, <2>3, FailedRolls
<1> QED BY <1>1, <1>2, <1>3, <1>4, <1>5, <1>6, <1>7 DEF RowStep

LEMMA ClaimedDueStep ==
  ASSUME IInv, ManualCopies, ClaimedDue, [Next]_vars
  PROVE  ClaimedDue'
<1> SUFFICES ASSUME NEW j \in JobIds, db'[j] # None, db'[j].gen \notin overwritten', db'[j].status = "processing"
             PROVE  db'[j].next_run_at # None /\ db'[j].next_run_at <= now'
  BY DEF ClaimedDue
<1>0. /\ \A a \in Tasks : InDispatch(a) => copy[a] \in Row
      /\ outcome \in [Tasks -> Outcomes] /\ stamp \in Int
      /\ db \in [JobIds -> Row \cup {None}]
  BY DEF IInv, TypeInv, TaskTypes, TableTypes, InHand, InDispatch
<1>1. now \in Int /\ now' \in Int /\ now <= now'
  BY TimeGrows
<1>2. db[j] # None => db[j] \in Row /\ db[j].next_run_at \in Int \cup {None}
  BY <1>0, RowFields
<1>3. CASE db'[j] = db[j]
  BY <1>1, <1>2, <1>3, HistoryGrows DEF ClaimedDue
<1>4. CASE db[j] # None /\ Takes(j)
  <2>1. Due(j) /\ db'[j].next_run_at = db[j].next_run_at
    BY <1>2, <1>4 DEF Takes, Claimed, Row
  <2> QED BY <1>1, <1>2, <2>1 DEF Due
<1>5. ~Creates(j)
  BY DEF Creates
<1>6. ~MarksSent(j) /\ ~MarksFailed(j)
  BY <1>0, <1>1, SentRow, FailedRow, PublishFailedRow DEF MarksSent, MarksFailed
<1>7. db[j] # None => ~Repairs(j)
  BY <1>0, RepairedRow DEF Repairs
<1> QED BY <1>3, <1>4, <1>5, <1>6, <1>7, RowSteps DEF RowStep

LEMMA OnceFromInv ==
  ASSUME OrdinaryZone, IInv, SentIsOut, WorkerCopies, DayInv
  PROVE  WeeklyOncePerDay
<1> USE DEF DayInv
<1> DEFINE j == job[Worker]
           today == local_schedule_date(now)
<1> SUFFICES ASSUME Publishing(Worker),
                    copy[Worker].command.schedule_type = "weekly",
                    copy[Worker].retry_count = 0,
                    copy[Worker].last_error # "recovered",
                    copy[Worker].gen \notin unheard \cup overwritten,
                    <<copy[Worker].gen, today>> \in posts
             PROVE  FALSE
  BY DEF WeeklyOncePerDay
<1>0. InDispatch(Worker) /\ pc[Worker] # "mark"
  BY DEF Publishing, InDispatch, Dispatching
<1>1. j \in JobIds /\ copy[Worker] \in WorkerHolds(j) /\ copy[Worker] # None
  BY <1>0, Tables, RowAssumption DEF WorkerHolds, IInv, TypeInv, TaskTypes, InHand, InDispatch
<1>2. db[j] = copy[Worker] /\ db[j].status = "processing" /\ db[j] \in Row
  BY <1>1, HeldTypes DEF WorkerCopies
<1>3. now \in Int /\ today \in Int
  BY ClockTypes DEF IInv, TypeInv, TableTypes
<1>4. db[j].next_run_at \in Int /\ db[j].next_run_at <= now
  BY <1>1, <1>2, RowFields DEF ClaimedDue
<1>5. local_schedule_date(db[j].next_run_at) <= today /\ local_schedule_date(db[j].next_run_at) \in Int
  BY <1>3, <1>4, DatesGrow, ClockTypes
<1>6. ~\E a \in Tasks : AboutToMark(a, j)
  <2> SUFFICES ASSUME NEW a \in Tasks, AboutToMark(a, j) PROVE FALSE
    OBVIOUS
  <2>1. pc[a] = "mark" /\ InDispatch(a) /\ job[a] = j
    BY DEF AboutToMark, Marking, SentIsOut
  <2>2. a \in Handlers
    BY <1>0, <2>1 DEF Tasks
  <2> QED BY <1>2, <2>1, <2>2 DEF IInv, ClaimInv, ManualHolds
<1>7. KnowsOf(db[j], today)
  BY <1>1, <1>2, <1>6 DEF PostsRecorded
<1>8. db[j].last_sent_date \in Int /\ today <= db[j].last_sent_date /\ db[j].last_sent_date # None
  BY <1>2, <1>7, RowFields DEF KnowsOf
<1>9. local_schedule_date(db[j].next_run_at) > db[j].last_sent_date
  BY <1>1, <1>2, <1>8 DEF ScheduledLater, RunsLater, Scheduled
<1> QED BY <1>3, <1>5, <1>8, <1>9

\* On a scheduled attempt the worker publishes a weekly story on a day it has not
\* gone out on, for any handlers, schedules and interruptions, in any zone whose
\* clocks do not change across midnight (mark_sent, mark_failed, claim_due_jobs),
\* unless a publication went unheard or a stale copy was flushed over its row.
THEOREM WeekliesOncePerDay ==
  ASSUME OrdinaryZone
  PROVE  Spec => []WeeklyOncePerDay
<1>1. Init => DayInv
  BY Tables DEF Init, DayInv, LastSentPast, PostsPast, PostsRecorded, ScheduledLater, ClaimedDue
<1>2. IInv /\ OutcomeInv /\ DayInv /\ [Next]_vars => DayInv'
  BY LastSentPastStep, PostsPastStep, PostsRecordedStep, ScheduledLaterStep, ClaimedDueStep
  DEF OutcomeInv, DayInv
<1>3. IInv /\ OutcomeInv /\ WorkerCopies /\ DayInv => WeeklyOncePerDay
  BY OnceFromInv DEF OutcomeInv
<1>4. IInv /\ WorkerCopies /\ [Next]_vars => WorkerCopies'
  BY WorkerCopiesStep
<1> QED BY <1>1, <1>2, <1>3, <1>4, WorkerCopiesInit, Invariance, OutcomeInvariance, PTL DEF Spec

-----------------------------------------------------------------------------
(* Somebody goes on.                                                       *)

\* Who holds the role is publishing, and asks for nothing but the write lock.
RoleInUse == role # None => pc[role] \in {"publishing", "rebuild", "republishing"}

LEMMA RoleInUseStep ==
  ASSUME IInv, RoleInUse, [Next]_vars
  PROVE  RoleInUse'
<1>0. TaskTypes /\ role \in Tasks \cup {None} /\ None \notin Tasks
  BY Tables DEF IInv, TypeInv, TableTypes
<1>1. CASE Tick \/ UNCHANGED vars
  BY <1>1 DEF RoleInUse, Tick, vars, taskVars
<1>2. ASSUME NEW j \in JobIds, NEW c \in Commands, CreateJob(j, c) PROVE RoleInUse'
  BY <1>2 DEF RoleInUse, CreateJob, taskVars
<1>3. ASSUME NEW h \in Handlers, HandlerStep(h) PROVE RoleInUse'
  <2>1. role' = role /\ pc[h] \notin {"publishing", "rebuild", "republishing"}
    BY <1>3 DEF HandlerStep, DeleteRead, ManualRead, DeleteCancel, DeletePurge, ManualClaim, HandlerRefused, ManualMark
  <2> QED BY <1>0, <1>3, <2>1, HandlerLeaves DEF RoleInUse, Stays
<1>4. ASSUME NEW a \in Tasks, Dispatch(a) PROVE RoleInUse'
  <2>0. \A b \in Tasks : b # a => pc'[b] = pc[b]
    BY <1>0, <1>4, DispatchLeaves DEF Stays
  <2>1. \/ role' = role /\ role # a
        \/ role' = Unlocked(role, a)
        \/ role' \in {role, a} /\ pc'[a] \in {"publishing", "rebuild", "republishing"}
    <3>1. CASE EnsureRoleReady(a) \/ EnsureMedia(a)
      BY <1>0, <3>1 DEF EnsureRoleReady, EnsureMedia, MediaFails, Ended, RoleInUse
    <3>2. CASE AcquireRole(a)
      BY <1>0, <3>2 DEF AcquireRole, Ended, Goto, TaskTypes
    <3>3. CASE PublishOk(a) \/ PublishUnheard(a) \/ PublishFails(a)
      BY <3>3 DEF PublishOk, PublishUnheard, PublishFails, Ended
    <3>4. CASE MediaInvalid(a) \/ RebuildMedia(a)
      BY <1>0, <3>4 DEF MediaInvalid, RebuildMedia, MediaFails, Ended, Goto, TaskTypes
    <3> QED BY <1>4, <3>1, <3>2, <3>3, <3>4 DEF Dispatch
  <2> QED BY <1>0, <2>0, <2>1 DEF RoleInUse, Unlocked
<1>5. CASE WorkerStep
  <2>0. \A h \in Handlers : pc'[h] = pc[h]
    BY <1>0, <1>5, WorkerLeaves DEF Stays
  <2>1. \/ role' = Unlocked(role, Worker)
        \/ role' = role /\ pc[Worker] \notin {"publishing", "rebuild", "republishing"}
    BY <1>5 DEF WorkerStep, RepairRead, RepairCommit, ClaimDueJobs, TakeJob, WorkerMark, WorkerFlushFails,
                CycleTimeout, EndCycle
  <2> QED BY <1>0, <2>0, <2>1 DEF RoleInUse, Unlocked, Tasks
<1>6. CASE Crash
  BY <1>6 DEF Crash, RoleInUse
<1> QED BY <1>1, <1>2, <1>3, <1>4, <1>5, <1>6, StepOf

LEMMA SomeoneGoesOnFromInv == IInv /\ RoleInUse => SomeoneGoesOn
<1> SUFFICES ASSUME IInv, RoleInUse, NEW b \in Tasks, pc[b] # "idle"
             PROVE  \E a \in Tasks : pc[a] # "idle" /\ ~Waits(a)
  BY DEF SomeoneGoesOn
<1>0. role \in Tasks \cup {None} /\ None \notin Tasks
  BY Tables DEF IInv, TypeInv, TableTypes
<1>1. \A h \in Handlers : pc[h] = "rebuild" => CanWrite(h)
  BY DEF IInv, ClaimInv, ManualHolds, InDispatch, Dispatching, CanWrite
<1>2. CASE role = None
  BY <1>1, <1>2 DEF Waits
<1>3. CASE role # None
  <2>1. role \in Tasks /\ pc[role] \in {"publishing", "rebuild", "republishing"}
    BY <1>0, <1>3 DEF RoleInUse
  <2>2. ~Waits(role) /\ pc[role] # "idle"
    BY <1>1, <2>1 DEF Waits
  <2> QED BY <2>1, <2>2
<1> QED BY <1>2, <1>3

\* As long as requests or a cycle are under way, one of them goes on, for any
\* number of handlers: the locks of the database and of the publisher role, taken
\* in both orders, close no circle of tasks that wait for each other
\* (dispatch_claimed_job, client_context, manual_send_job).
THEOREM NoCircleOfWaits == Spec => []SomeoneGoesOn
<1>1. Init => RoleInUse
  BY DEF Init, RoleInUse
<1>2. IInv /\ RoleInUse /\ [Next]_vars => RoleInUse'
  BY RoleInUseStep
<1> QED BY <1>1, <1>2, SomeoneGoesOnFromInv, Invariance, PTL DEF Spec

-----------------------------------------------------------------------------
(* What the worker has claimed leaves its hands marked.                    *)

\* How a claimed row can leave the worker's hands
LEMMA HeldLeaves ==
  ASSUME IInv, [Next]_vars, NEW j \in JobIds, Held(j), ~Held(j)'
  PROVE  \/ WorkerMark /\ InDispatch(Worker) /\ (job[Worker] = j \/ batch = NoBatch)
         \/ WorkerFlushFails /\ InDispatch(Worker)
         \/ CycleTimeout \/ Crash
<1>0. /\ Worker \in Tasks /\ TaskTypes /\ batch \in [JobIds -> Row \cup {None}]
      /\ pc[Worker] = "batch" \/ InDispatch(Worker)
  <2>1. pc[Worker] = "batch" \/ InDispatch(Worker)
    BY DEF Held, WorkerHolds
  <2> QED BY <2>1, Tables DEF IInv, TypeInv, TableTypes
<1>1. ASSUME UNCHANGED batch, Stays(Worker) PROVE FALSE
  BY <1>1 DEF Stays, Held, WorkerHolds, InDispatch
<1>2. CASE Tick \/ UNCHANGED vars \/ (\E i \in JobIds, c \in Commands : CreateJob(i, c))
  BY <1>1, <1>2 DEF Tick, CreateJob, vars, taskVars, Stays
<1>3. ASSUME NEW h \in Handlers, HandlerStep(h) PROVE FALSE
  <2>1. UNCHANGED batch
    BY <1>3 DEF HandlerStep, DeleteRead, ManualRead, DeleteCancel, DeletePurge, ManualClaim, HandlerRefused, ManualMark
  <2> QED BY <1>0, <1>1, <1>3, <2>1, HandlerLeaves, Tables
<1>4. ASSUME NEW a \in Tasks, Dispatch(a) PROVE FALSE
  <2>1. UNCHANGED <<batch, job, copy>> /\ (a # Worker => Stays(Worker))
        /\ (a = Worker => InDispatch(Worker) /\ InDispatch(Worker)')
    BY <1>0, <1>4, DispatchLeaves
  <2>2. CASE a # Worker
    BY <1>1, <2>1, <2>2
  <2>3. CASE a = Worker
    BY <2>1, <2>3 DEF Held, WorkerHolds
  <2> QED BY <2>2, <2>3
<1>5. ~RepairRead /\ ~RepairCommit /\ ~ClaimDueJobs
  BY <1>0 DEF RepairRead, RepairCommit, ClaimDueJobs, InDispatch, Dispatching
<1>6. ASSUME NEW i \in JobIds, TakeJob(i) PROVE FALSE
  <2>1. /\ pc[Worker] = "batch" /\ pc'[Worker] = "ensure" /\ job'[Worker] = i /\ copy'[Worker] = batch[i]
        /\ batch' = [batch EXCEPT ![i] = None] /\ batch[i] # None
    BY <1>0, <1>6 DEF TakeJob, Load, Goto, TaskTypes
  <2>2. WorkerHolds(j) = {batch[j]}
    BY <2>1 DEF WorkerHolds, InDispatch, Dispatching
  <2>3. WorkerHolds(j)' = IF j = i THEN {None, batch[i]} ELSE {batch[j]}
    BY <1>0, <2>1 DEF WorkerHolds, InDispatch, Dispatching
  <2> HIDE DEF WorkerHolds
  <2> QED BY <2>1, <2>2, <2>3 DEF Held
<1>7. CASE WorkerMark
  <2>1. InDispatch(Worker) /\ UNCHANGED batch /\ Release(Worker, IF batch = NoBatch THEN "idle" ELSE "batch")
    BY <1>7 DEF WorkerMark, InDispatch, Dispatching
  <2>2. SUFFICES ASSUME job[Worker] # j, batch # NoBatch PROVE FALSE
    BY <1>7, <2>1
  <2>3. WorkerHolds(j) = {batch[j]} /\ WorkerHolds(j)' = {batch[j]}
    BY <1>0, <2>1, <2>2, ReleaseLeaves DEF WorkerHolds, InDispatch, Dispatching
  <2> HIDE DEF WorkerHolds
  <2> QED BY <2>3 DEF Held
<1>8. CASE WorkerFlushFails
  BY <1>0, <1>8 DEF WorkerFlushFails, InDispatch, Dispatching
<1> QED BY <1>2, <1>3, <1>4, <1>5, <1>6, <1>7, <1>8, StepOf DEF WorkerStep

LEMMA MarkedByWorker ==
  ASSUME IInv, WorkerMark
  PROVE  LET j == job[Worker]
         IN  db'[j] # None /\ db'[j].status \in {"pending", "failed", "sent"}
<1> DEFINE i == job[Worker]
           row == copy[Worker]
           marked == IF outcome[Worker] = "sent" THEN Sent(row, now)
                     ELSE PublishFailed(row, outcome[Worker], now)
<1>0. /\ TaskTypes /\ now \in Int /\ db \in [JobIds -> Row \cup {None}] /\ Worker \in Tasks
  BY Tables DEF IInv, TypeInv, TableTypes
<1>1. /\ i \in JobIds /\ row \in Row /\ db[i] \in Row /\ outcome[Worker] \in Outcomes
      /\ db'[i] = Flush(db[i], row, marked)
      /\ row.status = "processing"
  BY <1>0 DEF WorkerMark, InDispatch, Dispatching, TaskTypes, InHand, IInv, LockInv, CopiesLocked
<1>2. marked \in Row /\ marked.status \in {"pending", "failed", "sent"}
  <2>1. CASE outcome[Worker] = "sent"
    BY <1>0, <1>1, <2>1, SentRow, SentFields DEF SameJob
  <2>2. CASE outcome[Worker] # "sent"
    <3>1. \A error \in Errors : Failed(row, error, now).status = "failed"
      BY <1>0, <1>1, FailedFields
    <3> QED BY <1>0, <1>1, <2>2, <3>1, PublishFailedRow, PublishFailedForms DEF SameJob
  <2> QED BY <2>1, <2>2
<1> HIDE DEF marked
<1> QED BY <1>1, <1>2, FlushedRow, RowAssumption DEF SameJob, Dirty

LEMMA ClaimsAreMarkedStep ==
  ASSUME IInv, [Next]_vars, NEW j \in JobIds, Held(j), ~Held(j)'
  PROVE  \/ db'[j] # None /\ db'[j].status \in {"pending", "failed", "sent"}
         \/ interrupts' # interrupts
         \/ ~CanWrite(Worker)
         \/ db[job[Worker]] = None
<1>1. CASE CycleTimeout \/ Crash
  BY <1>1 DEF CycleTimeout, Crash, IInv, TypeInv, TableTypes
<1>2. CASE WorkerFlushFails /\ InDispatch(Worker)
  BY <1>2 DEF WorkerFlushFails, InDispatch, Dispatching
<1>3. CASE WorkerMark /\ InDispatch(Worker) /\ (job[Worker] = j \/ batch = NoBatch)
  <2>1. job[Worker] = j
    BY <1>3 DEF Held, WorkerHolds, NoBatch
  <2> QED BY <1>3, <2>1, MarkedByWorker
<1> QED BY <1>1, <1>2, <1>3, HeldLeaves

\* What the worker has claimed leaves its hands marked, whatever the handlers do
\* to the row, unless the cycle is cut off, or ends with a flush that the write
\* lock or a missing row refuses (run_once).
THEOREM ClaimsLeaveMarked == Spec => ClaimsAreMarked
<1>1. IInv /\ [Next]_vars =>
        [\A j \in JobIds : Held(j) /\ ~Held(j)' =>
            \/ db'[j] # None /\ db'[j].status \in {"pending", "failed", "sent"}
            \/ interrupts' # interrupts
            \/ ~CanWrite(Worker)
            \/ db[job[Worker]] = None]_vars
  BY ClaimsAreMarkedStep
<1> QED BY <1>1, Invariance, PTL DEF Spec, ClaimsAreMarked

-----------------------------------------------------------------------------
(* The stage of a job.                                                     *)

\* The invariants the mapping needs
MapInv == IInv /\ OutcomeInv /\ WorkerCopies

LEMMA StageTypes ==
  ASSUME IInv, NEW g
  PROVE  StageOf(g) \in Lifecycle!Stages
<1>1. CASE RowsOf(g) = {}
  BY <1>1 DEF StageOf, Lifecycle!Stages
<1>2. CASE RowsOf(g) # {}
  <2> DEFINE j == CHOOSE i \in RowsOf(g) : TRUE
  <2>1. j \in RowsOf(g)
    BY <1>2
  <2>2. db[j].status \in Statuses
    BY <2>1, RowFields DEF RowsOf, IInv, TypeInv, TableTypes
  <2> HIDE DEF j
  <2>3. Stage(db[j]) \in Lifecycle!Stages
    BY <2>2 DEF Stage, Statuses, Lifecycle!Stages
  <2> QED BY <1>2, <2>3 DEF StageOf, Lifecycle!Stages, j
<1> QED BY <1>1, <1>2

\* The stage of a row's generation is the row's.
LEMMA StageOfRow ==
  ASSUME IInv, GenerationsApart, NEW j \in JobIds, db[j] # None, db[j].gen \notin overwritten
  PROVE  StageOf(db[j].gen) = Stage(db[j])
<1>1. RowsOf(db[j].gen) = {j}
  BY DEF RowsOf, GenerationsApart, Shown
<1>2. ~(db[j].gen > created)
  <2>1. db[j].gen \in Int /\ created \in Int
    BY RowFields DEF IInv, TypeInv, TableTypes
  <2> QED BY <2>1 DEF IInv, ClaimInv, KnownGenerations
<1> QED BY <1>1, <1>2 DEF StageOf

LEMMA StageOfRowNext ==
  ASSUME IInv', GenerationsApart', NEW j \in JobIds, db'[j] # None, NEW g, g = db'[j].gen, g \notin overwritten'
  PROVE  StageOf(g)' = Stage(db'[j])
<1>1. RowsOf(g)' = {j}
  BY DEF RowsOf, GenerationsApart, Shown, JobIds
<1>2. ~(g > created')
  <2>1. g \in Int /\ created' \in Int
    BY RowFields DEF IInv, TypeInv, TableTypes, JobIds
  <2> QED BY <2>1 DEF IInv, ClaimInv, KnownGenerations, JobIds
<1> QED BY <1>1, <1>2 DEF StageOf

\* The stage of a generation whose rows no step touches stays.
LEMMA StageKept ==
  ASSUME NEW g, (g > created)' <=> g > created, overwritten \subseteq overwritten', g \notin overwritten',
         \A j \in JobIds : (db[j] # None /\ db[j].gen = g) <=> (db'[j] # None /\ db'[j].gen = g),
         \A j \in RowsOf(g) : Stage(db'[j]) = Stage(db[j])
  PROVE  StageOf(g)' = StageOf(g)
<1>1. RowsOf(g)' = RowsOf(g)
  BY DEF RowsOf, JobIds
<1>2. CASE RowsOf(g) = {}
  BY <1>1, <1>2 DEF StageOf
<1>3. CASE RowsOf(g) # {}
  <2> DEFINE j == CHOOSE i \in RowsOf(g) : TRUE
  <2>1. j \in RowsOf(g)
    BY <1>3
  <2>2. (CHOOSE i \in RowsOf(g) : TRUE)' = j
    BY <1>1
  <2> QED BY <1>1, <1>3, <2>1, <2>2 DEF StageOf
<1> QED BY <1>2, <1>3

-----------------------------------------------------------------------------
(* Steps of JobLifecycle.                                                  *)

LEMMA NothingMoves ==
  ASSUME \A g \in Generations : StageOf(g)' = StageOf(g), posts' = posts
  PROVE  UNCHANGED Lifecycle!vars
BY DEF Lifecycle!vars, Generations

\* At most the jobs of rows written from a stale copy move.
LEMMA ContestStep ==
  ASSUME \A g \in Generations : g \notin overwritten' => StageOf(g)' = StageOf(g),
         IInv, IInv', posts' = posts
  PROVE  Lifecycle!Next
<1> DEFINE S == overwritten'
<1>1. S \subseteq 1 .. MaxCreated
  BY DEF IInv, TypeInv, HistoryTypes, Generations
<1>2. \A g \in Generations : g \in S => StageOf(g)' = "contested"
  BY DEF StageOf
<1>3. Lifecycle!Contest(S)
  BY <1>1, <1>2, StageTypes DEF Lifecycle!Contest, Lifecycle!Move, Generations
<1> QED BY <1>1, <1>3 DEF Lifecycle!Next

\* One job moves.
LEMMA MoveStep ==
  ASSUME NEW g \in Generations, NEW from, NEW to, StageOf(g) \in from, StageOf(g)' = to,
         \A i \in Generations : i # g => StageOf(i)' = StageOf(i), posts' = posts
  PROVE  Lifecycle!Move({g}, from, to)
BY DEF Lifecycle!Move, Generations

\* A story goes out of a job that is open or under way, or is contested.
LEMMA PublishingStage ==
  ASSUME MapInv, NEW a \in Tasks, InDispatch(a)
  PROVE  /\ copy[a].gen \in Generations
         /\ StageOf(copy[a].gen) \in {"open", "underway", "contested"}
<1> USE DEF MapInv, OutcomeInv
<1>1. job[a] \in JobIds /\ copy[a] \in Row /\ copy[a].gen \in Generations
  BY RowFields DEF IInv, TypeInv, TaskTypes, InHand, InDispatch, Generations
<1>2. CASE copy[a].gen \in overwritten
  BY <1>1, <1>2 DEF StageOf
<1>3. CASE copy[a].gen \notin overwritten /\ a \in Handlers
  <2>1. db[job[a]] # None /\ db[job[a]].status \in {"pending", "failed"}
    BY <1>3 DEF IInv, ClaimInv, ManualHolds
  <2>2. db[job[a]].gen = copy[a].gen
    BY <1>3, ManualCopyGen
  <2>3. StageOf(copy[a].gen) = Stage(db[job[a]])
    BY <1>1, <1>3, <2>1, <2>2, StageOfRow
  <2> QED BY <1>1, <2>1, <2>3 DEF Stage
<1>4. CASE copy[a].gen \notin overwritten /\ a = Worker
  <2>1. copy[a] \in WorkerHolds(job[a]) /\ copy[a] # None
    BY <1>1, <1>4, RowAssumption DEF WorkerHolds
  <2>2. db[job[a]] = copy[a]
    BY <1>1, <1>4, <2>1 DEF WorkerCopies
  <2>3. copy[a].status = "processing"
    BY <1>1, <2>1, HeldTypes
  <2>4. StageOf(copy[a].gen) = Stage(copy[a])
    BY <1>1, <1>4, <2>1, <2>2, StageOfRow
  <2> QED BY <1>1, <2>3, <2>4 DEF Stage
<1> QED BY <1>2, <1>3, <1>4 DEF Tasks

LEMMA PublishStep ==
  ASSUME MapInv, UNCHANGED <<db, created, overwritten>>, NEW a \in Tasks, InDispatch(a), Posted(a)
  PROVE  Lifecycle!Next
<1> SUFFICES ASSUME NEW g \in Generations, g = copy[a].gen PROVE Lifecycle!Next
  BY PublishingStage
<1>1. StageOf(g) \in {"open", "underway", "contested"}
  BY PublishingStage
<1>2. {p[1] : p \in posts'} = {p[1] : p \in posts} \cup {g}
  BY DEF Posted
<1>3. \A i \in Generations : StageOf(i)' = StageOf(i)
  BY DEF StageOf, RowsOf, JobIds
<1>4. Lifecycle!Publish(g)
  BY <1>1, <1>2, <1>3 DEF Lifecycle!Publish, Generations
<1> QED BY <1>4 DEF Lifecycle!Next, Generations

\* Steps that write no row
LEMMA TableKept ==
  ASSUME UNCHANGED <<db, created, overwritten, posts>>
  PROVE  UNCHANGED Lifecycle!vars
<1>1. \A i \in Generations : StageOf(i)' = StageOf(i)
  BY DEF StageOf, RowsOf, JobIds
<1> QED BY <1>1, NothingMoves

LEMMA MaybePostedStep ==
  ASSUME MapInv, UNCHANGED <<db, created>>, NEW S \in SUBSET Tasks, MaybePosted(S)
  PROVE  Lifecycle!Next \/ UNCHANGED Lifecycle!vars
<1>1. CASE UNCHANGED posts
  BY <1>1, TableKept DEF MaybePosted
<1>2. ASSUME NEW a \in S, Publishing(a), Posted(a) PROVE Lifecycle!Next
  <2>1. InDispatch(a)
    BY <1>2 DEF Publishing, InDispatch, Dispatching
  <2> QED BY <1>2, <2>1, PublishStep DEF MaybePosted
<1> QED BY <1>1, <1>2 DEF MaybePosted

LEMMA DispatchStep ==
  ASSUME MapInv, NEW a \in Tasks, Dispatch(a)
  PROVE  Lifecycle!Next \/ UNCHANGED Lifecycle!vars
<1>1. UNCHANGED <<db, created>> /\ InDispatch(a)
  BY DispatchLeaves DEF MapInv, IInv, TypeInv
<1>2. CASE PublishOk(a) \/ PublishUnheard(a)
  BY <1>1, <1>2, PublishStep DEF PublishOk, PublishUnheard
<1>3. CASE ~PublishOk(a) /\ ~PublishUnheard(a)
  <2>1. UNCHANGED <<overwritten, posts>>
    BY <1>3 DEF Dispatch, EnsureRoleReady, EnsureMedia, AcquireRole, PublishFails, MediaInvalid, RebuildMedia,
                historyVars
  <2> QED BY <1>1, <2>1, TableKept
<1> QED BY <1>2, <1>3

-----------------------------------------------------------------------------
(* Steps that write rows.                                                  *)

\* One row is written: its job moves, unless it is contested, and no other.
LEMMA OneRow ==
  ASSUME IInv, IInv', GenerationsApart, GenerationsApart', NEW i \in JobIds, NEW new \in Row,
         db[i] # None, db' = [db EXCEPT ![i] = new], new.gen = db[i].gen,
         UNCHANGED created, overwritten \subseteq overwritten', NEW g \in Generations, g \notin overwritten'
  PROVE  IF g = db[i].gen THEN StageOf(g) = Stage(db[i]) /\ StageOf(g)' = Stage(new)
         ELSE StageOf(g)' = StageOf(g)
<1>1. /\ db'[i] = new /\ new # None
      /\ \A j \in JobIds : j # i => db'[j] = db[j]
  BY RowAssumption DEF IInv, TypeInv, TableTypes
<1>2. CASE g = db[i].gen
  BY <1>1, <1>2, StageOfRow, StageOfRowNext
<1>3. CASE g # db[i].gen
  <2>1. \A j \in RowsOf(g) : db'[j] = db[j]
    BY <1>1, <1>3 DEF RowsOf
  <2>2. \A j \in JobIds : (db[j] # None /\ db[j].gen = g) <=> (db'[j] # None /\ db'[j].gen = g)
    BY <1>1, <1>3
  <2> QED BY <1>3, <2>1, <2>2, StageKept
<1> QED BY <1>2, <1>3

LEMMA OneRowStep ==
  ASSUME IInv, IInv', GenerationsApart, GenerationsApart', NEW i \in JobIds, NEW new \in Row,
         db[i] # None, db' = [db EXCEPT ![i] = new], new.gen = db[i].gen,
         UNCHANGED <<created, posts>>, overwritten \subseteq overwritten',
         db[i].gen \notin overwritten' =>
            /\ overwritten' = overwritten
            /\ \/ Stage(new) = Stage(db[i])
               \/ Stage(db[i]) = "open" /\ Stage(new) = "cancelled"
               \/ Stage(db[i]) = "underway" /\ Stage(new) = "open"
               \/ Stage(db[i]) \in {"open", "underway"} /\ Stage(new) = "sent" /\ Out(new.gen)
  PROVE  Lifecycle!Next \/ UNCHANGED Lifecycle!vars
<1>1. SUFFICES ASSUME NEW g \in Generations, g = db[i].gen PROVE Lifecycle!Next \/ UNCHANGED Lifecycle!vars
  BY RowFields DEF IInv, TypeInv, TableTypes, Generations
<1>2. CASE g \in overwritten' \/ Stage(new) = Stage(db[i])
  <2>1. \A k \in Generations : k \notin overwritten' => StageOf(k)' = StageOf(k)
    BY <1>1, <1>2, OneRow
  <2> QED BY <2>1, ContestStep
<1>3. CASE g \notin overwritten' /\ Stage(new) # Stage(db[i])
  <2>1. StageOf(g) = Stage(db[i]) /\ StageOf(g)' = Stage(new)
    BY <1>1, <1>3, OneRow
  <2>2. \A k \in Generations : k # g => StageOf(k)' = StageOf(k)
    <3>1. ASSUME NEW k \in Generations, k # g, k \notin overwritten' PROVE StageOf(k)' = StageOf(k)
      BY <1>1, <3>1, OneRow
    <3>2. ASSUME NEW k \in overwritten' PROVE StageOf(k)' = StageOf(k)
      BY <1>1, <1>3 DEF StageOf
    <3> QED BY <3>1, <3>2
  <2>3. CASE Stage(db[i]) = "open" /\ Stage(new) = "cancelled"
    <3>1. Lifecycle!Cancel(g)
      BY <2>1, <2>2, <2>3, MoveStep DEF Lifecycle!Cancel
    <3> QED BY <3>1 DEF Lifecycle!Next, Generations
  <2>4. CASE Stage(db[i]) = "underway" /\ Stage(new) = "open"
    <3>1. Lifecycle!Return(g)
      BY <2>1, <2>2, <2>4, MoveStep DEF Lifecycle!Return
    <3> QED BY <3>1 DEF Lifecycle!Next, Generations
  <2>5. CASE Stage(db[i]) \in {"open", "underway"} /\ Stage(new) = "sent" /\ Out(new.gen)
    <3>1. g \in {p[1] : p \in posts}
      BY <1>1, <2>5 DEF Out
    <3>2. Lifecycle!Move({g}, {"open", "underway"}, "sent")
      BY <2>1, <2>2, <2>5, MoveStep
    <3>3. Lifecycle!Finish(g)
      BY <3>1, <3>2 DEF Lifecycle!Finish
    <3> QED BY <3>3 DEF Lifecycle!Next, Generations
  <2> QED BY <1>1, <1>3, <2>3, <2>4, <2>5
<1> QED BY <1>2, <1>3

LEMMA CancelStep ==
  ASSUME MapInv, MapInv', NEW h \in Handlers, DeleteCancel(h)
  PROVE  Lifecycle!Next \/ UNCHANGED Lifecycle!vars
<1> USE DEF MapInv, OutcomeInv
<1> DEFINE i == job[h]
           row == copy[h]
           new == Flush(db[i], row, Cancelled(row))
<1>1. /\ i \in JobIds /\ row \in Row /\ db[i] \in Row /\ db[i] # None
      /\ row.status \in {"pending", "failed"}
      /\ db' = [db EXCEPT ![i] = new]
      /\ overwritten' = overwritten \cup Stale(db[i], row)
      /\ UNCHANGED <<created, posts>>
  BY Tables DEF DeleteCancel, IInv, TypeInv, TaskTypes, TableTypes, InHand
<1>2. new \in Row /\ new.gen = db[i].gen
  BY <1>1, CancelledRow, FlushedRow DEF SameJob
<1>3. ASSUME db[i].gen \notin overwritten'
      PROVE  /\ overwritten' = overwritten
             /\ Stage(db[i]) = "open" /\ Stage(new) = "cancelled"
  <2>1. db[i] = row
    BY <1>1, <1>3 DEF Stale
  <2>2. new = Cancelled(row)
    BY <1>1, <2>1, CancelledRow, FlushOfCopy
  <2>3. new.status = "cancelled"
    BY <1>1, <2>2, CancelledRow
  <2> QED BY <1>1, <2>1, <2>3 DEF Stage, Stale
<1> HIDE DEF new
<1> QED BY <1>1, <1>2, <1>3, OneRowStep

LEMMA ManualMarkStep ==
  ASSUME MapInv, MapInv', NEW h \in Handlers, ManualMark(h)
  PROVE  Lifecycle!Next \/ UNCHANGED Lifecycle!vars
<1> USE DEF MapInv, OutcomeInv
<1> DEFINE i == job[h]
           marked == IF outcome[h] = "sent" THEN Sent(copy[h], now)
                     ELSE Failed(copy[h], ErrorText(outcome[h]), now)
           new == Flush(Claimed(db[i], copy[h].locked_at), copy[h], marked)
<1>0. InDispatch(h)
  BY DEF ManualMark, InDispatch, Dispatching
<1>1. /\ i \in JobIds /\ copy[h] \in Row /\ db[i] \in Row /\ db[i] # None
      /\ db[i].status \in {"pending", "failed"}
      /\ db' = [db EXCEPT ![i] = new]
      /\ now \in Int
      /\ UNCHANGED <<created, posts, overwritten>>
  BY <1>0, Tables DEF ManualMark, historyVars, IInv, TypeInv, TaskTypes, TableTypes, InHand, InDispatch,
                      ClaimInv, ManualHolds
<1>2. SameJob(copy[h], marked) /\ Stage(marked) \in {"open", "sent"}
      /\ (Stage(marked) = "sent" => outcome[h] = "sent")
  <2>1. ErrorText(outcome[h]) \in Errors
    BY DEF ErrorText, Errors
  <2>2. marked.status \in {"sent", "pending", "failed"} /\ (marked.status = "sent" => outcome[h] = "sent")
    BY <1>1, <2>1, SentRow, FailedRow
  <2>3. SameJob(copy[h], marked)
    BY <1>1, <2>1, SentRow, FailedRow
  <2> HIDE DEF marked
  <2> QED BY <2>2, <2>3 DEF Stage
<1> HIDE DEF marked
<1>3. new \in Row /\ new.gen = db[i].gen
  <2>1. Claimed(db[i], copy[h].locked_at) \in Row /\ Claimed(db[i], copy[h].locked_at).gen = db[i].gen
    BY <1>1, RowFields, ClaimedRow DEF SameJob
  <2> QED BY <1>1, <1>2, <2>1, FlushedRow DEF SameJob
<1>4. ASSUME db[i].gen \notin overwritten'
      PROVE  /\ Stage(db[i]) = "open"
             /\ Stage(new) = "open" \/ (Stage(new) = "sent" /\ Out(new.gen))
  <2>1. new = marked
    <3>1. db'[i] = marked
      BY <1>1, <1>4, ManualMarkRow DEF marked
    <3>2. db'[i] = new
      BY <1>1 DEF IInv, TypeInv, TableTypes
    <3> QED BY <3>1, <3>2
  <2>2. Stage(db[i]) = "open"
    BY <1>1 DEF Stage
  <2>3. outcome[h] = "sent" => Out(copy[h].gen)
    BY Tables DEF SentIsOut
  <2> QED BY <1>2, <2>1, <2>2, <2>3 DEF SameJob
<1> HIDE DEF new
<1> QED BY <1>1, <1>3, <1>4, OneRowStep

LEMMA WorkerMarkStep ==
  ASSUME MapInv, MapInv', WorkerMark
  PROVE  Lifecycle!Next \/ UNCHANGED Lifecycle!vars
<1> USE DEF MapInv, OutcomeInv
<1> DEFINE i == job[Worker]
           row == copy[Worker]
           marked == IF outcome[Worker] = "sent" THEN Sent(row, now)
                     ELSE PublishFailed(row, outcome[Worker], now)
           new == Flush(db[i], row, marked)
<1>0. InDispatch(Worker)
  BY DEF WorkerMark, InDispatch, Dispatching
<1>1. /\ i \in JobIds /\ row \in Row /\ db[i] \in Row /\ db[i] # None
      /\ row.status = "processing"
      /\ db' = [db EXCEPT ![i] = new]
      /\ overwritten' = overwritten \cup Stale(db[i], row)
      /\ now \in Int /\ outcome[Worker] \in Outcomes
      /\ UNCHANGED <<created, posts>>
  BY <1>0, Tables DEF WorkerMark, IInv, TypeInv, TaskTypes, TableTypes, InHand, InDispatch, LockInv, CopiesLocked
<1>2. SameJob(row, marked) /\ Stage(marked) \in {"open", "sent"}
      /\ (Stage(marked) = "sent" => outcome[Worker] = "sent")
  <2>1. /\ marked.status \in {"sent", "pending", "failed"}
        /\ marked.status = "sent" => outcome[Worker] = "sent"
    BY <1>1, SentRow, PublishFailedRow
  <2>2. SameJob(row, marked)
    BY <1>1, SentRow, PublishFailedRow
  <2> HIDE DEF marked
  <2> QED BY <2>1, <2>2 DEF Stage
<1> HIDE DEF marked
<1>3. new \in Row /\ new.gen = db[i].gen
  BY <1>1, <1>2, FlushedRow DEF SameJob
<1>4. ASSUME db[i].gen \notin overwritten'
      PROVE  /\ overwritten' = overwritten
             /\ Stage(db[i]) = "underway"
             /\ Stage(new) = "open" \/ (Stage(new) = "sent" /\ Out(new.gen))
  <2>1. db[i] = row
    BY <1>1, <1>4 DEF Stale
  <2>2. new = marked
    BY <1>1, <1>2, <2>1, FlushOfCopy
  <2>3. outcome[Worker] = "sent" => Out(row.gen)
    BY Tables DEF SentIsOut
  <2> QED BY <1>1, <1>2, <2>1, <2>2, <2>3 DEF SameJob, Stage, Stale
<1> HIDE DEF new
<1> QED BY <1>1, <1>3, <1>4, OneRowStep

\* What the repair writes over the row it read stays open.
LEMMA RepairStep ==
  ASSUME MapInv, MapInv', RepairCommit, [Next]_vars
  PROVE  Lifecycle!Next
<1> USE DEF MapInv, OutcomeInv
<1>1. /\ db' = [i \in JobIds |-> IF i \in RepairWrites
                               THEN Flush(db[i], batch[i], Repaired(batch[i], stamp))
                               ELSE db[i]]
      /\ overwritten' = overwritten \cup UNION {Stale(db[i], batch[i]) : i \in RepairWrites}
      /\ \A i \in RepairWrites : db[i] # None
      /\ pc[Worker] = "repair"
      /\ UNCHANGED <<created, posts>>
  BY DEF RepairCommit
<1>2. ASSUME NEW j \in RepairWrites
      PROVE  /\ SameJob(db[j], db'[j])
             /\ db[j].gen \notin overwritten' => Stage(db'[j]) = Stage(db[j])
  <2> DEFINE new == Repaired(batch[j], stamp)
  <2>1. /\ db[j] \in Row /\ batch[j] \in Row /\ batch[j].status = "failed" /\ stamp \in Int /\ j \in JobIds
    BY <1>1 DEF RepairWrites, IInv, TypeInv, TableTypes, LockInv, RepairListUnlocked
  <2>2. SameJob(batch[j], new) /\ new.status \in {"failed", "pending"}
    BY <2>1, RepairedRow
  <2> HIDE DEF new
  <2>3. db'[j] = Flush(db[j], batch[j], new)
    BY <1>1, <2>1 DEF new
  <2>4. SameJob(db[j], db'[j])
    BY <2>1, <2>2, <2>3, FlushedRow DEF SameJob
  <2>5. ASSUME db[j].gen \notin overwritten' PROVE Stage(db'[j]) = Stage(db[j])
    <3>1. Stale(db[j], batch[j]) \subseteq overwritten'
      BY <1>1
    <3>2. db[j] = batch[j]
      BY <2>5, <3>1 DEF Stale
    <3>3. db'[j] = new
      BY <2>1, <2>2, <2>3, <3>2, FlushOfCopy
    <3> QED BY <2>1, <2>2, <3>2, <3>3 DEF Stage
  <2> QED BY <2>4, <2>5
<1>3. ASSUME NEW g \in Generations, g \notin overwritten' PROVE StageOf(g)' = StageOf(g)
  <2>1. \A j \in JobIds : j \notin RepairWrites => db'[j] = db[j]
    BY <1>1
  <2>2. \A j \in JobIds : (db[j] # None /\ db[j].gen = g) <=> (db'[j] # None /\ db'[j].gen = g)
    BY <1>1, <1>2, <2>1, RowAssumption DEF SameJob
  <2>3. \A j \in RowsOf(g) : Stage(db'[j]) = Stage(db[j])
    BY <1>2, <1>3, <2>1 DEF RowsOf
  <2>4. overwritten \subseteq overwritten'
    BY <1>1
  <2> QED BY <1>1, <1>3, <2>2, <2>3, <2>4, StageKept
<1> QED BY <1>1, <1>3, ContestStep

\* A claim takes open jobs, all at once.
LEMMA ClaimStep ==
  ASSUME MapInv, MapInv', ClaimDueJobs
  PROVE  Lifecycle!Next
<1> USE DEF MapInv, OutcomeInv
<1>1. /\ db' = [j \in JobIds |-> IF j \in DueBatch THEN Claimed(db[j], now) ELSE db[j]]
      /\ now \in Int
      /\ UNCHANGED <<created, posts, overwritten>>
  BY DEF ClaimDueJobs, historyVars, IInv, TypeInv, TableTypes
<1>2. ASSUME NEW j \in DueBatch
      PROVE  /\ j \in JobIds /\ db[j] # None /\ SameJob(db[j], db'[j]) /\ db'[j] # None
             /\ Stage(db[j]) = "open" /\ Stage(db'[j]) = "underway"
  <2>1. j \in JobIds /\ db[j] \in Row /\ db[j] # None /\ db[j].status \in {"pending", "failed"}
    BY DEF DueBatch, Due, Claimable, IInv, TypeInv, TableTypes
  <2>2. db'[j] = Claimed(db[j], now)
    BY <1>1, <2>1
  <2> QED BY <1>1, <2>1, <2>2, ClaimedRow, RowAssumption DEF SameJob, Stage
<1> DEFINE S == {g \in Generations : g \notin overwritten /\ \E j \in DueBatch : db[j].gen = g}
<1>3. ASSUME NEW g \in S PROVE StageOf(g) = "open" /\ StageOf(g)' = "underway"
  <2>1. \E j \in DueBatch : db[j].gen = g
    OBVIOUS
  <2>2. SUFFICES ASSUME NEW j \in DueBatch, db[j].gen = g PROVE StageOf(g) = "open" /\ StageOf(g)' = "underway"
    BY <2>1
  <2>3. g \notin overwritten /\ g \notin overwritten' /\ db'[j].gen = g
    BY <1>1, <1>2, <2>2 DEF SameJob
  <2>4. StageOf(g) = Stage(db[j])
    BY <1>2, <2>2, <2>3, StageOfRow
  <2>5. StageOf(g)' = Stage(db'[j])
    BY <1>2, <2>3, StageOfRowNext
  <2> QED BY <1>2, <2>4, <2>5
<1>4. ASSUME NEW g \in Generations, g \notin S PROVE StageOf(g)' = StageOf(g)
  <2>1. CASE g \in overwritten
    BY <1>1, <2>1 DEF StageOf
  <2>2. CASE g \notin overwritten
    <3>1. \A j \in DueBatch : db[j].gen # g
      BY <1>4, <2>2
    <3>2. \A j \in JobIds : (db[j] # None /\ db[j].gen = g) <=> (db'[j] # None /\ db'[j].gen = g)
      BY <1>1, <1>2, <3>1 DEF SameJob
    <3>3. \A j \in RowsOf(g) : db'[j] = db[j]
      BY <1>1, <3>1 DEF RowsOf
    <3> QED BY <1>1, <2>2, <3>2, <3>3, StageKept
  <2> QED BY <2>1, <2>2
<1>5. S \subseteq Generations
  OBVIOUS
<1> HIDE DEF S
<1>6. Lifecycle!Claim(S)
  BY <1>1, <1>3, <1>4, <1>5 DEF Lifecycle!Claim, Lifecycle!Move, Generations
<1>7. SUFFICES ASSUME NEW T \in SUBSET Generations, Lifecycle!Claim(T) PROVE Lifecycle!Next
  BY <1>5, <1>6
<1> QED BY <1>7 DEF Lifecycle!Next, Generations

\* A purge removes a job that is sent or cancelled, unless its copy is stale.
LEMMA PurgeStep ==
  ASSUME MapInv, MapInv', NEW h \in Handlers, DeletePurge(h)
  PROVE  Lifecycle!Next \/ UNCHANGED Lifecycle!vars
<1> USE DEF MapInv, OutcomeInv
<1> DEFINE i == job[h]
<1>1. /\ i \in JobIds /\ copy[h] \in Row /\ db \in [JobIds -> Row \cup {None}]
      /\ copy[h].status \in {"sent", "cancelled"}
      /\ db' = [db EXCEPT ![i] = None]
      /\ overwritten' = IF db[i] = None THEN overwritten ELSE overwritten \cup Stale(db[i], copy[h])
      /\ UNCHANGED <<created, posts>>
  BY Tables DEF DeletePurge, IInv, TypeInv, TaskTypes, TableTypes, InHand
<1> HIDE DEF i
<1>2. db'[i] = None /\ \A j \in JobIds : j # i => db'[j] = db[j]
  BY <1>1
<1>3. ASSUME NEW g \in Generations, g \notin overwritten', db[i] # None => db[i].gen # g
      PROVE  StageOf(g)' = StageOf(g)
  <2>1. \A j \in JobIds : (db[j] # None /\ db[j].gen = g) <=> (db'[j] # None /\ db'[j].gen = g)
    BY <1>2, <1>3
  <2>2. \A j \in RowsOf(g) : db'[j] = db[j]
    BY <1>2, <1>3 DEF RowsOf
  <2> QED BY <1>1, <1>3, <2>1, <2>2, StageKept
<1>4. CASE db[i] = None \/ db[i].gen \in overwritten'
  <2>1. \A g \in Generations : g \notin overwritten' => StageOf(g)' = StageOf(g)
    BY <1>3, <1>4
  <2> QED BY <1>1, <2>1, ContestStep
<1>5. CASE db[i] # None /\ db[i].gen \notin overwritten'
  <2>1. db[i] = copy[h] /\ overwritten' = overwritten
    BY <1>1, <1>5 DEF Stale
  <2>2. SUFFICES ASSUME NEW g \in Generations, g = db[i].gen PROVE Lifecycle!Next
    BY <1>1, <1>5, RowFields DEF Generations
  <2>3. StageOf(g) = Stage(db[i]) /\ Stage(db[i]) \in {"sent", "cancelled"}
    BY <1>1, <1>5, <2>1, <2>2, StageOfRow DEF Stage
  <2>4. StageOf(g)' = "gone"
    <3>1. RowsOf(g)' = {}
      BY <1>1, <1>2, <1>5, <2>1, <2>2 DEF RowsOf, GenerationsApart, Shown, JobIds
    <3>2. ~(g > created)
      <4>1. g \in Int /\ created \in Int
        BY DEF Generations, IInv, TypeInv, TableTypes
      <4> QED BY <1>1, <1>5, <2>2, <4>1 DEF IInv, ClaimInv, KnownGenerations
    <3> QED BY <1>1, <1>5, <2>2, <3>1, <3>2 DEF StageOf
  <2>5. \A k \in Generations : k # g => StageOf(k)' = StageOf(k)
    <3>1. \A k \in overwritten' : StageOf(k)' = StageOf(k)
      BY <2>1 DEF StageOf
    <3> QED BY <1>3, <2>2, <3>1
  <2>6. Lifecycle!Remove(g)
    BY <1>1, <2>3, <2>4, <2>5, MoveStep DEF Lifecycle!Remove
  <2> QED BY <2>6 DEF Lifecycle!Next, Generations
<1> QED BY <1>4, <1>5

LEMMA CreateStep ==
  ASSUME MapInv, MapInv', NEW j \in JobIds, NEW c \in Commands, CreateJob(j, c)
  PROVE  Lifecycle!Next \/ UNCHANGED Lifecycle!vars
<1> USE DEF MapInv, OutcomeInv
<1>1. /\ created \in Nat /\ created < MaxCreated /\ created' = created + 1
      /\ UNCHANGED <<posts, overwritten>>
      /\ db[j] = None /\ db'[j] # None /\ db'[j].gen = created + 1 /\ db'[j].status = "pending"
      /\ \A i \in JobIds : i # j => db'[i] = db[i]
      /\ MaxCreated \in Nat
  <2> DEFINE new == [command |-> c, gen |-> created + 1, status |-> "pending",
                     next_run_at |-> compute_next_run_at(c, now, None),
                     retry_count |-> 0, retry_window_started_at |-> None, last_error |-> "none",
                     last_sent_date |-> None, locked_at |-> None]
  <2>1. db \in [JobIds -> Row \cup {None}] /\ created \in Nat /\ MaxCreated \in Nat
    BY StoryJobsAssumption DEF IInv, TypeInv, TableTypes
  <2>2. created + 1 \in 1 .. MaxCreated
    BY <2>1 DEF CreateJob
  <2>3. compute_next_run_at(c, now, None) \in Int \cup {None}
    BY NextRunOfCommand DEF IInv, TypeInv, TableTypes
  <2>4. new \in Row
    BY <2>2, <2>3 DEF Row, Statuses, Errors
  <2>5. db' = [db EXCEPT ![j] = new]
    BY DEF CreateJob
  <2>6. new # None
    BY <2>4, RowAssumption
  <2>7. new.gen = created + 1 /\ new.status = "pending"
    OBVIOUS
  <2>8. db[j] = None
    BY DEF CreateJob, JobIds
  <2> HIDE DEF new
  <2> QED BY <2>1, <2>5, <2>6, <2>7, <2>8 DEF CreateJob, historyVars
<1>2. SUFFICES ASSUME NEW g \in Generations, g = created + 1
               PROVE  Lifecycle!Next \/ UNCHANGED Lifecycle!vars
  BY <1>1 DEF Generations
<1>3. ASSUME NEW k \in Generations, k # g \/ k \in overwritten PROVE StageOf(k)' = StageOf(k)
  <2>1. CASE k \in overwritten
    BY <1>1, <2>1 DEF StageOf
  <2>2. CASE k \notin overwritten
    <3>1. (k > created)' <=> k > created
      BY <1>1, <1>2, <1>3, <2>2 DEF Generations
    <3>2. \A i \in JobIds : (db[i] # None /\ db[i].gen = k) <=> (db'[i] # None /\ db'[i].gen = k)
      BY <1>1, <1>2, <1>3, <2>2
    <3>3. \A i \in RowsOf(k) : db'[i] = db[i]
      BY <1>1 DEF RowsOf
    <3> QED BY <1>1, <2>2, <3>1, <3>2, <3>3, StageKept
  <2> QED BY <2>1, <2>2
<1>4. CASE g \in overwritten
  <2>1. \A k \in Generations : StageOf(k)' = StageOf(k)
    BY <1>3, <1>4
  <2> QED BY <1>1, <2>1, NothingMoves
<1>5. CASE g \notin overwritten
  <2>1. StageOf(g) = "unborn"
    BY <1>1, <1>2, <1>5 DEF StageOf
  <2>2. StageOf(g)' = "open"
    <3>1. StageOf(g)' = Stage(db'[j])
      BY <1>1, <1>2, <1>5, StageOfRowNext
    <3> QED BY <1>1, <3>1 DEF Stage
  <2>3. Lifecycle!Create(g)
    BY <1>1, <1>3, <2>1, <2>2, MoveStep DEF Lifecycle!Create
  <2> QED BY <2>3 DEF Lifecycle!Next, Generations
<1> QED BY <1>4, <1>5

-----------------------------------------------------------------------------
(* The refinement.                                                         *)

LEMMA LifecycleInit == Init => Lifecycle!Init
<1> SUFFICES ASSUME Init PROVE Lifecycle!Init
  OBVIOUS
<1>1. created = 0 /\ overwritten = {} /\ posts = {}
  BY DEF Init
<1>2. \A g \in 1 .. MaxCreated : StageOf(g) = "unborn"
  BY <1>1 DEF StageOf
<1> QED BY <1>1, <1>2 DEF Lifecycle!Init

LEMMA LifecycleStep ==
  ASSUME MapInv, MapInv', [Next]_vars
  PROVE  [Lifecycle!Next]_(Lifecycle!vars)
<1>1. CASE Tick \/ UNCHANGED vars
  BY <1>1, TableKept DEF Tick, vars, historyVars
<1>2. CASE Crash
  BY <1>2, MaybePostedStep DEF Crash
<1>3. ASSUME NEW j \in JobIds, NEW c \in Commands, CreateJob(j, c) PROVE [Lifecycle!Next]_(Lifecycle!vars)
  BY <1>3, CreateStep
<1>4. ASSUME NEW a \in Tasks, Dispatch(a) PROVE [Lifecycle!Next]_(Lifecycle!vars)
  BY <1>4, DispatchStep
<1>5. ASSUME NEW h \in Handlers, HandlerStep(h) PROVE [Lifecycle!Next]_(Lifecycle!vars)
  <2>1. CASE DeleteCancel(h) \/ DeletePurge(h) \/ ManualMark(h)
    BY <2>1, CancelStep, PurgeStep, ManualMarkStep
  <2>2. CASE ManualClaim(h)
    <3>1. UNCHANGED <<db, created, posts>> /\ overwritten \subseteq overwritten'
      BY <2>2 DEF ManualClaim
    <3>2. \A g \in Generations : g \notin overwritten' => StageOf(g)' = StageOf(g)
      BY <3>1 DEF StageOf, RowsOf, JobIds
    <3> QED BY <3>1, <3>2, ContestStep DEF MapInv
  <2>3. CASE (\E j \in JobIds : DeleteRead(h, j) \/ ManualRead(h, j)) \/ HandlerRefused(h)
    BY <2>3, TableKept DEF DeleteRead, ManualRead, HandlerRefused, historyVars
  <2> QED BY <1>5, <2>1, <2>2, <2>3 DEF HandlerStep
<1>6. CASE WorkerStep
  <2>1. CASE RepairRead \/ \E j \in JobIds : TakeJob(j)
    BY <2>1, TableKept DEF RepairRead, TakeJob, historyVars
  <2>2. CASE WorkerFlushFails
    BY <2>2, TableKept DEF WorkerFlushFails, EndCycle
  <2>3. CASE CycleTimeout
    BY <2>3, MaybePostedStep, Tables DEF CycleTimeout, EndCycle
  <2> QED BY <1>6, <2>1, <2>2, <2>3, RepairStep, ClaimStep, WorkerMarkStep DEF WorkerStep
<1> QED BY <1>1, <1>2, <1>3, <1>4, <1>5, <1>6, StepOf

\* The scheduler keeps the promise of JobLifecycle for any number of handlers
\* and jobs and any schedules: a story goes out only of a job that is open or
\* under way, and no job comes back once it is sent, cancelled or deleted,
\* unless a session wrote its row from a stale copy.
THEOREM StoryImplementsLifecycle == Spec => ImplementsLifecycle
<1>1. IInv /\ WorkerCopies /\ [Next]_vars => WorkerCopies'
  BY WorkerCopiesStep
<1>2. MapInv /\ MapInv' /\ [Next]_vars => [Lifecycle!Next]_(Lifecycle!vars)
  BY LifecycleStep
<1> QED BY <1>1, <1>2, LifecycleInit, WorkerCopiesInit, Invariance, OutcomeInvariance, PTL
        DEF Spec, ImplementsLifecycle, Lifecycle!Spec, MapInv
=============================================================================
