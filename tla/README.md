# Verification of the Telegram stories scheduler

TLA+ models of `app/`, the checks TLC makes on small instances of them, and theorems
that TLAPS checks for every value of the constants. `PROJECT.json` lists the components,
the runs, the source lines behind each definition, the hazards and the findings.

## The system

An operator schedules Telegram stories by talking to a bot; a worker publishes them from
the operator's own account. Everything runs in one asyncio process (`app/launcher.py`)
over one SQLite file; the bot and the worker can also run as processes of their own.

| component | state | operations | made correct by |
| --- | --- | --- | --- |
| job table (`db/models.py`, `db/repositories`, `db/session.py`) | rows of `scheduled_stories`; per session, the copies it loaded and SQLite's write lock | create, two conditional claims, flush of changed columns by id, cancel, purge | one claim at a time per row; no lock left on an eligible row |
| scheduling rules (`scheduler/rules.py`) | none | next run of a one-time or weekly job, local dates | the first slot that is not over; sane across clock changes |
| scheduler service (`scheduler/service.py`) | through a session | claim, mark sent / retry / failed, plan a retry, repair failed jobs at start | retries keep to the local day; weekly jobs roll forward |
| worker (`worker/service.py`) | `_repair_checked`, the batch in its session | `run_once`, `run_forever` with the cycle timeout | every claimed row is marked; every due row is taken in the end |
| job service (`services/story_jobs.py`) | through a session | create, delete, manual send | exclusive with the worker; a cancelled job is not sent |
| dispatch (`services/story_dispatch.py`, `telegram/story_publisher.py`) | prepared media, the publisher role's lock while publishing | readiness, media, publish with a timeout, one rebuild | SENT means published; duplicates have a cause |
| Telegram runtime (`telegram/runtime.py`, `bootstrap.py`) | per role: client, lock, time of the last contact, peers | stop, invalidate, ensure ready, client context, resolve peer | one user of a client at a time; no client forgotten; a dead one is replaced |
| connectivity monitor (`telegram/health.py`) | per channel: failures, degradation | report failure / success, summary | degraded from the first failure to the first success |
| sessions and authorization (`auth/service.py`, `telegram/client.py`) | session file, runtime string, their parked copies, the refresh lock | dial, refresh the string, log in, re-authorize | a login that fails puts back what it parked; a good session file is enough for every role |
| bot supervision (`bot/runtime.py`, `launcher.py`) | restart attempts | restart with backoff, stop on fatal errors | an outage is outlived, with a delay that fits it |
| conversation (`bot/handlers/create_story.py`) | state and data per chat and user, in the dispatcher's memory | the steps of a story's creation, cancel, and the id prompts of delete and manual send | questions find their answers; one job per conversation, of its own answers |
| media (`bot/media_ingress.py`, `media/`) | files | download, fallback, normalize | a failed download leaves nothing behind |
| mode locks (`config/process_lock.py`) | one lock file per mode | acquire, release, nested in the launcher | a mode runs once per workspace |

Interactions. Bot handlers call the job service, the worker calls the scheduler service
and the dispatch; both end in the dispatch, which takes the lock of the publisher role.
Both work on the table over sessions of their own: SQLite lets one of them write at a
time, and a session that wants to write waits for the busy timeout and then fails. The
worker commits its claim before it dispatches; a manual send does not commit its own
until the request is done, so it keeps the write lock through the publication, and the
table shows the row unclaimed meanwhile. `launcher` runs the worker task and the bot task
side by side inside three nested mode locks. The bot's uploads and the publications share
the `TelegramRuntime`, one client per role; every dial of a client reads the runtime string,
and rebuilds it from the session file that the login writes.

What is hard here: reads that are acted on after an await (delete, repair); two locks
taken in both orders (database and role); answers of Telegram that are lost; a process
that dies, or a cycle that is cancelled, between the claim and the mark; ids that SQLite
gives again; the end of the local day and clock changes; a lock file removed by path;
a client that is replaced between two uses of its role; files that a login moves while others
read them; handlers that come back from a call to a conversation that has moved on.
`PROJECT.json` names each at its line, with the properties about it.

## Modules

| module | what it is |
| --- | --- |
| `SchedulingRules` | the pure functions: `compute_next_run_at`, local dates, `plan_transient_retry` |
| `StoryJobs` | the table with the worker and the handlers; extends `SchedulingRules` |
| `JobLifecycle` | what `StoryJobs` implements: the life of a job, whoever works on it |
| `ProcessLock` | the mode locks |
| `ConnectivityMonitor` | the health of a channel and what a report makes of it |
| `TelegramRuntime` | the roles' clients and the tasks that use them; extends `ConnectivityMonitor` |
| `RoleClients` | what `TelegramRuntime` implements: exclusive use of a client that stays |
| `SessionArtifacts` | session file, runtime string, login and dials |
| `PollingSupervisor` | the restarts of the polling |
| `CreateStoryFlow` | the conversation, as one dispatcher's storage keeps it |
| `BotPlane` | `PollingSupervisor` and `CreateStoryFlow` together |
| `MCSchedulingRules`, `MCStoryJobs`, `MCProcessLock`, `MCBotPlane` | instances for TLC |
| `SchedulingRulesProofs`, `StoryJobsProofs`, `StoryOutcomesProofs`, `MCSchedulingRulesProofs`, `ProcessLockProofs`, `TelegramRuntimeProofs`, `SessionArtifactsProofs`, `BotPlaneProofs` | theorems and proofs |

### SchedulingRules

An instant is a number of seconds of naive UTC, a date the number of a local day, a
weekday the date modulo the week. A zone has one summer time with an offset of
its own: enough for an hour that is skipped and one that is repeated. Python compares two aware datetimes of
one `tzinfo` by their wall clocks and `astimezone(utc)` resolves a wall clock with
`fold = 0`; `localize_utc_naive`, `to_utc_naive` and the comparisons do the same. `RetryDelay`,
`automatic_delivery_local_date` and `plan_transient_retry` are the decisions of
`SchedulerService` that read no database. Weekdays travel through the table as a text
(`encode_weekdays`, `decode_weekdays`); a set stands for it.

### StoryJobs

`db` is the table as committed. A task (the worker, or a handler serving one request) has
a program counter `pc`, the id it works on (`job`), its session's copy of the row (`copy`) and
how its dispatch ended (`outcome`); the worker's session also has the rest of its batch
(`batch`). `writer` is the session with SQLite's write lock, `role` the task with the lock of
the publisher role. Each await at which another task can run ends an action; what lies
between two awaits with no effect on the others is one action:

| actions | code |
| --- | --- |
| `CreateJob` | `create_job`, one transaction; its id is the largest plus one |
| `DeleteRead`, then `DeleteCancel` or `DeletePurge` | `delete_job`: the read, and the flush and commit |
| `ManualRead`, `ManualClaim`, a dispatch, `ManualMark` | `manual_send_job`, one transaction from the claim on |
| `HandlerRefused` | a claim or flush of theirs that fails: row gone, not claimable, or locked for too long |
| `EnsureRoleReady`, `EnsureMedia`, `AcquireRole`, `PublishOk`, `PublishUnheard`, `PublishFails`, `MediaInvalid`, `RebuildMedia` | `dispatch_claimed_job`, for a handler or the worker |
| `RepairRead`, `RepairCommit` | `repair_recoverable_failed_jobs`: the list, and the flushes with their commit |
| `ClaimDueJobs`, `TakeJob`, `WorkerMark` | `run_once`: the claim and its commit, the loop, a mark with its commit |
| `WorkerFlushFails`, `CycleTimeout`, `Crash` | a flush that fails, `wait_for` of `run_forever`, the process's end and restart |

A flush writes the columns that differ between the copy a session loaded and what it made
of it (`Flush`), by id: over a row that has changed since, it mixes the two. `Stale` notes
such rows, and rows deleted by a session whose copy is another, in the history variable `overwritten`. Other history variables are `posts` (what
Telegram has), `duplicates` (stories out twice: a one-time one ever, a weekly one by the
worker within a day) and `unheard` (publications no mark records). `gen` numbers the rows
ever created, so that a new row is told from an old one with its id.

Abstracted: `lock_token` is never compared and always set with `locked_at`, which stands for
both; `attempt_count`, `last_sent_at` and `updated_at` decide nothing; `last_error` is what
`looks_like_transient_failure_message` makes of it; the path of prepared media is whether
`EnsureMedia` flushes one (as a commit's only column it makes no row stale). Failures are
the classes of `classify_publish_exception` with what their text looks like. The `limit=500` of the
repair's list is not reached. `delete_pending` and `cancel_pending` are called by nothing
in the program and are left out.

`JobLifecycle` is the same as the operator sees it, without rows, copies and locks: a job is open
or under way until it is sent or cancelled, then it can only be removed; its story goes out
while it is open (a manual send) or under way (the worker), and it is called sent only after.
`StoryJobs` maps a generation to the stage of its row (`StageOf`). A generation in `overwritten` is
contested: about a row that was written, or deleted, from a copy that was not the row any more
the code promises nothing, and `CancelledUnsent` and `DuplicateExplained` show what becomes of it.

### ProcessLock

`path` is the file at a mode's lock path, `handle` the file each process has open for a mode,
`holder` whose lock is on a file. `acquire` is two steps (open, lock) and `release` three (unlock, close,
unlink), so another process can come between any two. `Program` is the modes a process
takes: three for the launcher, one for the bot's or the worker's command. A `Kill` at any
point closes the handles and leaves the files. `UnlinkOpenFails` is the platform: Windows refuses to remove
an open file, POSIX does not.

### TelegramRuntime

`table`, `fresh` and `peers` are `_clients`, the age of `_last_probe_monotonic` and `_peer_cache`,
`lock` who has a role's `asyncio.Lock`. `link` is the connection of each client object, as the
network and as Telethon know it: `broken` is dead and not noticed. A task goes through
`ensure_role_ready` (`Ensure*`, `ProbeOk`, `ProbeFails`, `Dial*`), lets go of the lock (`Proceed`), takes
it again in `client_context` (`Context*`), uses the client (`ResolvePeer`, `UseEnds`, `PublishFails`) and,
if it is the worker, invalidates the role after a failure. An upload begins at
`client_context`, as `_download_via_mtproto` does. `DialTimesOut` and `CycleTimeout` cut a step off;
`BeginStop` and `StopRole` are the end of the launcher. A manual send that fails
transiently invalidates nothing, and nor does an upload: only the worker's failures do.
`start` and `start_role` are called by nothing and are left out. Time is the Boolean "the last
contact is younger than the probe interval".

`RoleClients` says what a user of the runtime relies on: a task takes the role's client, has
it to itself, and nobody closes or replaces it until it is given back. The refinement mapping
reads the user of a role off its lock.

### SessionArtifacts

A session is the key in it; Telegram has the set of keys it accepts, from which another
device can take any (`Revoke`). `disk` and `backup` are the two files and their `.preauth.bak`
copies; a file can be missing, blank (a new session file), empty or torn (an interrupted
`write_text`). The login is one sequence of steps, from the auth command (`forced`, which parks
first) or from the launcher (which holds every mode lock, so that nothing dials beside it).
Any step of it can fail, the write of the string and the removal of the parked copies after the
sign-in too; what follows is `Restore`, the `except` of `authorize_interactively`. Each step that
touches more than one file, or writes text, has the outcomes it can leave half-way
(`PartlyParked`, `PartlyRemoved`, `PartlySaved`, `PartlyDiscarded`, `PartlyRestored`): an error
leads from one of them to `Restore`, the death of the process (`InterruptLogin`) ends the login there.
The dials are `connect_runtime_client`: read the string, prepare it if it is missing, connect,
and after a refusal rebuild it once under the mode lock `telegram-runtime-session` and begin
again; whoever finds that lock taken waits for any string. That lock is `ProcessLock`'s
subject and one step here. `TelegramRuntime`'s dial is the whole of this.

### BotPlane

aiogram runs the handler of each update as a task: it is chosen by the state when the
update comes, and what it does before its first call to Telegram is one step with that; the
rest is in `tasks`, in one of the `Slots`, and any other update may come in between. A call that fails ends a task
(`CallFails`). An answer is stored as the number of the conversation that gave it: `conv`
counts them, `over` has those that made their job or were cleared, `hurried` those in which an
update came before the last one was done with. `PollingEnds` leaves the running tasks behind,
orphaned: their storage is nobody's, but a job they are storing is still made. `PollingBegins`
has a fresh storage; an update that Telegram delivers again is one more update. The delay of
the supervisor is a whole number of ticks and its factor a fraction, `FactorNum / FactorDen`; the run has the
default factor of 1.8 and tenths of the first delay for ticks. `MaxPower` is the largest exponent
that the floats represent (some 1207 for that factor).

## Runs

Bounds common to the runs of `StoryJobs`: a day of three or four seconds, a week of two or
three days, delays of one and two seconds, so that a retry, its doubling, its cap, a flood
wait and the end of the day all come within reach of `MaxTime`; local time one second
ahead of UTC, so that local and UTC dates differ. A lock's time-to-live of two is shorter
than a publication can take.

| run | instance | shows |
| --- | --- | --- |
| `story_jobs` | a job of either kind, one handler, one crash or timeout, two slots of the weekly job, the one-time job's day and its end | `TypeOK`, `DispatchExclusive`, `ClaimStands`, `EligibleUnlocked`, `RetryWithinDay`, `SentWasPublished`, `DuplicateExplained`, `WeeklyRollsForward`, `WeeklyOncePerDay`, `SomeoneGoesOn`, `ClaimsAreMarked` |
| `story_jobs_batch` | three due jobs in batches of two, a crash or timeout, no operator, fair | `CycleMarksAll`, `DueIsTaken` |
| `story_jobs_live` | one handler and the worker, fair | `TasksFinish`, `DueIsTaken`, `ImplementsLifecycle` |
| `process_lock_windows` | two launchers and a worker command | `TypeOK`, `ModeExclusive`, `LocksOwned` |
| `telegram_runtime` | the worker, a manual send and an upload, three client objects, one trouble of the network or of a link that does not heal by itself, a stop; fair | `TypeOK`, `ClientsOwned`, `PeersCurrent`, `StopLeavesLate`, `ReadyNotDegraded`, `ImplementsRoleClients`, `PublisherRecovers` |
| `session_artifacts` | two roles, a login of either kind at any time, two keys, one step that ends half-way, errors that change no file, the network and revocations without bound; fair | `TypeOK`, `RefreshExclusive`, `NoBackupLeft`, `LastSessionKept`, `FailureHarmless`, `ConnectsAgain` |
| `bot_plane` | two conversations, two updates handled at once, three restarts before the floats end, one crash | `TypeOK`, `AnswersAtHand`, `OneConversation`, `BackoffFits`, `GivesUpLate`, `EndedForGood` |
| `rules` | every weekly schedule of three days, asked at each of 41 instants before, in and after summer time | `FirstSlot`, `DaylightSafe` |

One job is enough for what two tasks do to a row; three are there where rows compete for a
batch. One handler and the worker meet at a row in every way two tasks can; that two
handlers exclude each other is proved, for any number of them. The runs of `StoryJobs` do
not check deadlock: at the last instant, with every row created, the model stops; so does
`rules` at its last instant. Four runs
end in a violation; see Findings. `RetryWithinDay`, `SentWasPublished`, `WeeklyRollsForward` and `WeeklyOncePerDay` exempt rows
that a stale copy was flushed over: that such flushes happen is a hazard of its own, which
`DuplicateExplained` names as one of its causes. `DuplicateExplained` speaks of
one-time jobs; for weekly ones `weekly_no_duplicates` shows that it fails. What does hold of them is
`WeeklyOncePerDay`: an attempt that the schedule made, and neither a retry nor the repair, is on a day on
which the story has not gone out. `ClaimsAreMarked` leaves out a cycle that is cut off, and one
whose flush is refused (the write lock, a row that is gone): the error leaves `run_once` with the
rest of the batch in PROCESSING, which `ProcessingEnds` is about.

Fairness (`TaskFairness`). The event loop runs a task that can go on: weak fairness for steps that
only the task's own state enables, strong fairness for steps that wait for the role's
lock (an `asyncio.Lock` serves its waiters in order) or for SQLite's write lock (asked for
again by every cycle, with a busy timeout whose end is an action as well). Telegram and
the operators owe nothing, except that a publisher is not unreachable for ever:
`ClaimDueJobs` stands for a cycle whose `ensure_role_ready` says yes. The operators' requests and the interruptions are not fair.

In `telegram_runtime` three clients are one for each role and one for a dial that was cut off.
Fair are the steps of tasks and dials, which end by an answer or by the timeout that each call
of the runtime has, and the worker's next cycle; `PublisherRecovers` supposes that the network
is up for good and that the program is not stopped. In `session_artifacts` the second key is the new login's; the
dials' steps are fair for the same reason, and the roles dial again, as cycles and uploads do;
the operator owes nothing. The three runs do not check deadlock: a stopped program, a
supervisor that gave up and an operator who does nothing are ends.

The properties of the conversation speak of conversations whose updates came one after the
other. For overlapping ones they do not hold, and the code has no guard for them: an upload
that ends after a cancel, two times sent at once, a manual send that returns into a new
conversation. `PROJECT.json` lists each as a hazard. `LastSessionKept`, `NoBackupLeft` and `FailureHarmless` leave
out what follows an interrupted login and a revoked session in the login's own hands, for the
reasons the next section gives. A login that fails owes the session it parked and not one of its own
that it signed in before it failed (`ToKeep`), and it owes the parked one while its copy is there:
`FailureHarmless` asks for `backup["session"]` at the step that puts back, and a copy that a failed
`Discard` has removed is not.

## Findings

What the code does otherwise than a document, message or comment of the repository says;
each is a run that TLC must find violated.

- `ProcessingEnds`: a row left PROCESSING by a crash or a cycle timeout stays so for ever. Both
  claims take PENDING and FAILED rows only, so the stale-lock clause they share never
  applies to one. (`NoStaleLock` proves that it never applies to any other either.)
- `CancelledUnsent`: a delete that read the row before the worker's claim cancels a job that is
  then published.
- `WeeklyNoDuplicates`: a weekly job that was sent and failed on the same day is requeued
  for that day.
- `ModeExclusive` on POSIX: `release` removes by path a file another process has locked since.

Two smaller ones are in the model and have no run of their own. The claim takes a retry
however late it is, so one that waits past midnight runs on a later day, though the
README says "during the same local day". A manual send of a future one-time job that
fails leaves it FAILED with a text that looks transient: the next start's repair requeues
it for now, before its date and time.

Others belong to the newer modules; each is in the model or left out of a property by name:

- The delay of the supervisor overflows: after some 1209 runs in a row that failed on the
  network, about a day without Telegram at start, `factor ** (n - 1)` raises `OverflowError` and the bot
  stops for good, while the worker goes on (`bot/runtime.py:60`). `GivesUpLate` says that nothing less does it.
- The forced login says that the parked files come back if the login does not succeed
  (`auth/service.py:149`). Ctrl-C at a prompt, or an error while parking, puts nothing back, and
  the next forced login removes the copy (`:76`).
- A login that has signed in fails when the string cannot be written or a parked copy not removed
  (`auth/service.py:281`, `288`). What was parked is then put back over the new session file: a forced login that
  began because Telegram had ended the old session leaves the operator with that old one, and the new
  one, which Telegram accepts, is in no file (`:304`). If the session's copy was removed already and the
  string's could not be, the new session file is removed and there is nothing to put in its place, which is not what
  `:149` says. `SaveFails` and `DiscardFails`, each followed by `Restore`, have both.
- A login that fails after there was only a runtime string leaves a blank session file; the
  launcher then looks at that and not at the string (`telegram/client.py:362`).
- Half a runtime string, from a write that was cut off, makes every dial fail and is never
  rebuilt (`telegram/client.py:164`, `502`).
- A dial that a timeout cuts off can leave a connected client behind (`telegram/runtime.py:155`).
- The media role's client is neither probed nor invalidated (`bot/media_ingress.py:307`).
- Each failed fetch of updates is reported twice, by the filter of either log handler, so the hint
  meant for the second failure comes with the first (`config/logging.py:98`).

## Theorems

`SchedulingRulesProofs` proves of the next run of a weekly job, for every length of day and week,
every set of weekdays, both offsets and both ends of summer time, given that the last publication is not on
a later day than now's:

- `WeeklyFirstSlot`, in any zone: there is one, and if the offset is the same at every instant up to it, it is the
  first slot that is not over and not on the day of the last publication.
- `WeeklyDay`, where the clocks do not change across midnight (`OrdinaryZone`): whatever they do meanwhile, it is
  on a selected day, not before today and not that of the last publication, and it is past by at most the
  difference of the offsets.

`MCSchedulingRulesProofs` has the run's properties from them, for every question in place of the run's:

| theorem | property |
| --- | --- |
| `NextRunIsFirstSlot` | `FirstSlot` |
| `NextRunOnItsDay` | `DaylightSafe`, assuming `OrdinaryZone` |

The argument: any `DaysPerWeek` consecutive days meet every weekday (`ResidueInWindow`), the window without
today is that long (`WeeklyWindow`), its least candidate exists (`LeastElement`), and a wall clock is taken
apart into date and time in one way (`DayAndTime`). `OrdinaryZone` has two uses. Where a repeated hour reaches
across midnight, a later instant can have an earlier local date (`DatesGrow` is the converse), and the
last publication could be on a day to come. Where a skipped hour ends at midnight or crosses it, a slot within it
runs on the next day, which need not be a selected one: so it is in a zone like Greenland's,
whose summer time begins on a Saturday at 23:00. Nearly every zone is ordinary; the types and the bounds of the retry
plan need no such assumption.

`StoryJobsProofs` proves of `Spec`, for any number of handlers, jobs, rows, any batch size, any
delays and any zone, from the assumptions in the two modules (`StoryJobsAssumption`,
`RowAssumption`, `CalendarAssumption`, `RetryAssumption`, `NoneAssumption`):

| theorem | property |
| --- | --- |
| `TypeCorrect` | `TypeOK` |
| `ExclusiveDispatch` | `DispatchExclusive` |
| `ClaimsStand` | `ClaimStands` |
| `NoStaleLock` | `EligibleUnlocked` |

None is inductive alone. The invariant `IInv` has three parts.
`TypeInv` adds to the types that a task in a dispatch, a delete or a claim has a row in hand.
`ClaimInv` says that a dispatching handler has the write lock and that the table shows its
row unclaimed (`ManualHolds`), that what the worker holds is PROCESSING or cancelled in the
table (`ClaimStands`), that no generation is larger than the number created (`KnownGenerations`:
a new row under an old id is not the one claimed), and that the row under dispatch has left
the batch (`OneInHand`). Exclusion follows: two handlers cannot both have the write lock, and a row
cannot be unclaimed for one and PROCESSING for the other. `LockInv` says that copies under dispatch
carry a lock, so that marking them writes the cleared columns (`CopiesLocked`), and that the copies
the repair and a delete took carry none, so that their flush leaves the column of the row
alone (`RepairListUnlocked`, `DeleteCopiesUnlocked`). Lemmas state what each marking function makes of a row; then each
part is preserved action by action.

`StoryOutcomesProofs` goes on from `IInv` to what becomes of a story:

| theorem | property |
| --- | --- |
| `SentMeansPublished` | `SentWasPublished` |
| `DuplicatesHaveCauses` | `DuplicateExplained` |
| `RetriesKeepDay` | `RetryWithinDay` |
| `FailedWeekliesRoll` | `WeeklyRollsForward`, assuming `OrdinaryZone` |
| `WeekliesOncePerDay` | `WeeklyOncePerDay`, assuming `OrdinaryZone` |
| `CyclesMarkAll` | `CycleMarksAll` |
| `ClaimsLeaveMarked` | `ClaimsAreMarked` |
| `NoCircleOfWaits` | `SomeoneGoesOn` |
| `StoryImplementsLifecycle` | `ImplementsLifecycle` |

The first five are about rows that no stale copy was flushed over, so the first step is that a step does
one of a few things to such a row (`RowSteps`): it creates it, claims or cancels it, marks
what a task has under dispatch as sent or failed, or repairs it. This needs that a manual send
works on the row it claimed (`ManualCopies`): from its claim to its commit nobody else writes
(`OnlyItsMark`). Then:

- A task that is about to mark a success has published (`SentIsOut`), whence `SentMeansPublished`.
- A plan that retries does so at an instant of the planned day (`RetryPlanDay`).
- The last publication of a row is not in the future (`LastSentPast`), also for the copies the
  repair listed, marked as of the time it read them; the next slot then comes from `WeeklyDay`. Both
  need that local dates do not go back, hence `OrdinaryZone`.
- A weekly story that went out on a day is recorded in its row as published on that day or later, or a task that has
  just published it is about to mark it (`PostsRecorded`). Unless a failure or the repair set it, a row's
  next run is on a later day than its last publication (`ScheduledLater`), and what is claimed was due
  (`ClaimedDue`), so it is published on such a day. Together with `LastSentPast` and `PostsPast` (no publication is on
  a day to come) that is `DayInv`; what the worker publishes is the row it claimed (`WorkerCopies`, below), whence
  `WeekliesOncePerDay`.
- What may still be published is not out (`UnsentInv`): neither what is under dispatch, nor what the
  worker has claimed, nor a pending or failed row, unless a handler has published it and is
  about to mark it. When a publication succeeds, nothing else that could be published is of
  the same job, because two ids never have one job (`GenerationsApart`), a claim stands and two
  tasks never dispatch one row; and an interruption after a publication leaves it unheard.
- Alone and undisturbed, the worker holds every row in PROCESSING and each is in the table
  (`CycleInv`), so that no flush fails.

- A claimed row leaves the worker's hands by its mark, by a flush that is refused or by an interruption, and
  by nothing that a handler does (`HeldLeaves`); the mark changes the status of the copy, so the flush
  writes it whatever the row has become (`MarkedByWorker`).
- Who has the role's lock is publishing or rebuilding (`RoleInUse`), and a handler that rebuilds has the write lock
  since its claim (`ManualHolds`). So the holder of the role waits for nothing but a lock whose wait has an
  end, and when nobody has it nobody waits for it.

The refinement adds to the invariants that what the worker has claimed is still the row of the table, or stale
(`WorkerCopies`): with `ManualCopies` this gives the stage of whatever a task publishes
(`PublishingStage`). An action that writes one row moves at most that row's job (`OneRowStep`),
because a row alone has its generation (`GenerationsApart`); a claim moves its whole batch; the repair
leaves every job open that it finds so. What a stale copy touches is contested (`ContestStep`).

`ProcessLockProofs` proves, for any processes, modes, files and nesting of modes:

| theorem | property |
| --- | --- |
| `TypeCorrect` | `TypeOK` |
| `NoLockLeftBehind` | `LocksOwned`, on every platform |
| `ModeRunsOnce` | `ModeExclusive`, assuming `UnlinkOpenFails` |

The invariant `LocksInv` adds how deep a process is at each of its steps (`LevelInv`), that a
process inside a mode has its file open and locked (`InsideLocked`), and that no file serves two
modes (`FilesApart`), without which giving back an inner lock could give back an outer one.
`ModeRunsOnce` adds that an open file is the one at its mode's path (`OpenLinked`), which is what
POSIX breaks: two processes inside one mode then have the same file locked.

`TelegramRuntimeProofs` proves, for any senders, uploads, clients and bounds:

| theorem | property |
| --- | --- |
| `TypeCorrect` | `TypeOK` |
| `NoClientForgotten` | `ClientsOwned` |
| `NoStalePeer` | `PeersCurrent` |
| `StopIsComplete` | `StopLeavesLate` |
| `ReadyMeansAnswered` | `ReadyNotDegraded` |
| `RuntimeImplementsRoleClients` | `ImplementsRoleClients` |

The invariant joins to the types that a task holds its role's lock exactly while it probes,
dials or uses a client (`LockInv`), that a role being dialled has no client in the table
(`DiallingEmpty`, without which a finished dial could replace a client and forget it), and, for the
end of the program, that a client still in the table is of a role that is yet to be stopped or
was dialled late (`StopInv`). The refinement follows from `LockInv`: the user of a role is the
holder of its lock, so no step of another task changes the client meanwhile.

`SessionArtifactsProofs` proves, for any dials, keys and interruptions:

| theorem | property |
| --- | --- |
| `TypeCorrect` | `TypeOK` |
| `OneRefresh` | `RefreshExclusive` |
| `CopiesDiscarded` | `NoBackupLeft` |
| `FailedLoginHarmless` | `FailureHarmless` |
| `SessionSurvives` | `LastSessionKept` |

Beside the types, the invariant says of the login what it knows at each step (`LoginKnows`,
`ClientOfFile`), that a copy is of an artifact it has parked (`CopiesParked`), and that the session it found
is in the file, then parked, and at the end still parked or discarded (`FoundSessionSafe`). `DialLeaves` is what
makes these stable under the dials: all that one does to the session file is to create a blank one.
The steps that fail are one case of the proofs: each leaves the files as they were or in one of the
half-way outcomes (`FailsHalfDone`), and what those have in common is stated of them once
(`HalfDoneTyped`, `HalfDoneCopies`, `KeptHalfDone`): the session to be kept is in its file or in its copy.

`BotPlaneProofs` proves, for any conversations, slots, restarts and crashes:

| theorem | property |
| --- | --- |
| `PlaneTyped` | `TypeOK` |
| `BackoffGrows` | `BackoffFits` |
| `StopsLate` | `GivesUpLate` |
| `OneJobEach` | `EndedForGood` |
| `JobOfOneConversation` | `OneConversation` |
| `QuestionsFindAnswers` | `AnswersAtHand` |

`BackoffGrows` is about the powers of the factor, which are a recursive function: that there is one
(`PowerDefined`) comes from the finite ones up to each exponent, which exist and agree (`PowersExist`,
`PowersAgree`) because there is no least exponent for which they do not. Powers are positive
(`PowerPositive`); one more factor in numerator and denominator makes a quotient no smaller, rounded down to
ticks as it is (`QuotientGrows`), nor its minimum with the largest delay (`DelayGrows`). `TasksInv` is common to the last three: in a conversation that is not hurried one update is handled
at a time (`OneAtATime`), and what a dead dispatcher left running makes a job or nothing
(`OrphansCreate`). For `OneJobEach`, a conversation that is over, or whose job an orphan has in
hand, has nothing in the storage that could lead to another (`NothingStored`), and no task creates
one twice (`NoneToCome`, `OneCreation`). For `QuestionsFindAnswers`, the state that a task is about
to set already finds its answers (`AnswersFit`): between the two, no other update changes them.

Only model-checked: the four liveness properties, `TasksFinish`, `DueIsTaken`, `PublisherRecovers` and
`ConnectsAgain`, which are out of the prover's reach. Every other property of a passing run is a theorem.

## Not modelled

Media preparation, presentation, configuration, migrations and packaging: I/O and formatting
without state to interleave. Of the media ingress, the search for the message in the dialog
(scores over its messages) and the file on disk; of the logging, all but the filter's reports.
aiogram and Telethon are external: what they do is modelled as far as `app/` relies on it.

## Plan

The Bot API channel of the monitor, as the log filter drives it, with the hint once per outage.
