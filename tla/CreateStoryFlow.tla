--------------------------- MODULE CreateStoryFlow ---------------------------
(***************************************************************************)
(* The conversation in which the operator schedules a story                *)
(* (bot/handlers/create_story.py), with the other handlers that touch its  *)
(* state, as one dispatcher's memory storage keeps it for one operator.    *)
(*                                                                         *)
(* aiogram runs the handler of each update as a task of its own.  The      *)
(* handler is chosen by the state at the arrival of the update, and what   *)
(* it does to the storage before its first call to Telegram is one step    *)
(* with the arrival; what it does after a call is a step of the task, and  *)
(* other updates may come in between.  A call that fails ends the task.    *)
(***************************************************************************)
EXTENDS Integers

CONSTANTS
    MaxConversations,  \* bound: conversations begun
    Slots              \* bound: updates being handled at once

ASSUME FlowAssumption == MaxConversations \in Nat

VARIABLES
    state,    \* the state of the storage
    data,     \* its data
    tasks,    \* the handlers that have yet to change something, or NoTask
    conv,     \* history: the conversations begun so far
    over,     \* history: those whose data were cleared
    hurried,  \* history: those with an update that came while another was handled
    jobs      \* history: how many jobs each has made

flow == <<state, data, tasks, conv, over, hurried, jobs>>

Conversations == 1 .. MaxConversations

States ==
    {"none", "choosing_type", "choosing_days", "waiting_media", "waiting_caption", "waiting_date",
     "waiting_date_manual", "waiting_time_choice", "waiting_time_input", "waiting_job_id"}

Fields == {"schedule_type", "selected_days", "media", "caption", "scheduled_date"}

\* An answer is the conversation that gave it, or 0; of the type, also which.
Data ==
    [kind : {"none", "once", "weekly"},
     answers : [Fields -> 0 .. MaxConversations]]

NoData == [kind |-> "none", answers |-> [f \in Fields |-> 0]]

Task ==
    [does : {"nothing", "set_state", "download", "fallback", "create", "clear"},
     to : States,
     given : Data,
     conv : 0 .. MaxConversations,
     live : BOOLEAN]

NoTask == [does |-> "nothing", to |-> "none", given |-> NoData, conv |-> 0, live |-> FALSE]

FlowTypeOK ==
    /\ state \in States
    /\ data \in Data
    /\ tasks \in [Slots -> Task]
    /\ conv \in 0 .. MaxConversations
    /\ over \subseteq 0 .. MaxConversations
    /\ hurried \subseteq 0 .. MaxConversations
    /\ jobs \in [Conversations -> Nat]

FlowInit ==
    /\ state = "none"
    /\ data = NoData
    /\ tasks = [i \in Slots |-> NoTask]
    /\ conv = 0
    /\ over = {}
    /\ hurried = {}
    /\ jobs = [c \in Conversations |-> 0]

-----------------------------------------------------------------------------
(* Updates *)

Live == {i \in Slots : tasks[i].live}

\* History: whom an update that belongs to conversation c hurries.
Hurries(c) ==
    hurried' = IF Live = {} THEN hurried ELSE hurried \cup {c} \cup {tasks[i].conv : i \in Live}

\* The handler goes on after its call.
Handles(does, to, given, c) ==
    /\ \E i \in Slots :
         /\ tasks[i] = NoTask
         /\ tasks' = [tasks EXCEPT ![i] =
              [does |-> does, to |-> to, given |-> given, conv |-> c, live |-> TRUE]]
    /\ Hurries(c)

Asks(to) == Handles("set_state", to, NoData, conv)

Answer(d, f) == [d EXCEPT !.answers[f] = conv]

\* The conversations of an older dispatcher whose job may yet be made.
Orphans == {tasks[i].conv : i \in {j \in Slots \ Live : tasks[j].does = "create"}}

\* state.clear()
Clear ==
    /\ state' = "none"
    /\ data' = NoData
    /\ over' = over \cup ({conv} \ Orphans)

\* Mutant of schedule_story_start: the answers of the last conversation stay.
schedule_story_start_anew ==
    /\ conv < MaxConversations
    /\ conv' = conv + 1
    /\ Handles("set_state", "choosing_type", NoData, conv + 1)
    /\ UNCHANGED <<state, data, over, jobs>>

schedule_story_start ==
    /\ conv < MaxConversations
    /\ conv' = conv + 1
    /\ Clear
    /\ Handles("set_state", "choosing_type", NoData, conv + 1)
    /\ UNCHANGED jobs

choose_schedule_type(kind) ==
    /\ state = "choosing_type"
    /\ data' = [Answer(data, "schedule_type") EXCEPT
                  !.kind = kind,
                  !.answers["selected_days"] = IF kind = "weekly" THEN 0 ELSE @]
    /\ Asks(IF kind = "once" THEN "waiting_media" ELSE "choosing_days")
    /\ UNCHANGED <<state, conv, over, jobs>>

\* One day stands for all.
toggle_weekday ==
    /\ state = "choosing_days"
    /\ data' = [data EXCEPT !.answers["selected_days"] = IF @ = 0 THEN conv ELSE 0]
    /\ Hurries(conv)
    /\ UNCHANGED <<state, tasks, conv, over, jobs>>

confirm_weekdays ==
    /\ state = "choosing_days"
    /\ data.answers["selected_days"] # 0
    /\ Asks("waiting_media")
    /\ UNCHANGED <<state, data, conv, over, jobs>>

\* A photo, or a video that is not too large.
handle_media ==
    /\ state = "waiting_media"
    /\ Handles("download", "waiting_caption", NoData, conv)
    /\ UNCHANGED <<state, data, conv, over, jobs>>

\* /skip is an answer too.  Without a type the handler fails after the update.
handle_caption ==
    /\ state = "waiting_caption"
    /\ data' = Answer(data, "caption")
    /\ IF data.kind = "none"
       THEN Hurries(conv) /\ UNCHANGED tasks
       ELSE Asks(IF data.kind = "once" THEN "waiting_date" ELSE "waiting_time_choice")
    /\ UNCHANGED <<state, conv, over, jobs>>

choose_date_from_keyboard ==
    /\ state = "waiting_date"
    /\ data' = Answer(data, "scheduled_date")
    /\ Asks("waiting_time_choice")
    /\ UNCHANGED <<state, conv, over, jobs>>

request_manual_date ==
    /\ state = "waiting_date"
    /\ Asks("waiting_date_manual")
    /\ UNCHANGED <<state, data, conv, over, jobs>>

\* A date that can be read and is not past; another one changes nothing.
accept_date_input ==
    /\ state \in {"waiting_date", "waiting_date_manual"}
    /\ data' = Answer(data, "scheduled_date")
    /\ Asks("waiting_time_choice")
    /\ UNCHANGED <<state, conv, over, jobs>>

request_manual_time ==
    /\ state = "waiting_time_choice"
    /\ Asks("waiting_time_input")
    /\ UNCHANGED <<state, data, conv, over, jobs>>

\* A time that can be read.  The job is made of the data as they are now;
\* without type or media the handler fails.
finalize_time_input ==
    /\ state \in {"waiting_time_choice", "waiting_time_input"}
    /\ data.kind # "none"
    /\ data.answers["media"] # 0
    /\ Handles("create", "waiting_time_input", data, conv)
    /\ UNCHANGED <<state, data, conv, over, jobs>>

\* /start and the button that cancels
Cancels ==
    /\ Clear
    /\ Hurries(conv)
    /\ UNCHANGED <<tasks, conv, jobs>>

\* delete_task_start and manual_send_start
AsksForJob ==
    /\ Asks("waiting_job_id")
    /\ UNCHANGED <<state, data, conv, over, jobs>>

\* delete_task_by_id and manual_send_by_id: the service is called, which may
\* publish, before the state is cleared.
TakesJob ==
    /\ state = "waiting_job_id"
    /\ Handles("clear", "none", NoData, conv)
    /\ UNCHANGED <<state, data, conv, over, jobs>>

-----------------------------------------------------------------------------
(* What the handlers do after a call *)

Done(i) == tasks' = [tasks EXCEPT ![i] = NoTask]

\* What a task of an older dispatcher would still do to its own storage is
\* nothing to the new one.
GoesOn(i, does) ==
    IF tasks[i].live THEN tasks' = [tasks EXCEPT ![i].does = does] ELSE Done(i)

SetsState(i) ==
    /\ tasks[i].does = "set_state"
    /\ Done(i)
    /\ state' = tasks[i].to
    /\ UNCHANGED <<data, conv, over, hurried, jobs>>

\* The Bot API refuses a large file; the operator's own account may get it.
FallsBack(i) ==
    /\ tasks[i].does = "download"
    /\ GoesOn(i, "fallback")
    /\ UNCHANGED <<state, data, conv, over, hurried, jobs>>

\* The file is there and prepared.
MediaReady(i) ==
    /\ tasks[i].does \in {"download", "fallback"}
    /\ GoesOn(i, "set_state")
    /\ data' = [data EXCEPT !.answers["media"] = tasks[i].conv]
    /\ UNCHANGED <<state, conv, over, hurried, jobs>>

\* A call to Telegram or to a service raises, or the media cannot be had.
CallFails(i) ==
    /\ tasks[i].does \notin {"nothing", "create"}
    /\ Done(i)
    /\ UNCHANGED <<state, data, conv, over, hurried, jobs>>

Complete(d) ==
    /\ d.answers["media"] # 0
    /\ \/ d.kind = "once" /\ d.answers["scheduled_date"] # 0
       \/ d.kind = "weekly" /\ d.answers["selected_days"] # 0

\* A task of an older dispatcher makes the job too.
JobCreated(i) ==
    /\ tasks[i].does = "create"
    /\ Complete(tasks[i].given)
    /\ Done(i)
    /\ jobs' = [jobs EXCEPT ![tasks[i].conv] = @ + 1]
    /\ over' = over \cup {tasks[i].conv}
    /\ IF tasks[i].live
       THEN state' = "none" /\ data' = NoData
       ELSE UNCHANGED <<state, data>>
    /\ UNCHANGED <<conv, hurried>>

\* Mutant of TimeRefused: the answers are cleared as well.
TimeRefusedClearing(i) ==
    /\ tasks[i].does = "create"
    /\ tasks[i].given.kind = "once"
    /\ tasks[i].given.answers["scheduled_date"] # 0
    /\ GoesOn(i, "set_state")
    /\ data' = NoData
    /\ UNCHANGED <<state, conv, over, hurried, jobs>>

\* The time is past or too near: another one is asked for.
TimeRefused(i) ==
    /\ tasks[i].does = "create"
    /\ tasks[i].given.kind = "once"
    /\ tasks[i].given.answers["scheduled_date"] # 0
    /\ GoesOn(i, "set_state")
    /\ UNCHANGED <<state, data, conv, over, hurried, jobs>>

\* No date, no days, or no database: the conversation is to be cleared.
CreateFails(i) ==
    /\ tasks[i].does = "create"
    /\ GoesOn(i, "clear")
    /\ UNCHANGED <<state, data, conv, over, hurried, jobs>>

Clears(i) ==
    /\ tasks[i].does = "clear"
    /\ Done(i)
    /\ Clear
    /\ UNCHANGED <<conv, hurried, jobs>>

-----------------------------------------------------------------------------
(* Dispatchers *)

\* The dispatcher is gone, its tasks are not; those that would only change
\* its storage no longer matter.
DispatcherGone ==
    /\ tasks' = [i \in Slots |->
                   IF tasks[i].does = "create" THEN [tasks[i] EXCEPT !.live = FALSE] ELSE NoTask]
    /\ UNCHANGED <<state, data, conv, over, hurried, jobs>>

\* Mutant of FreshDispatcher: the storage outlives the dispatcher.
FreshDispatcherSameStorage == UNCHANGED flow

\* Each run of the polling has a dispatcher of its own, with an empty storage.
FreshDispatcher ==
    /\ state' = "none"
    /\ data' = NoData
    /\ UNCHANGED <<tasks, conv, over, hurried, jobs>>

\* The process has ended, with everything in its memory.
ProcessGone ==
    /\ state' = "none"
    /\ data' = NoData
    /\ tasks' = [i \in Slots |-> NoTask]
    /\ UNCHANGED <<conv, over, hurried, jobs>>

-----------------------------------------------------------------------------
Update ==
    \/ schedule_story_start
    \/ \E kind \in {"once", "weekly"} : choose_schedule_type(kind)
    \/ toggle_weekday
    \/ confirm_weekdays
    \/ handle_media
    \/ handle_caption
    \/ choose_date_from_keyboard
    \/ request_manual_date
    \/ accept_date_input
    \/ request_manual_time
    \/ finalize_time_input
    \/ Cancels
    \/ AsksForJob
    \/ TakesJob

Continue(i) ==
    \/ SetsState(i)
    \/ FallsBack(i)
    \/ MediaReady(i)
    \/ CallFails(i)
    \/ JobCreated(i)
    \/ TimeRefused(i)
    \/ CreateFails(i)
    \/ Clears(i)
-----------------------------------------------------------------------------
(* Properties, of the conversations whose updates came one after the other: *)
(* when one comes while another is being handled, the code promises little. *)

Calm == conv \notin hurried

\* The data have what the handlers of a state read.
Fits(s, d) ==
    /\ s = "choosing_days" => d.kind = "weekly"
    /\ s \in {"waiting_media", "waiting_caption"} =>
         d.kind = "once" \/ (d.kind = "weekly" /\ d.answers["selected_days"] # 0)
    /\ s \in {"waiting_date", "waiting_date_manual"} => d.kind = "once"
    /\ s \in {"waiting_caption", "waiting_date", "waiting_date_manual"} => d.answers["media"] # 0
    /\ s \in {"waiting_time_choice", "waiting_time_input"} => Complete(d)

\* Every question finds the answers that its handlers read, whatever call
\* failed and whatever time was refused before it (create_story.py:289, 405).
AnswersAtHand == Calm => Fits(state, data)

\* A job is made of the answers of one conversation (create_story.py:114, 415).
OneConversation ==
    \A i \in Slots :
        tasks[i].does = "create" /\ tasks[i].conv \notin hurried
        => \A f \in Fields : tasks[i].given.answers[f] \in {0, tasks[i].conv}

\* A conversation that has made its job or was cleared makes no further one,
\* though the polling restarts beside its task and Telegram delivers its
\* updates once more (create_story.py:440, launcher.py:158).
EndedForGood ==
    [][\A c \in Conversations : c \in over \ hurried => jobs'[c] = jobs[c]]_flow
=============================================================================
