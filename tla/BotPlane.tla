------------------------------- MODULE BotPlane -------------------------------
(***************************************************************************)
(* The bot's control plane: the supervisor of the polling                  *)
(* (PollingSupervisor), and the conversation that its dispatchers keep     *)
(* (CreateStoryFlow), in the client launcher or in the bot's own program.  *)
(* Every run of the polling has a fresh dispatcher; the tasks of the last  *)
(* one run on.  An update that Telegram delivers again is one more update. *)
(***************************************************************************)
EXTENDS PollingSupervisor, CreateStoryFlow

CONSTANT MaxCrashes  \* bound: ends of the process

ASSUME CrashesAssumption == MaxCrashes \in Nat

VARIABLE crashes

vars == <<supervisor, flow, crashes>>

TypeOK ==
    /\ SupervisorTypeOK
    /\ FlowTypeOK
    /\ crashes \in 0 .. MaxCrashes

Init ==
    /\ SupervisorInit
    /\ FlowInit
    /\ crashes = 0

Handle ==
    /\ \/ plane = "polling" /\ Update
       \/ \E i \in Slots : Continue(i)
    /\ UNCHANGED <<supervisor, crashes>>

PollingEnds ==
    /\ \E healthy \in BOOLEAN : RunEnds(healthy) \/ RunFailsForGood(healthy)
    /\ DispatcherGone
    /\ UNCHANGED crashes

PollingBegins ==
    /\ RunsAgain
    /\ FreshDispatcher
    /\ UNCHANGED crashes

Crash ==
    /\ crashes < MaxCrashes
    /\ crashes' = crashes + 1
    /\ StartsAnew
    /\ ProcessGone

Next == Handle \/ PollingEnds \/ PollingBegins \/ Crash

Spec == Init /\ [][Next]_vars
=============================================================================
