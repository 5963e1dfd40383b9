---------------------------- MODULE JobLifecycle ----------------------------
(***************************************************************************)
(* What the scheduler promises of a job, whoever works on it: it is made   *)
(* once, is under way or open until it is sent or cancelled, and does not  *)
(* come back from there; its story goes to Telegram only before that, and  *)
(* it is called sent only after.  The promise ends for a job that is       *)
(* contested: a session has written its row from a copy that was not the   *)
(* row any more.                                                           *)
(***************************************************************************)
CONSTANT Jobs

VARIABLES
    stage,   \* where each job is
    out      \* the jobs Telegram has a story of

vars == <<stage, out>>

Stages == {"unborn", "open", "underway", "sent", "cancelled", "gone", "contested"}

TypeOK == stage \in [Jobs -> Stages] /\ out \subseteq Jobs

Init ==
    /\ stage = [j \in Jobs |-> "unborn"]
    /\ out = {}

Move(S, from, to) ==
    /\ \A j \in S : stage[j] \in from
    /\ stage' = [j \in Jobs |-> IF j \in S THEN to ELSE stage[j]]
    /\ UNCHANGED out

Create(j)  == Move({j}, {"unborn"}, "open")
Claim(S)   == Move(S, {"open"}, "underway")
Return(j)  == Move({j}, {"underway"}, "open")
Finish(j)  == j \in out /\ Move({j}, {"open", "underway"}, "sent")
Cancel(j)  == Move({j}, {"open"}, "cancelled")
Remove(j)  == Move({j}, {"sent", "cancelled"}, "gone")
Contest(S) == Move(S, Stages, "contested")

Publish(j) ==
    /\ stage[j] \in {"open", "underway", "contested"}
    /\ out' = out \cup {j}
    /\ UNCHANGED stage

Next ==
    \/ \E j \in Jobs : Create(j) \/ Return(j) \/ Finish(j) \/ Cancel(j) \/ Remove(j) \/ Publish(j)
    \/ \E S \in SUBSET Jobs : Claim(S) \/ Contest(S)

Spec == Init /\ [][Next]_vars
=============================================================================
