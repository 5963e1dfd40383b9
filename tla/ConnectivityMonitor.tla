------------------------- MODULE ConnectivityMonitor -------------------------
(***************************************************************************)
(* The health of one channel to Telegram (ChannelHealth of                 *)
(* telegram/health.py) and what a report makes of it.  A channel degrades  *)
(* at its first failure and recovers at its first success; in between,     *)
(* failures are summed up once per interval.  The operator is told about   *)
(* the Bot API once per outage.                                            *)
(*                                                                         *)
(* Timestamps are left out: whether the summary interval has passed since  *)
(* the last summary is the parameter "due".                                *)
(***************************************************************************)
EXTENDS Naturals

CONSTANT MaxFailures  \* bound: the counters saturate here

ASSUME MonitorAssumption == MaxFailures \in Nat

ChannelHealth ==
    [degraded            : BOOLEAN,
     consecutive_failures : 0 .. MaxFailures,
     suppressed_failures  : 0 .. MaxFailures,
     hinted              : BOOLEAN]

Healthy ==
    [degraded |-> FALSE, consecutive_failures |-> 0, suppressed_failures |-> 0, hinted |-> FALSE]

OneMore(n) == IF n < MaxFailures THEN n + 1 ELSE n

\* The hint is for the Bot API only, from the second failure on, once.
HintDue(h, bot_api) == bot_api /\ ~h.hinted /\ h.consecutive_failures >= 2

MaybeHint(h, bot_api) == [h EXCEPT !.hinted = @ \/ HintDue(h, bot_api)]

report_failure(h, bot_api, due) ==
    LET counted  == [h EXCEPT !.degraded = TRUE, !.consecutive_failures = OneMore(@)]
        reported == MaybeHint(counted, bot_api)
    IN  IF ~h.degraded \/ due
        THEN [reported EXCEPT !.suppressed_failures = 0]
        ELSE [reported EXCEPT !.suppressed_failures = OneMore(@)]

report_success(h) == IF h.degraded THEN Healthy ELSE h
=============================================================================
