-------------------------- MODULE PollingSupervisor --------------------------
(***************************************************************************)
(* run_supervised_polling (bot/runtime.py): the bot polls Telegram for     *)
(* updates; when the polling ends it begins again after a delay that grows *)
(* with the restarts in a row and is forgotten after a healthy run.        *)
(*                                                                         *)
(* The delay is factor ** (restarts - 1) in floating point: past the       *)
(* largest float the power itself raises, inside the handler of the error  *)
(* that was to be retried, and the supervisor stops.  Here the factor is a *)
(* fraction and a delay a number of ticks; what is less than a tick is     *)
(* dropped, as less than the precision is by the floats.                   *)
(***************************************************************************)
EXTENDS Integers

CONSTANTS
    MinDelay,   \* the first delay, in ticks
    MaxDelay,   \* the delay grows no further, in ticks
    FactorNum,  \* the factor by which it grows is the fraction
    FactorDen,  \*   FactorNum / FactorDen (1.8 is 9 / 5)
    MaxPower    \* the largest exponent that the floats can represent

\* aiogram's BackoffConfig refuses a factor that is not more than one and a
\* largest delay that is not more than the first; that the first is not
\* negative nobody checks, a zero is read as the default (settings.py:386).
ASSUME BackoffAssumption ==
    /\ MinDelay \in Nat \ {0}
    /\ MaxDelay \in Nat /\ MaxDelay > MinDelay
    /\ FactorDen \in Nat \ {0}
    /\ FactorNum \in Nat /\ FactorNum > FactorDen
    /\ MaxPower \in Nat

VARIABLES
    plane,            \* what the supervisor is at
    restart_attempt,  \* restarts in a row
    delay,            \* history: the last delay
    row               \* history: runs that ended since the last healthy one

supervisor == <<plane, restart_attempt, delay, row>>

SupervisorTypeOK ==
    /\ plane \in {"polling", "sleeping", "stopped"}
    /\ restart_attempt \in 0 .. MaxPower + 2
    /\ delay \in 0 .. MaxDelay
    /\ row \in 0 .. MaxPower + 2

SupervisorInit ==
    /\ plane = "polling"
    /\ restart_attempt = 0
    /\ delay = 0
    /\ row = 0

AtMost(a, b) == IF a <= b THEN a ELSE b

\* The powers of a number, a function of the exponent
Power(base) == LET power[n \in Nat] == IF n = 0 THEN 1 ELSE base * power[n - 1] IN power

\* MinDelay times the factor to the exponent
Grown(exponent) == (MinDelay * Power(FactorNum)[exponent]) \div Power(FactorDen)[exponent]

\* Mutant of compute_supervisor_delay: no cap.
compute_supervisor_delay_uncapped(n) == IF n <= 1 THEN MinDelay ELSE Grown(n - 1)

compute_supervisor_delay(n) == IF n <= 1 THEN MinDelay ELSE AtMost(MaxDelay, Grown(n - 1))

Overflows(n) == n - 1 > MaxPower

\* Mutant of should_reset_backoff: a short run counts as healthy.
should_reset_shortly(healthy) == ~healthy

should_reset_backoff(healthy) == healthy

\* What the counter says once a run has ended.
Attempt(healthy) ==
    IF restart_attempt > 0 /\ should_reset_backoff(healthy) THEN 1 ELSE restart_attempt + 1

\* History: a healthy run begins a new row, with its own end.
RowAfter(healthy) == IF healthy THEN 1 ELSE row + 1

\* Mutant of RunEnds: the counter is never reset.
RunEndsOnAndOn(healthy) ==
    /\ plane = "polling"
    /\ restart_attempt' = restart_attempt + 1
    /\ row' = RowAfter(healthy)
    /\ IF Overflows(restart_attempt')
       THEN plane' = "stopped" /\ UNCHANGED delay
       ELSE plane' = "sleeping" /\ delay' = compute_supervisor_delay(restart_attempt')

\* The polling returned, or raised an error of the network; after a run that
\* was long enough to be healthy, or was not.
RunEnds(healthy) ==
    /\ plane = "polling"
    /\ restart_attempt' = Attempt(healthy)
    /\ row' = RowAfter(healthy)
    /\ IF Overflows(restart_attempt')
       THEN plane' = "stopped" /\ UNCHANGED delay
       ELSE plane' = "sleeping" /\ delay' = compute_supervisor_delay(restart_attempt')

\* A conflict with another poller, a token that is refused, or any error that
\* is not the network's.
RunFailsForGood(healthy) ==
    /\ plane = "polling"
    /\ plane' = "stopped"
    /\ restart_attempt' =
         IF restart_attempt > 0 /\ should_reset_backoff(healthy) THEN 0 ELSE restart_attempt
    /\ UNCHANGED <<delay, row>>

\* The delay is over.
RunsAgain ==
    /\ plane = "sleeping"
    /\ plane' = "polling"
    /\ UNCHANGED <<restart_attempt, delay, row>>

\* The program ends, or is started again by the operator.
StartsAnew ==
    /\ plane' = "polling"
    /\ restart_attempt' = 0
    /\ delay' = 0
    /\ row' = 0

-----------------------------------------------------------------------------
(* Properties *)

\* While runs end one after the other without a healthy one, the delay never
\* shrinks; after a healthy one it is the least again (bot/runtime.py:57, 109,
\* 137).
BackoffFits ==
    [][plane = "polling" /\ plane' = "sleeping"
       => IF row' > 1 THEN delay' >= delay ELSE delay' = MinDelay]_supervisor

\* The bot gives up on the network only when more runs in a row than the
\* floats can count ended without a healthy one (bot/runtime.py:60, 121).
GivesUpLate ==
    [][plane = "polling" /\ plane' = "stopped" /\ row' # row => row' > MaxPower + 1]_supervisor
=============================================================================
